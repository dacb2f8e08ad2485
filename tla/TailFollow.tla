------------------------------ MODULE TailFollow ------------------------------
(***************************************************************************)
(* tail -f and tail -F: forward() and follow() of src/src/tail/forward.c,  *)
(* the opening of the files in main() of tail.c, and the processes that    *)
(* write, truncate, rename, remove and create the files meanwhile.         *)
(*                                                                         *)
(* A file is an inode with a sequence of lines; a line is the number of    *)
(* the append that wrote it and has one byte, its newline, so that -c and  *)
(* -n count alike.  A step of tail is one system call whose answer can be  *)
(* out of date, with what the code does up to the next such call.          *)
(***************************************************************************)
EXTENDS Integers, Sequences, FiniteSets

CONSTANTS NumFiles,    \* no_files, the names on the command line
          NumInodes,   \* bound: inodes that ever exist
          Scenarios,   \* bound: how often each thing happens to the files
          Options      \* command lines, and whether inotify works here

Files  == 1 .. NumFiles
Inodes == 1 .. NumInodes
None   == 0            \* no inode
Never  == -1           \* the position of a file that was never opened

Option == [F : BOOLEAN, style : {"FBYTES", "RBYTES", "FLINES", "RLINES"},
           off : Nat, local : BOOLEAN]
Scenario == [append : Nat, truncate : Nat, move : Nat, unlink : Nat,
             create : Nat, fail : Nat]

ASSUME FollowAssumption ==
  /\ NumFiles \in Nat \ {0}
  /\ NumInodes \in Nat
  /\ NumFiles <= NumInodes
  /\ Scenarios \subseteq Scenario
  /\ Options \subseteq Option

VARIABLES
  opt,        \* the command line
  dir,        \* the inode each name stands for
  content,    \* the lines in each inode
  written,    \* lines ever appended to each inode
  unlinked,   \* inodes whose link count is 0
  bad,        \* inodes whose read() fails
  fresh,      \* the next inode number
  left,       \* what may still happen to the files
  pc,         \* where tail is
  idx,        \* i, the file a loop is at
  fp,         \* each file's descriptor: inode, offset, end-of-file flag
  size,       \* st_size of the last fstat() of each file
  tmp,        \* ftmp
  evChange,   \* ev_change
  ev,         \* ev[]: the watch, and whether it has a descriptor
  action,     \* USE_SLEEP or USE_INOTIFY
  watches,    \* the kernel's watches
  queue,      \* the kernel's queue of events
  last,       \* the file show() printed last
  header,     \* the header printed last
  out,        \* history: the lines printed
  early,      \* history: inodes appended to between forward() and the first show()
  skipped,    \* history: the lines jumped over
  from,       \* history: where tail began to read each inode
  moved,      \* history: lines in an inode when it lost its name
  cut,        \* history: inodes that were truncated
  absent      \* history: names that main() could not open

inodes  == <<content, written, unlinked, bad>>
names   == <<dir, fresh, moved>>
outside == <<opt, inodes, names, left, cut>>
loop    == <<pc, idx>>
files   == <<fp, size, tmp, evChange>>
notify  == <<ev, action, watches, queue>>
printed == <<last, header, out, early>>
behind  == <<skipped, from, absent>>
program == <<loop, files, ev, action, watches, last, header, out, behind>>
vars    == <<outside, loop, files, notify, printed, behind>>

-----------------------------------------------------------------------------
(* Files and descriptors                                                   *)
NoFile == [ino |-> None, pos |-> 0, eof |-> FALSE]
Opened(ino) == [ino |-> ino, pos |-> 0, eof |-> FALSE]
Least(m, n) == IF m <= n THEN m ELSE n
Rest(ino, pos) == SubSeq(content[ino], pos + 1, Len(content[ino]))

Printed(f, ino, lines, under) ==
  [k \in 1 .. Len(lines) |->
     [file |-> f, ino |-> ino, line |-> lines[k], under |-> under]]

Event(ino, kind) == [ino |-> ino, kind |-> kind]

(* inotify merges an event with an equal one at the end of the queue. *)
Queued(ino, kind) ==
  IF \/ ino \notin watches
     \/ queue # <<>> /\ queue[Len(queue)] = Event(ino, kind)
  THEN queue
  ELSE Append(queue, Event(ino, kind))

Init ==
  /\ opt \in Options
  /\ \E A \in SUBSET Files : dir = [f \in Files |-> IF f \in A THEN f ELSE None]
  /\ written = [ino \in Inodes |-> 0] /\ content = [ino \in Inodes |-> <<>>]
  /\ unlinked = {} /\ bad = {} /\ fresh = NumFiles + 1 /\ left \in Scenarios
  /\ pc = "open" /\ idx = 1
  /\ fp = [f \in Files |-> NoFile]
  /\ size = [f \in Files |-> 0]
  /\ tmp = None /\ evChange = FALSE
  /\ ev = [f \in Files |-> [wd |-> None, armed |-> FALSE]]
  /\ action = "USE_SLEEP" /\ watches = {} /\ queue = <<>>
  /\ last = NumFiles /\ header = None
  /\ out = <<>> /\ skipped = {}
  /\ from = [f \in Files |-> [ino \in Inodes |-> Never]]
  /\ moved = [ino \in Inodes |-> Never]
  /\ cut = {} /\ early = {} /\ absent = {}

-----------------------------------------------------------------------------
(* The other processes.  Writers keep the inode when its name is gone.     *)
Spend(kind) == left[kind] > 0 /\ left' = [left EXCEPT ![kind] = @ - 1]
Exists(ino) == moved[ino] # Never \/ \E f \in Files : dir[f] = ino

AppendLine(ino) ==
  /\ Exists(ino)
  /\ written' = [written EXCEPT ![ino] = @ + 1]
  /\ content' = [content EXCEPT ![ino] = Append(@, written[ino] + 1)]
  /\ queue' = Queued(ino, "modify")
  /\ early' = IF \E f \in Files : fp[f].ino = ino /\ fp[f].eof
              THEN early \cup {ino} ELSE early
  /\ Spend("append") /\ UNCHANGED <<unlinked, bad, names, cut>>

Truncate(ino) ==
  /\ Exists(ino) /\ content[ino] # <<>>
  /\ content' = [content EXCEPT ![ino] = <<>>]
  /\ cut' = cut \cup {ino}
  /\ queue' = Queued(ino, "modify")
  /\ Spend("truncate") /\ UNCHANGED <<written, unlinked, bad, names, early>>

LoseName(f) ==
  /\ dir[f] # None
  /\ dir' = [dir EXCEPT ![f] = None]
  /\ moved' = [moved EXCEPT ![dir[f]] = written[dir[f]]]
  /\ UNCHANGED <<content, written, bad, fresh, cut, early>>

(* IN_MOVE_SELF is watched for with -F only. *)
Rename(f) ==
  /\ LoseName(f) /\ Spend("move")
  /\ queue' = IF opt.F THEN Queued(dir[f], "move") ELSE queue
  /\ UNCHANGED unlinked

Unlink(f) ==
  /\ LoseName(f) /\ Spend("unlink")
  /\ unlinked' = unlinked \cup {dir[f]}
  /\ UNCHANGED queue

Create(f) ==
  /\ dir[f] = None /\ fresh \in Inodes
  /\ dir' = [dir EXCEPT ![f] = fresh]
  /\ fresh' = fresh + 1
  /\ Spend("create") /\ UNCHANGED <<inodes, moved, cut, queue, early>>

(* A disk error, or ESTALE from a file server. *)
Fail(ino) ==
  /\ Exists(ino) /\ ino \notin bad
  /\ bad' = bad \cup {ino}
  /\ Spend("fail") /\ UNCHANGED <<content, written, unlinked, names, cut, queue, early>>

Environment ==
  /\ \/ \E ino \in Inodes : AppendLine(ino) \/ Truncate(ino) \/ Fail(ino)
     \/ \E f \in Files : Rename(f) \/ Unlink(f) \/ Create(f)
  /\ UNCHANGED <<opt, program>>

-----------------------------------------------------------------------------
(* The loops over the files: f is the file of this turn.                   *)
LoopHead == IF opt.F THEN "check" ELSE "show"

(* What comes after the last file.  Without any file and without -F there  *)
(* is nothing to follow; set_events() is called before the loop, and again *)
(* before the wait if a file was opened or closed.                         *)
After(place) ==
  CASE place = "open"    -> "forward"
    [] place = "forward" -> IF opt.F \/ \E f \in Files : fp'[f].ino # None
                            THEN "events" ELSE "exit"
    [] place = "watch"   -> IF evChange THEN "wait" ELSE LoopHead
    [] place = "check"   -> "show"
    [] place = "show"    -> IF evChange' THEN "events" ELSE "wait"

FaultyIsLast(i) == i > NumFiles           \* mutant: one turn too many
IsLast(i) == i = NumFiles

NextFile(place) ==
  /\ idx' = IF IsLast(idx) THEN 1 ELSE idx + 1
  /\ pc' = IF IsLast(idx) THEN After(place) ELSE place

(* for (;;): another turn of follow(). *)
Turn == idx' = 1 /\ pc' = LoopHead /\ evChange' = FALSE

At(place, f) == pc = place /\ idx = f

(* A file that is not open is passed over. *)
PassOver(f) ==
  /\ \/ At("forward", f) \/ At("show", f)
     \/ At("check", f) /\ dir[f] = None
  /\ fp[f] = NoFile
  /\ UNCHANGED <<files, notify, printed, behind>>
  /\ NextFile(pc)

-----------------------------------------------------------------------------
(* The start: main() opens the files, forward() prints their ends.         *)
FirstRead(f, ino, pos) ==
  from' = [from EXCEPT ![f][ino] = IF @ = Never THEN pos ELSE @]

OpenFile(f) ==
  /\ At("open", f)
  /\ fp' = [fp EXCEPT ![f] = IF dir[f] = None THEN NoFile ELSE Opened(dir[f])]
  /\ size' = [size EXCEPT ![f] = IF dir[f] = None THEN 0 ELSE Len(content[dir[f]])]
  /\ absent' = IF dir[f] = None THEN absent \cup {f} ELSE absent
  /\ UNCHANGED <<tmp, evChange, notify, printed, skipped, from>>
  /\ NextFile("open")

(* Where forward() begins: st_size is main()'s, the seek from the end goes *)
(* by the length of now.                                                   *)
StartAt(f) ==
  LET now == Len(content[fp[f].ino])
  IN CASE opt.style = "FBYTES" -> Least(opt.off, size[f])
       [] opt.style = "FLINES" -> Least(opt.off, now)
       [] opt.style = "RBYTES" -> IF size[f] >= opt.off THEN now - opt.off ELSE 0
       [] opt.style = "RLINES" -> IF opt.off = 0 THEN now
                                  ELSE size[f] - Least(opt.off, size[f])

(* The seek to before the beginning fails. *)
SeekFails(f) == opt.style = "RBYTES" /\ size[f] >= opt.off /\ StartAt(f) < 0

(* rlines() maps st_size bytes: SIGBUS if they are gone or unreadable.     *)
MapFaults(f) ==
  /\ opt.style = "RLINES" /\ opt.off > 0 /\ size[f] > 0
  /\ Len(content[fp[f].ino]) < size[f] \/ fp[f].ino \in bad

Forward(f) ==
  LET ino   == fp[f].ino
      start == IF SeekFails(f) THEN 0 ELSE StartAt(f)
      reads == ~SeekFails(f) /\ ino \notin bad
      lines == IF reads THEN Rest(ino, start) ELSE <<>>
  IN /\ At("forward", f) /\ fp[f] # NoFile /\ ~MapFaults(f)
     /\ header' = IF NumFiles > 1 THEN f ELSE header
     /\ out' = out \o Printed(f, ino, lines, header')
     /\ fp' = [fp EXCEPT ![f] = [ino |-> ino, pos |-> start + Len(lines), eof |-> reads]]
     /\ FirstRead(f, ino, start)
     /\ UNCHANGED <<size, tmp, evChange, notify, last, early, skipped, absent>>
     /\ NextFile("forward")

-----------------------------------------------------------------------------
(* set_events().  inotify_add_watch() takes the name, not the descriptor.  *)
UseSleep == ~opt.local /\ \E f \in Files : fp[f] # NoFile

SetEvents ==
  /\ pc = "events"
  /\ action' = IF UseSleep THEN "USE_SLEEP" ELSE "USE_INOTIFY"
  /\ pc' = IF UseSleep THEN After("watch") ELSE "watch"
  /\ UNCHANGED <<idx, files, ev, watches, queue, printed, behind>>

Watch(f) ==
  /\ At("watch", f)
  /\ \/ /\ fp[f] = NoFile
        /\ ev' = [ev EXCEPT ![f].armed = FALSE]
        /\ UNCHANGED watches
     \/ /\ fp[f] # NoFile /\ dir[f] # None
        /\ ev' = [ev EXCEPT ![f] = [wd |-> dir[f], armed |-> TRUE]]
        /\ watches' = watches \cup {dir[f]}
  /\ UNCHANGED <<files, action, queue, printed, behind>>
  /\ NextFile("watch")

-----------------------------------------------------------------------------
(* show(), and the loop that looks at the names (-F)                       *)
Lines(f) ==
  IF fp[f].eof \/ fp[f].ino \in bad THEN <<>> ELSE Rest(fp[f].ino, fp[f].pos)

HeaderDue(f) == Lines(f) # <<>> /\ last # f /\ NumFiles > 1
FaultyLastShown(f) == last                \* mutant: last = file forgotten
LastShown(f) == IF HeaderDue(f) THEN f ELSE last

Show(f) ==
  /\ header' = IF HeaderDue(f) THEN f ELSE header
  /\ last' = LastShown(f)
  /\ out' = out \o Printed(f, fp[f].ino, Lines(f), header')
  /\ early' = IF fp[f].eof THEN early ELSE early \ {fp[f].ino}

(* Where show() leaves the descriptor: clearerr(), so that the next one    *)
(* reads again.                                                            *)
NoClear(f) == [fp[f] EXCEPT !.pos = @ + Len(Lines(f)), !.eof = TRUE]
                                          \* mutant: no clearerr()
SeeksEnd(f) == [fp[f] EXCEPT !.pos = Len(content[fp[f].ino]), !.eof = FALSE]
                                          \* mutant: fseek() instead of clearerr()
Shown(f) == [fp[f] EXCEPT !.pos = @ + Len(Lines(f)), !.eof = FALSE]

(* The last show() before a descriptor is closed. *)
FaultyLastLook(f) == UNCHANGED printed    \* mutant: closed without a last look
LastLook(f) == Show(f)

(* The name has appeared, or is gone: print the rest and have no file.     *)
CheckName(f) ==
  /\ At("check", f) /\ (fp[f] = NoFile) # (dir[f] = None)
  /\ IF fp[f] = NoFile
     THEN /\ fp' = [fp EXCEPT ![f] = Opened(dir[f])]
          /\ FirstRead(f, dir[f], 0)
          /\ UNCHANGED printed
     ELSE /\ fp' = [fp EXCEPT ![f] = NoFile]
          /\ LastLook(f)
          /\ UNCHANGED from
  /\ evChange' = TRUE
  /\ UNCHANGED <<size, tmp, notify, skipped, absent>>
  /\ NextFile("check")

(* The name is there: ftmp = fopen(), and then fstat(). *)
OpenName(f) ==
  /\ At("check", f) /\ fp[f] # NoFile /\ dir[f] # None
  /\ tmp' = dir[f]
  /\ pc' = "compare"
  /\ UNCHANGED <<idx, fp, size, evChange, notify, printed, behind>>

FaultyReplaced(f) == tmp # f \/ tmp \in unlinked
                                          \* mutant: file->st keeps the first inode
Replaced(f) == tmp # fp[f].ino \/ tmp \in unlinked

CompareName(f) ==
  /\ At("compare", f) /\ ~(Replaced(f) /\ fp[f].ino \in bad)
  /\ IF Replaced(f)
     THEN /\ LastLook(f)
          /\ fp' = [fp EXCEPT ![f] = Opened(tmp)]
          /\ FirstRead(f, tmp, 0)
          /\ evChange' = TRUE
     ELSE UNCHANGED <<printed, fp, from, evChange>>
  /\ tmp' = None
  /\ UNCHANGED <<size, notify, skipped, absent>>
  /\ NextFile("check")

(* After a read error the file is closed. *)
ShowFile(f) ==
  /\ At("show", f) /\ fp[f] # NoFile
  /\ Show(f)
  /\ fp' = [fp EXCEPT ![f] = IF fp[f].ino \in bad THEN NoFile ELSE Shown(f)]
  /\ evChange' = (evChange \/ fp[f].ino \in bad)
  /\ UNCHANGED <<size, tmp, notify, behind>>
  /\ NextFile("show")

(* The end by a signal: a mapping that faults, or fclose(NULL) after a     *)
(* read error of show().  By err(): a name that cannot be watched.         *)
Die(f) ==
  /\ \/ At("forward", f) /\ fp[f] # NoFile /\ MapFaults(f) /\ pc' = "killed"
     \/ At("compare", f) /\ Replaced(f) /\ fp[f].ino \in bad /\ pc' = "killed"
     \/ At("watch", f) /\ fp[f] # NoFile /\ dir[f] = None /\ pc' = "exit"
  /\ UNCHANGED <<idx, files, notify, printed, behind>>

-----------------------------------------------------------------------------
(* The wait                                                                *)

(* usleep(), or poll() with the timeout of -F. *)
FaultyHasTimeout == FALSE                 \* mutant: poll() without a timeout
HasTimeout == opt.F

Pause ==
  /\ pc = "wait"
  /\ action = "USE_SLEEP" \/ (HasTimeout /\ queue = <<>>)
  /\ Turn
  /\ UNCHANGED <<fp, size, tmp, notify, printed, behind>>

(* The loop over the watches ends at n, which poll() has set to the number *)
(* of descriptors that are ready: one.                                     *)
PollReturn == 1
SourcesOf(ino) == {f \in Files : f <= PollReturn /\ ev[f] = [wd |-> ino, armed |-> TRUE]}

TakeEvent ==
  /\ pc = "wait" /\ action = "USE_INOTIFY" /\ queue # <<>>
  /\ queue' = Tail(queue)
  /\ UNCHANGED <<fp, tmp, ev, action, watches, printed, behind>>

IgnoreEvent ==
  /\ TakeEvent
  /\ Head(queue).kind # "modify" \/ SourcesOf(Head(queue).ino) = {}
  /\ Turn /\ UNCHANGED size

(* fstat(): all is well if the file is longer than what was read of it,    *)
(* else lseek(SEEK_END) follows.                                           *)
NeverOk(f) == FALSE                       \* mutant: every event repositions
AllIsOk(f) == Len(content[fp[f].ino]) > fp[f].pos

StatSource ==
  /\ TakeEvent /\ Head(queue).kind = "modify"
  /\ \E f \in SourcesOf(Head(queue).ino) :
       /\ \A g \in SourcesOf(Head(queue).ino) : f <= g
       /\ size' = [size EXCEPT ![f] = Len(content[fp[f].ino])]
       /\ IF AllIsOk(f) THEN Turn
          ELSE pc' = "reposition" /\ idx' = f /\ UNCHANGED evChange

Reposition(f) ==
  LET ino  == fp[f].ino
      over == Rest(ino, IF fp[f].pos <= Len(content[ino]) THEN fp[f].pos ELSE 0)
  IN /\ At("reposition", f)
     /\ fp' = [fp EXCEPT ![f].pos = Len(content[ino])]
     /\ skipped' = skipped \cup {<<f, ino, over[k]>> : k \in 1 .. Len(over)}
     /\ Turn
     /\ UNCHANGED <<size, tmp, notify, printed, from, absent>>

Program ==
  /\ \/ \E f \in Files :
          \/ PassOver(f) \/ OpenFile(f) \/ Forward(f) \/ Watch(f)
          \/ CheckName(f) \/ OpenName(f) \/ CompareName(f) \/ ShowFile(f)
          \/ Reposition(f) \/ Die(f)
     \/ SetEvents \/ Pause \/ IgnoreEvent \/ StatSource
  /\ UNCHANGED outside

(* tail has ended, or poll() waits without a timeout and nobody writes.    *)
Over == pc \in {"exit", "killed"}
Stopped ==
  /\ Over \/ (pc = "wait" /\ action = "USE_INOTIFY" /\ ~HasTimeout /\ queue = <<>>)
  /\ UNCHANGED vars

Next == Program \/ Environment \/ Stopped

(* Fairness: tail is scheduled, and its timeout expires; nobody has to     *)
(* write.                                                                  *)
Spec == Init /\ [][Next]_vars /\ WF_vars(Program)

-----------------------------------------------------------------------------
(* Properties                                                              *)
Descriptor == [ino : Inodes \cup {None}, pos : Nat, eof : BOOLEAN]

(* Every variable holds what its declaration says; the descriptors stay    *)
(* within the files, the events within the watches.                        *)
TypeOK ==
  /\ opt \in Options
  /\ dir \in [Files -> Inodes \cup {None}]
  /\ \A ino \in Inodes : \A k \in DOMAIN content[ino] : content[ino][k] \in 1 .. written[ino]
  /\ unlinked \subseteq Inodes /\ bad \subseteq Inodes
  /\ fresh \in 1 .. NumInodes + 1 /\ left \in Scenario
  /\ pc \in {"open", "forward", "events", "watch", "check", "compare", "show",
             "wait", "reposition", "exit", "killed"}
  /\ idx \in Files
  /\ fp \in [Files -> Descriptor] /\ size \in [Files -> Nat]
  /\ tmp \in Inodes \cup {None} /\ evChange \in BOOLEAN
  /\ ev \in [Files -> [wd : Inodes \cup {None}, armed : BOOLEAN]]
  /\ action \in {"USE_SLEEP", "USE_INOTIFY"}
  /\ watches \subseteq Inodes /\ \A k \in DOMAIN queue : queue[k].ino \in watches
  /\ last \in Files \cup {None} /\ header \in Files \cup {None}

IsPrinted(f, ino, line) ==
  \E k \in DOMAIN out : out[k].file = f /\ out[k].ino = ino /\ out[k].line = line
Accounted(f, ino, line) == IsPrinted(f, ino, line) \/ <<f, ino, line>> \in skipped

(* No gap: what tail has behind it of a file that was never truncated, it  *)
(* has printed, all of it, but for what a reposition jumped over.          *)
NoGap ==
  \A f \in Files :
    LET ino == fp[f].ino
    IN ino # None /\ ino \notin cut /\ from[f][ino] # Never
       => \A line \in from[f][ino] + 1 .. fp[f].pos : Accounted(f, ino, line)

(* The lines of a file come out in the order they were written, and no     *)
(* line twice.  An unlinked file is the exception: follow() may open the   *)
(* name just before it is removed, see a link count of 0, take the same    *)
(* inode for a new file and print it again (forward.c:467-475).            *)
InOrderOnce ==
  \A j, k \in DOMAIN out :
    j < k /\ out[j].file = out[k].file /\ out[j].ino = out[k].ino
    => out[j].line < out[k].line \/ out[j].ino \in unlinked

(* Rotation: when tail has left a file, all that was in it when it lost    *)
(* its name has been printed: show() runs before the descriptor is closed. *)
RotationComplete ==
  \A f \in Files, ino \in Inodes :
    /\ from[f][ino] # Never /\ fp[f].ino # ino /\ ino \notin cut \cup bad \cup early
    => \A line \in from[f][ino] + 1 .. moved[ino] : Accounted(f, ino, line)

(* Every line is printed under the name of its file.  The last name is the *)
(* exception if it did not exist at the start: follow() takes it for the   *)
(* file printed last, and show() leaves its header out.                    *)
HeaderRight ==
  \A k \in DOMAIN out :
    NumFiles > 1 /\ out[k].under # out[k].file
    => out[k].file = NumFiles /\ NumFiles \in absent

(* What is printed is, name by name, the lines of the files: none left out *)
(* up to where tail is, none twice, none of a file it has left behind, and *)
(* each under its header.                                                  *)
LinesRight == NoGap /\ InOrderOnce /\ RotationComplete /\ HeaderRight

(* A file that was not truncated loses only what was appended between the  *)
(* fstat() and the lseek() that follows it.                                *)
SkipsOnlyNew ==
  [][\A e \in skipped' \ skipped : e[2] \in cut \/ e[3] > size[e[1]]]_vars

(* What the comments at forward.c:518-537 say: a modification that left a  *)
(* file shorter than what was read of it is answered with the reposition.  *)
TakesModify(ino) ==
  /\ pc = "wait" /\ action = "USE_INOTIFY" /\ queue # <<>>
  /\ Head(queue) = Event(ino, "modify") /\ queue' = Tail(queue)
Shrunk(f) == fp[f].pos > Len(content[fp[f].ino])
NoticesShrinking(f) ==
  fp[f].ino # None /\ ev[f] = [wd |-> fp[f].ino, armed |-> TRUE]
    /\ TakesModify(fp[f].ino) /\ Shrunk(f)
  => pc' = "reposition" /\ idx' = f
ShrinkNoticed == [][\A f \in Files : NoticesShrinking(f)]_vars

(* -f: every line appended to an open file is printed in the end.  Two     *)
(* exceptions: a truncated file (below), and what was appended before the  *)
(* watch was in place and never followed by another line, because show()   *)
(* after forward() finds the end-of-file flag set and reads nothing.       *)
Settled(f) ==
  LET ino == fp[f].ino
  IN \/ ino \in {None} \cup cut \cup bad \/ fp[f].pos = Len(content[ino])
     \/ ~opt.F /\ action = "USE_INOTIFY" /\ (ino \in early \/ ino \notin watches)
FollowsFile == <>[](Over \/ \A f \in Files : Settled(f))

(* -F: in the end tail has the file that each name stands for open, the    *)
(* one created in place of another too, and has printed it to its end.     *)
FollowsName ==
  opt.F => <>[](\/ Over
                \/ \A f \in Files :
                     dir[f] \notin bad =>
                       fp[f].ino = dir[f] /\ (dir[f] # None => Settled(f)))

(* No line stays unprinted for ever, nor a new file unnoticed.             *)
Follows == FollowsFile /\ FollowsName

=============================================================================

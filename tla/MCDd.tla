--------------------------------- MODULE MCDd ---------------------------------
(***************************************************************************)
(* Instances of Dd for TLC: command lines grouped by what they exercise.   *)
(***************************************************************************)
EXTENDS Dd

\* dd ibs=2 obs=3 between two pipes.
Pipes == [given |-> {}, ibs |-> 2, obs |-> 3, cbs |-> 0, cpy_cnt |-> 0, skip |-> 0,
          seek |-> 0, inpipe |-> TRUE, outpipe |-> TRUE, src |-> <<>>, bad |-> {},
          old |-> <<>>]

Text == <<"a", NUL, "b", NL, "a">>

\* Block sizes against each other, with each conversion that is not by record.
PlainCommands ==
  {[Pipes EXCEPT !.given = f, !.ibs = i, !.obs = o, !.src = Take(Text, l)] :
     f \in {{}, {"UCASE"}, {"SWAB"}, {"SYNC"}, {"OSYNC"}, {"IF", "OSYNC"}},
     i \in 1 .. 3, o \in 1 .. 3, l \in {0, 5}}
  \cup {[Pipes EXCEPT !.given = f, !.ibs = i, !.obs = i, !.src = Text] :
     f \in {{"BS"}, {"BS", "SYNC"}, {"BS", "IF"}, {"BS", "UCASE"}}, i \in 1 .. 3}

\* count=, iflag=fullblock and skip= on a pipe.
CountCommands ==
  {[Pipes EXCEPT !.given = f \cup {"COUNT"} \cup (IF s > 0 THEN {"SKIP"} ELSE {}),
                 !.cpy_cnt = c, !.skip = s, !.src = Text] :
     f \in {{}, {"IFULLBLOCK"}}, c \in {-1, 1, 2, 4}, s \in {0, 1, 3}}

\* Records: every input of five letters and newlines, or letters and spaces.
BlockCommands ==
  {[Pipes EXCEPT !.given = {"BLOCK"} \cup f, !.cbs = c, !.ibs = i, !.src = s] :
     f \in {{}, {"UCASE"}}, c \in 2 .. 3, i \in 2 .. 3, s \in [1 .. 5 -> {"a", NL}]}

UnblockCommands ==
  {[Pipes EXCEPT !.given = {"UNBLOCK", "UCASE"}, !.cbs = c, !.obs = o, !.src = s] :
     c \in {2, 3}, o \in {1, 3}, s \in [1 .. 5 -> {"a", SP}]}

\* Files: dense and sparse copies into new and old files, with seek=.
Files == [Pipes EXCEPT !.inpipe = FALSE, !.outpipe = FALSE, !.old = <<"o", "o", "o", "o", "o", "o">>]

FileCommands ==
  {[Files EXCEPT !.given = f \cup {"OF"} \cup (IF k > 0 THEN {"SEEK"} ELSE {}),
                 !.seek = k, !.obs = o, !.src = s] :
     f \in {{}, {"SPARSE"}, {"NOTRUNC"}}, k \in {0, 1}, o \in {1, 2}, s \in [1 .. 4 -> {"a", NUL}]}
  \cup {[Files EXCEPT !.given = {"SPARSE"}, !.outpipe = TRUE, !.obs = 1, !.src = s] :
     s \in [1 .. 2 -> {"a", NUL}]}
  \cup {[Pipes EXCEPT !.given = {"SEEK"}, !.seek = 1, !.src = Text]}
  \cup {[Files EXCEPT !.given = {"OF", "SEEK", "NOTRUNC"}, !.seek = k] : k \in {1, 3}}
  \cup {[Files EXCEPT !.given = {"COUNT", "IFULLBLOCK", "SKIP"}, !.cpy_cnt = 1, !.skip = k, !.src = Text] : k \in {1, 2, 4}}

\* A disk with bad blocks.
Disk == <<"a", "b", "o", "a", "b">>
RecoveryCommands ==
  {[Files EXCEPT !.given = f \cup (IF k > 0 THEN {"SKIP"} ELSE {}), !.skip = k, !.src = Disk, !.bad = b] :
     f \in {{}, {"NOERROR"}, {"NOERROR", "SYNC"}, {"NOERROR", "IFULLBLOCK"}},
     k \in {0, 1}, b \in {{0, 1}, {2, 3}, {0, 1, 4, 5}, {1, 2}}}

AllCommands == PlainCommands \cup CountCommands \cup BlockCommands \cup UnblockCommands
                 \cup FileCommands \cup RecoveryCommands

\* For the two disagreements with dd.1.
BlockTailCommands ==
  {[Pipes EXCEPT !.given = {"BLOCK"} \cup f, !.cbs = 2, !.obs = o, !.src = <<"a", "b", NL, "a">>] :
     f \in {{"OSYNC"}, {"UCASE"}, {"UCASE", "OSYNC"}}, o \in {2, 6}}
SparseNotruncCommands ==
  {[Files EXCEPT !.given = {"OF", "NOTRUNC", "SPARSE"}, !.obs = o, !.src = s] :
     o \in 1 .. 2, s \in [1 .. 4 -> {"a", NUL}]}
==============================================================================

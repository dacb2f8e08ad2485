--------------------------------- MODULE MCSort ---------------------------------
(***************************************************************************)
(* Instances of Sort: inputs whose lines have equal keys in different      *)
(* files, memory for one to three lines, merges in one pass and in two,    *)
(* three threads, and -m, -s, -u and -o.                                   *)
(***************************************************************************)
EXTENDS Sort

L(k, r) == [key |-> k, rest |-> r]

OneFile   == <<<<L(2, 1), L(1, 2), L(2, 0), L(1, 1), L(0, 0)>>>>
TwoFiles  == <<<<L(2, 1), L(1, 1), L(1, 3)>>, <<L(1, 2), L(2, 1), L(0, 4)>>>>
FourFiles == <<<<L(0, 1), L(3, 0)>>, <<L(2, 2)>>, <<L(1, 1), L(1, 3)>>, <<>>>>
Empty     == <<<<>>>>

Given(inp, s, u, m, o, mem, max, n, t) ==
  [input |-> inp, sflag |-> s, uflag |-> u, mflag |-> m, inplace |-> o, mem |-> mem,
   max_open_files |-> max, nthreads |-> n, threshold |-> t]

MCJobs ==
  {Given(inp, s, u, FALSE, o, mem, 3, 1, 0) :
     inp \in {TwoFiles, OneFile}, s \in {TRUE}, u \in BOOLEAN, o \in {TRUE}, mem \in {1, 2, 9}}
  \cup {Given(inp, FALSE, FALSE, FALSE, FALSE, mem, 4, 1, 0) :
          inp \in {TwoFiles, Empty}, mem \in {1, 3}}
  \cup {Given(inp, s, FALSE, FALSE, FALSE, mem, 3, n, 3) :
          inp \in {TwoFiles, OneFile}, s \in BOOLEAN, mem \in {3, 9}, n \in {2, 3}}
  \cup {Given(FourFiles, s, u, TRUE, o, 9, max, 1, 0) :
          s \in {TRUE}, u \in BOOLEAN, o \in BOOLEAN, max \in {3, 5}}
  \cup {Given(TwoFiles, FALSE, FALSE, TRUE, FALSE, 9, 3, 1, 0)}    \* not sorted
=============================================================================

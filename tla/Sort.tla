---------------------------------- MODULE Sort ----------------------------------
(***************************************************************************)
(* sort(1), src/src/sort: read the input, sort what fits into memory,      *)
(* spill it to temporary files, and merge these, at most so many at once.  *)
(*                                                                         *)
(* Files are numbers: 0 is outfile, 1 to k are the inputs, the next ones   *)
(* are temporary files.  If -o names the first input, outfile is the name  *)
(* with ".tmp" appended, and is renamed in the end.  A signal may come at  *)
(* any moment.  fclose() may fail to write what stdio has buffered, and    *)
(* pthread_create() may fail; sort looks at neither.  The order of lines   *)
(* and the merge are those of MergeHeap.                                   *)
(***************************************************************************)
EXTENDS MergeHeap, FiniteSets, SequencesExt

CONSTANTS
  Jobs,        \* the command lines and inputs considered
  MaxTemps     \* bound: temporary files there may be at once

\* input: what the files hold; inplace: -o names the first of them; mem: the lines
\* that fit into memory; threshold: the number of lines threads are worth.
Job == [input : Seq(Seq(Line)), sflag : BOOLEAN, uflag : BOOLEAN, mflag : BOOLEAN,
        inplace : BOOLEAN, mem : Nat \ {0}, max_open_files : Nat,
        nthreads : Nat \ {0}, threshold : Nat]

\* -u implies -s, --batch-size below 2 is ignored.
ASSUME JobsAssumption ==
  \A j \in Jobs : j \in Job /\ j.input # <<>> /\ j.max_open_files >= 3 /\ (j.uflag => j.sflag)

ASSUME TempsAssumption == MaxTemps \in Nat

VARIABLES
  job,        \* the command line
  pc,         \* where sort is
  ifile, iline,  \* the line read next
  list,       \* sort_list: the lines in memory
  fl, fltmp,  \* file_list: the files to merge, and whether they are temporary
  new_fl, indx,  \* locals of shrink_file_list()
  target,     \* the file to be written
  tmp_files,  \* the list the signal handler removes
  disk,       \* the files there are
  data,       \* what they hold
  started, posted, parts,  \* threads created, those that have ended, their parts
  lost,       \* history: fclose() has failed to write something
  code        \* exit status, -1 while sort runs

svars == <<job, pc, ifile, iline, list, fl, fltmp, new_fl, indx, target, tmp_files, disk,
           data, started, posted, parts, lost, code>>
vars    == <<svars, mvars>>
input   == <<ifile, iline>>
merging == <<fl, fltmp, new_fl, indx>>
threads == <<started, posted, parts>>
files   == <<disk, data>>

\* Mutant: the output goes to the file -o names, even if it is an input.
FaultyOutfile == 1

Outfile == 0
Inputs  == 1 .. Len(job.input)
Temps   == Len(job.input) + 1 .. Len(job.input) + MaxTemps
Names   == {Outfile} \cup Inputs \cup Temps

Init ==
  /\ job \in Jobs
  /\ pc = IF job.mflag THEN "shrink" ELSE "read"
  /\ ifile = 1 /\ iline = 1
  /\ list = <<>>
  /\ fl = (IF job.mflag THEN [i \in Inputs |-> i] ELSE <<>>)
  /\ fltmp = ~job.mflag
  /\ new_fl = <<>> /\ indx = 0
  /\ target = Outfile
  /\ tmp_files = IF job.inplace THEN {Outfile} ELSE {}
  /\ disk = Inputs
  /\ data = [f \in Names |-> IF f \in Inputs THEN job.input[f] ELSE <<>>]
  /\ started = {} /\ posted = {} /\ parts = <<>>
  /\ lost = FALSE
  /\ code = -1
  /\ MergeInit

Exit(how, status) == pc' = how /\ code' = status

----------------------------------------------------------------------------
(***************************************************************************)
(* procfile() and main(): read, and spill when memory is full.             *)
(***************************************************************************)

\* Mutant: off by one.
FaultyMemoryFull(l) == Len(l) > job.mem

MemoryFull(l) == Len(l) >= job.mem

ReadLine ==
  /\ pc = "read" /\ ifile \in Inputs /\ iline <= Len(job.input[ifile])
  /\ list' = Append(list, data[ifile][iline])
  /\ iline' = iline + 1
  /\ pc' = IF MemoryFull(list') THEN "new" ELSE "read"
  /\ UNCHANGED <<job, ifile, merging, target, tmp_files, files, threads, lost, code, mvars>>

NextInput ==
  /\ pc = "read" /\ ifile \in Inputs /\ iline > Len(job.input[ifile])
  /\ ifile' = ifile + 1 /\ iline' = 1
  /\ UNCHANGED <<job, pc, list, merging, target, tmp_files, files, threads, lost, code, mvars>>

\* All is read: into outfile, if nothing was spilled; else what is left is spilled.
InputEnds ==
  /\ pc = "read" /\ ifile \notin Inputs
  /\ \/ fl = <<>> /\ pc' = "sort"
     \/ fl # <<>> /\ list # <<>> /\ pc' = "new"
     \/ fl # <<>> /\ list = <<>> /\ pc' = "shrink"
  /\ UNCHANGED <<job, input, list, merging, target, tmp_files, files, threads, lost, code, mvars>>

\* new_tmp_file_name(): mkstemp() makes a file of a new name ...
MakeTemp ==
  /\ pc = "new" /\ Temps \ disk # {}
  /\ target' = CHOOSE f \in Temps \ disk : \A g \in Temps \ disk : f <= g
  /\ disk' = disk \cup {target'}
  /\ data' = [data EXCEPT ![target'] = <<>>]
  /\ pc' = "register"
  /\ UNCHANGED <<job, input, list, merging, tmp_files, threads, lost, code, mvars>>

\* ... and tmp_file_atexit() puts it on the list.
Register ==
  /\ pc = "register"
  /\ tmp_files' = tmp_files \cup {target}
  /\ pc' = IF list # <<>> THEN "sort" ELSE "open"
  /\ UNCHANGED <<job, input, list, merging, target, files, threads, lost, code, mvars>>

----------------------------------------------------------------------------
(***************************************************************************)
(* sort_list_to_file() and mt_sort()                                       *)
(***************************************************************************)

\* What mergesort() and the others of the C library make of a list.
StableSort(s) ==
  LET First(i, j) == LET c == Coll(job.sflag, s[i], s[j]) IN c < 0 \/ (c = 0 /\ i < j)
      Rank(i)     == Cardinality({j \in DOMAIN s : First(j, i)})
  IN  [k \in DOMAIN s |-> s[CHOOSE i \in DOMAIN s : Rank(i) = k - 1]]

\* sort_list_dump(): with -u no line that compares equal to the one before.
Dump(s) ==
  LET Repeats(d, l) == d # <<>> /\ Coll(job.sflag, d[Len(d)], l) = 0
      dumped[n \in 0 .. Len(s)] ==
        IF n = 0 THEN <<>>
        ELSE IF Repeats(dumped[n - 1], s[n]) THEN dumped[n - 1]
        ELSE Append(dumped[n - 1], s[n])
  IN  IF job.uflag THEN dumped[Len(s)] ELSE s

\* bwsfwrite() and closefile() write s; fclose() may fail, which nobody looks at.
Write(s) ==
  \/ data' = [data EXCEPT ![target] = s] /\ UNCHANGED lost
  \/ s # <<>> /\ data' = [data EXCEPT ![target] = <<>>] /\ lost' = TRUE

\* The list is in the file: go on reading, or to the end.
ListWritten ==
  /\ list' = <<>>
  /\ IF target = Outfile THEN pc' = "clean" /\ UNCHANGED merging
     ELSE pc' = "read" /\ fl' = Append(fl, target) /\ UNCHANGED <<fltmp, new_fl, indx>>
  /\ target' = Outfile

Threaded == job.nthreads > 1 /\ Len(list) >= job.threshold

SortList ==
  /\ pc = "sort" /\ ~Threaded
  /\ Write(Dump(StableSort(list)))
  /\ disk' = disk \cup {target}
  /\ ListWritten
  /\ UNCHANGED <<job, input, tmp_files, threads, code, mvars>>

\* The parts of the list: the last one takes what division leaves.
Part(i) ==
  LET avg == Len(list) \div job.nthreads
  IN  SubSeq(list, (i - 1) * avg + 1, IF i = job.nthreads THEN Len(list) ELSE i * avg)

SplitList ==
  /\ pc = "sort" /\ Threaded
  /\ parts' = [i \in 1 .. job.nthreads |-> Part(i)]
  /\ started' = {} /\ posted' = {}
  /\ indx' = 0
  /\ pc' = "create"
  /\ UNCHANGED <<job, input, list, fl, fltmp, new_fl, target, tmp_files, files, lost, code, mvars>>

\* pthread_create() returns an error number, which is taken for success.
CreateThread ==
  /\ pc = "create"
  /\ indx' = indx + 1
  /\ started' \in {started, started \cup {indx'}}
  /\ pc' = IF indx' = job.nthreads THEN "join" ELSE "create"
  /\ UNCHANGED <<job, input, list, fl, fltmp, new_fl, target, tmp_files, files, posted, parts,
                 lost, code, mvars>>

\* mt_sort_thread()
SortThread(i) ==
  /\ pc \in {"create", "join"}
  /\ i \in started \ posted
  /\ parts' = [parts EXCEPT ![i] = StableSort(@)]
  /\ posted' = posted \cup {i}
  /\ UNCHANGED <<job, pc, input, list, merging, target, tmp_files, files, started, lost, code,
                 mvars>>

\* Mutant: one sem_wait() for all threads.
FaultyAllPosted == posted # {}

\* sem_wait() has come back once for each thread.
AllPosted == Cardinality(posted) = job.nthreads

JoinThreads ==
  /\ pc = "join" /\ AllPosted
  /\ MergeStart(parts, job.sflag, job.uflag)
  /\ disk' = disk \cup {target}
  /\ indx' = 0
  /\ pc' = "merge_parts"
  /\ UNCHANGED <<job, input, list, fl, fltmp, new_fl, target, tmp_files, data, threads, lost, code>>

PartsMerged ==
  /\ pc = "merge_parts" /\ phase = "idle"
  /\ Write(out)
  /\ ListWritten
  /\ UNCHANGED <<job, input, tmp_files, disk, threads, code, mvars>>

----------------------------------------------------------------------------
(***************************************************************************)
(* merge_files(), shrink_file_list() and merge_files_array()               *)
(***************************************************************************)

\* Mutant: room is left for two more files than are merged.
FaultyGroup ==
  LET left == Len(fl) - indx
  IN  IF left >= job.max_open_files - 1 THEN job.max_open_files - 2 ELSE left

\* How many files are merged next.
Group ==
  LET left == Len(fl) - indx
  IN  IF left >= job.max_open_files THEN job.max_open_files - 1 ELSE left

\* The last merge, or a pass that leaves fewer files.
Shrink ==
  /\ pc = "shrink"
  /\ IF Len(fl) < job.max_open_files
     THEN /\ MergeStart([i \in DOMAIN fl |-> data[fl[i]]], job.sflag, job.uflag)
          /\ disk' = disk \cup {target}
          /\ pc' = "merge_all"
          /\ UNCHANGED new_fl
     ELSE pc' = "group" /\ new_fl' = <<>> /\ UNCHANGED <<disk, mvars>>
  /\ indx' = 0
  /\ UNCHANGED <<job, input, list, fl, fltmp, target, tmp_files, data, threads, lost, code>>

NextGroup ==
  /\ pc = "group"
  /\ IF indx < Len(fl) THEN pc' = "new" /\ UNCHANGED <<fl, fltmp>>
     ELSE pc' = "shrink" /\ fl' = new_fl /\ fltmp' = TRUE
  /\ UNCHANGED <<job, input, list, new_fl, indx, target, tmp_files, files, threads, lost, code,
                 mvars>>

OpenGroup ==
  /\ pc = "open"
  /\ MergeStart([i \in 1 .. Group |-> data[fl[indx + i]]], job.sflag, job.uflag)
  /\ pc' = "merge_group"
  /\ UNCHANGED <<job, input, list, merging, target, tmp_files, files, threads, lost, code>>

\* Mutant: the files of a pass are left to file_list_clean(), when fl has lost them.
FaultyMerged == {}

\* The temporary files a merge has used up.
Merged == IF fltmp THEN {fl[indx + i] : i \in 1 .. Group} ELSE {}

GroupMerged ==
  /\ pc = "merge_group" /\ phase = "idle"
  /\ Write(out)
  /\ disk' = disk \ Merged
  /\ new_fl' = Append(new_fl, target)
  /\ indx' = indx + Group
  /\ target' = Outfile
  /\ pc' = "group"
  /\ UNCHANGED <<job, input, list, fl, fltmp, tmp_files, threads, code, mvars>>

AllMerged ==
  /\ pc = "merge_all" /\ phase = "idle"
  /\ Write(out)
  /\ pc' = "clean"
  /\ UNCHANGED <<job, input, list, merging, target, tmp_files, disk, threads, code, mvars>>

\* One step of the merge that is going on.
Merging ==
  /\ pc \in {"merge_parts", "merge_group", "merge_all"}
  /\ MergeStep
  /\ UNCHANGED svars

----------------------------------------------------------------------------
(***************************************************************************)
(* The end, errors and signals.                                            *)
(***************************************************************************)

\* file_list_clean()
Clean ==
  /\ pc = "clean"
  /\ disk' = disk \ (IF fltmp THEN {fl[i] : i \in DOMAIN fl} ELSE {})
  /\ IF job.inplace THEN pc' = "unlink" /\ UNCHANGED code ELSE Exit("exit", 0)
  /\ UNCHANGED <<job, input, list, merging, target, tmp_files, data, threads, lost, mvars>>

\* The input that -o names goes away ...
UnlinkReal ==
  /\ pc = "unlink"
  /\ disk' = disk \ {1}
  /\ pc' = "rename"
  /\ UNCHANGED <<job, input, list, merging, target, tmp_files, data, threads, lost, code, mvars>>

\* ... and the output takes its name.
RenameOutput ==
  /\ pc = "rename"
  /\ disk' = (disk \ {Outfile}) \cup {1}
  /\ data' = [data EXCEPT ![1] = data[Outfile]]
  /\ Exit("exit", 0)
  /\ UNCHANGED <<job, input, list, merging, target, tmp_files, threads, lost, mvars>>

\* err(2): there is no memory, or mkstemp(), fopen(), fwrite() or rename() fails.
Fail ==
  /\ pc \in {"read", "new", "sort", "create", "join", "merge_parts", "open", "merge_group", "merge_all", "rename"}
  /\ disk' \in {disk} \cup (IF pc = "sort" THEN {disk \cup {target}} ELSE {})
  /\ Exit("failed", 2)
  /\ UNCHANGED <<job, input, list, merging, target, tmp_files, data, threads, lost, mvars>>

Running == pc \notin {"exit", "failed", "killed", "hung"}

\* tmp_file_atexit(), and file_is_tmp() in openfile() and closefile(), hold the
\* semaphore that clear_tmp_files() waits for.
HoldsList == pc \in {"read", "register", "sort", "open", "merge_parts", "merge_group", "merge_all"}

\* sig_handler(), in the thread of main().
Signal ==
  /\ Running
  /\ \/ disk' = disk \ tmp_files /\ Exit("killed", 255)
     \/ HoldsList /\ pc' = "hung" /\ UNCHANGED <<disk, code>>
  /\ UNCHANGED <<job, input, list, merging, target, tmp_files, data, threads, lost, mvars>>

Terminating == ~Running /\ UNCHANGED vars

Main ==
  \/ ReadLine \/ NextInput \/ InputEnds \/ MakeTemp \/ Register
  \/ SortList \/ SplitList \/ CreateThread \/ JoinThreads \/ PartsMerged
  \/ Shrink \/ NextGroup \/ OpenGroup \/ GroupMerged \/ AllMerged \/ Merging
  \/ Clean \/ UnlinkReal \/ RenameOutput

Thread == \E i \in started : SortThread(i)

Next == Main \/ Thread \/ Fail \/ Signal \/ Terminating

Spec     == Init /\ [][Next]_vars
FairSpec == Spec /\ WF_vars(Main) /\ WF_vars(Thread)

----------------------------------------------------------------------------
(***************************************************************************)
(* Properties.                                                             *)
(***************************************************************************)

\* Every variable keeps its type; the temporary names that exist are enough.
TypeOK ==
  /\ job \in Job
  /\ pc \in {"read", "new", "register", "sort", "create", "join", "merge_parts", "shrink",
             "group", "open", "merge_group", "merge_all", "clean", "unlink", "rename",
             "exit", "failed", "killed", "hung"}
  /\ ifile \in 1 .. Len(job.input) + 1 /\ iline \in Nat
  /\ list \in Seq(Line) /\ Len(list) <= job.mem
  /\ fl \in Seq(Names) /\ fltmp \in BOOLEAN /\ new_fl \in Seq(Names) /\ indx \in Nat
  /\ target \in Names /\ tmp_files \subseteq Names /\ disk \subseteq Names
  /\ data \in [Names -> Seq(Line)]
  /\ started \subseteq 1 .. job.nthreads /\ posted \subseteq started
  /\ parts \in Seq(Seq(Line))
  /\ lost \in BOOLEAN /\ code \in {-1, 0, 2, 255}
  /\ Len(fh) = Len(task.parts) /\ pushed \in 0 .. Len(fh) /\ at \in 0 .. Len(fh)

\* What sort should print: the lines in order, those that compare equal in the
\* order of the input, and with -u only the first of them.
Expected ==
  LET all == FlattenSeq(job.input)
  IN  Dump(StableSort(all))

Result == IF job.inplace THEN 1 ELSE Outfile

InputsFit == job.mflag => \A i \in Inputs : Sorted(job.sflag, job.input[i])

\* Whatever was spilled, split among threads and merged in one or more passes, the
\* output is the sorted input: a permutation of it, stable, and unique with -u
\* (main(), procfile(), mt_sort(), merge_files()).  With -m the input must be sorted.
SortedOutput == pc = "exit" /\ ~lost /\ InputsFit => data[Result] = Expected

\* No temporary file outlives a sort that succeeds; a signal leaves at most one, which it
\* finds between mkstemp() and tmp_file_atexit(). Nothing is said of a sort that ends by
\* err(2), which leaves all of them, nor of a handler that hangs: only the handler removes them.
\* No merge has more files open than max_open_files.
FilesAccounted ==
  /\ pc = "exit" => disk = Inputs \cup {Result}
  /\ Running => (disk \cap Temps) \ tmp_files \subseteq (IF pc = "register" THEN {target} ELSE {})
  /\ pc = "killed" => Cardinality(disk \cap Temps) <= 1
  /\ pc \in {"merge_group", "merge_all"} => Len(fh) + 1 <= job.max_open_files

\* sort -o file file: the file is as it was until the output is complete beside it;
\* if sort fails in between, the output is there under the other name.  Only a
\* signal between unlink() and rename() loses both, as its handler removes outfile.
InPlaceSafe ==
  job.inplace =>
    IF 1 \in disk THEN data[1] = job.input[1] \/ pc = "exit"
    ELSE \/ pc = "killed"
         \/ /\ pc \in {"rename", "failed"} /\ Outfile \in disk
            /\ lost \/ ~InputsFit \/ data[Outfile] = Expected

\* What is left of the files when sort succeeds, fails or is ended by a signal: of the temporary
\* files what FilesAccounted says, and the input of sort -o file file is there, or all of its
\* output is, but for the signal that InPlaceSafe excepts.
FilesSafe == FilesAccounted /\ InPlaceSafe

\* sort comes to an end, whatever it is given to merge; it waits for ever only for
\* a thread that could not be created.
Termination == <>(~Running \/ (pc = "join" /\ Cardinality(started) < job.nthreads))
==============================================================================

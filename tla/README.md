# bsdutils: models, checks and proofs

This directory holds TLA+ models of bsdutils (FreeBSD's utilities on Linux), the
TLC runs that check them on small instances, and TLAPS proofs of the properties
that matter most, for every value of the constants. Everything is translated
from the C source; the manual pages serve as the statement of what the code
promises. `PROJECT.json` lists the components, the runs, the source lines every
definition stands for, the hazards, and the proved theorems.

## 1. The system

bsdutils is a collection of some ninety programs. They share no state: each is a
process of its own that reads its arguments, files or a pipe, and exits with a
status. What is common to them is the kernel they talk to (processes and wait
statuses, signals and timers, file descriptors with short reads and writes,
directory entries) and `compat/`, the BSD libc functions that glibc lacks.

| part | state it keeps | operations | what is hard |
|---|---|---|---|
| `timeout` | handler flags, timer, the command's pid | loop over sigsuspend(), escalation, exit status | signals against the loop and the child's end; stale pids; the subreaper |
| `xargs` | argument buffer, `childpids`, `curprocs`, `childerr`, `rval` | `parse_input`, `prerun`, `run`, `waitchildren` | several children ending in any order, failed execs, a pool at its limit |
| `dd` | two buffers, flags, statistics, hole to seek over | `dd_in`, five conversions, `dd_out`, `dd_close` | short reads and writes, records across blocks, errors, sparse files |
| `tail -f` | files followed, offsets, kernel events | `forward`, `follow`, `set_events` | growth, truncation and renaming between two system calls |
| `sort` | lists of lines, temporary files, threads | `procfile`, `file_headers_merge`, `mt_sort`, signal handler | spilling, merging under a limit, semaphore and handler, threads that cannot start |
| `csplit`, `split` | current output file, counter of names | patterns, limits, clean up | signal against clean up, exhausted names |
| `mv`, `cp`, `ln`, `rm`, `install`, `mkdir`, `truncate` | directory entries | rename, copy, unlink | partial failure, other processes between check and use |
| `sed` | pattern and hold space, append queue, in-place files | compiled commands, `mf_fgets` | in-place protocol, ranges, deferred output |
| `tee`, `cat` | descriptors | copy loops | outputs that fail one by one |
| `find` | the plan, one fts traversal, batches | predicates, `-exec ... {} +`, `-delete` | precedence, batching, exit status |
| `bc`, `dc` | compiler state and pipe; stack, registers, sources | translation, `eval()` | jumps across levels, scales, the end of two processes |
| `test`, `expr` | parser stacks | evaluation | look-ahead, precedence, overflow |
| `pr` | position on the page, column buffers | four layouts | page ends, tabs, files of different lengths |
| `tsort`, `uniq`, `comm`, `join`, `tr`, `cut`, `head`, `wc`, `fmt`, ... | one line or word at a time | text algorithms | boundaries |
| the rest | none that outlives a statement | one system call or one line of output | nothing a unit test would not reach |

`PROJECT.json` has the complete list with one reason per part that is not modelled.

## 2. The modules

| module | what it is |
|---|---|
| `Timeout` | `timeout.c` from fork() to the exit status, its signal handler, and the kernel's signals, timer and children |
| `MCTimeout`, `Timeout.cfg`, `TimeoutDefault.cfg` | its instances |
| `TimeoutProofs` | its theorems |
| `ParallelRunner` | the abstract specification of `xargs -P`: at most so many jobs at once, none after a fatal failure, a verdict when all have ended |
| `XargsPool` | the pool of `xargs.c`, which implements `ParallelRunner` |
| `MCXargsPool`, `XargsPool.cfg`, `XargsExecRace.cfg` | its instances |
| `XargsPoolProofs` | its theorems, the refinement among them |
| `Dd` | the copy loop of `dd`, its conversions and its output |
| `MCDd`, `Dd.cfg`, `DdBlockTail.cfg`, `DdSparseNotrunc.cfg` | its instances |
| `DdProofs` | its theorems: types and buffer bounds |
| `TailFollow` | `tail -f` and `-F`, the inotify queue, and the processes that change the files |
| `MCTailFollow`, `TailFollow.cfg`, `TailShrink.cfg` | its instances |
| `MergeHeap` | the k-way merge of `sort`: a binary heap of sources |
| `Sort` | `sort` from reading to the exit status; extends `MergeHeap` |
| `MCSort`, `Sort.cfg` | its instances |
| `MergeHeapProofs` | the theorems of the merge |
| `Induction` | theorems about sets of numbers, recursive functions and `FlattenSeq` that the other proofs cite |
| `SortProofs` | the theorems of `Sort`: types, temporary files, the sorted output |
| `TailFollowProofs` | the theorems of `TailFollow` |
| `Dc` | the stack machine of `dc` and its numbers |
| `BcCompiler` | the translation of bc programs into dc commands by the actions of `bc.y` |
| `BcMeaning` | what a bc program means, evaluated without code or a stack |
| `BcDc` | `bc` and its child `dc` at the two ends of a pipe; extends `Dc`, `BcCompiler` and `BcMeaning` |
| `MCBcDc`, `BcDc.cfg` | its instances |
| `Process` | what the commands below have in common: job, input, memory, output, status |
| `LineTools`, `Pieces`, `LineMeaning` | `uniq`, `comm`, `join`, `nl`, `paste`, `cut`, `head`, `cat`; `split`, `csplit`, `tsort`, `wc`, `tee`; what they promise |
| `TextTools`, `Translate`, `TextMeaning` | `fold`, `expand`, `unexpand`, `fmt`; `tr`; what they promise |
| `FileTools`, `CopyTools`, `FileMeaning` | `mv`, `ln`, `rm`, `rmdir`, `mkdir`; `cp`, `install`; what they promise |
| `FileProofs` | theorems about `mv`, `ln`, `rm`, `rmdir` and `mkdir` |
| `SedScript`, `Sed` | the compiler of `sed`; its interpreter, in-place files and what they promise |
| `Find`, `FindMeaning` | `find`; the grammar and the meaning of its expressions |
| `Pr` | `pr` and what its pages should show |
| `Evaluate` | `expr` and `test` and what their words mean |
| `SortOrder`, `SortMeaning` | the keys and comparisons of `sort`, its sorting in memory; what they promise |
| `XargsInput` | `xargs` from its input to the command lines the pool runs, and what they promise |
| `CommandJobs`, `MCCommands`, `Commands.cfg` | the jobs of these commands, and their composition |

### Timeout

`pc` is the place in `main()`: `fork`, `mask` (between fork() and sigprocmask()),
`arm`, `suspend` (in sigsuspend()), `check` (the if chain), `wait`, and `done` or
`killed`. `Handle(s)` is `sig_handler()`. Before sigprocmask() a signal runs it at
once, afterwards it waits in `pendingset` until `Wake` takes one: `sa_mask` holds
every caught signal, so one sigsuspend() runs one handler. The kernel's side is
`proc` (the command and one detached descendant that the subreaper adopts),
`status`, `timer` and `hit` (a fatal signal the command has received).
`OnChild`, `OnAlarm`, `OnAlarmSelf`, `OnTerm` and `OnNothing` are the branches of
the loop; `Escalate` is the tail two of them share. Options are a set of records,
parsed. A behaviour starts with the handlers installed. Children that timeout
inherits over exec() are not modelled.

What the code does and the properties take into account:

* In the default mode `PR_GET_CHILD_SUBREAPER` (line 305) reads back the attribute,
  which is 1 for ever: the loop is never left because the command ended. The run
  `timeout_default` shows another consequence of the port from the FreeBSD reaper:
  the expiry kills timeout itself.
* `--foreground` with a duration of 0, and a SIGCHLD between fork() and
  sigprocmask(): the flag is set, nobody looks at it, sigsuspend() sleeps for ever.
  `EndsWithCommand` therefore asks for a limit.
* `-s ALRM` with `-k`: `sig_ign` swallows the second expiry. `-s CHLD`: it swallows
  the news of the child's end. Both are excluded where they matter.
* `sig_term` is never cleared, and a second turn through the branch calls
  `set_interval(0)`: the timer of `-k` is gone. `KillAfterEnds` is claimed only
  while nobody else sends signals.
* Without `--foreground`, `wait(&pstat)` may return an adopted descendant.

### XargsPool and ParallelRunner

`parse_input()` is reduced to what it asks of the pool: it calls `run()` at most
`MaxRuns` times, then meets the end of the input or an error; `XargsInput` models it. A command line's
number is also its child's pid; `Stranger` is a child inherited over exec().
`Run`, `RunFails` and `RunDeclined` are the three ways through `run()`; a child
whose exec failed is `exiting` until it is a zombie, because Linux wakes the
parent of a vfork() when the child gives up the shared memory, before it can be
waited for. `Reap`, `ReapStranger` and `LeaveWait` are the turns of
`waitchildren()` and `xwait()`. `childerr` is one variable for all children: the
run `xargs_exec_race` shows how the second `run()` clears it too early.

### Dd

One step is one system call or one turn of a conversion loop. `cmd` holds the
parsed command line and the files, `pc` the place in the program: `open`, `skip`,
`seek` (`setup()`), `loop` and `fill` (`dd_in()`), `conv` (in `*cfunc`), `out`
(in `dd_out()`), `close`, `end` (`dd_close()`), `exit`. A read() from a pipe
returns any nonempty part of what there is, a write() takes any part. `fed` is
the history of what was handed to the conversion, and `Convert` says what dd.1
makes of it; the code's own block by block conversion is compared with it at
every step. Character tables are represented by one map, upper case. Bytes are
names; `stale` is what uninitialised or reused memory holds.

What the code does that the manual does not say, apart from the two runs that
show a disagreement:

* `bs=` copies without aggregating short blocks only when no other flag is set, and
  `if=`, `of=`, `count=`, `skip=` and `seek=` set one (dd.c:428): with any of them
  short blocks are aggregated, against dd.1:66-72.
* `sync` sets the length to the block's before it is counted (dd.c:406-418): every
  short block is counted as a full one, against dd.1:399. `StatisticsHonest` excepts it.
* A record of exactly `cbs` bytes whose newline is in the next read() is counted as
  truncated (conv.c:169).
* With `fullblock,noerror` and no `sync`, an error drops what the block had gathered.
* `noerror` on a pipe with a persistent error never ends; the instances have bad
  blocks on seekable inputs only.
* `noerror,sync` with an `ibs` larger than the unreadable sectors: the short block before
  one is padded, then the offset moves on by `ibs` (dd.c:390-407), and what follows is
  not at its old place. `RecoveryAligned` asks for whole bad blocks (`BadBlocks`).

### TailFollow

A file is an inode with a sequence of lines; a line is the number of the append
that wrote it and counts as one byte. `dir` says which inode a name stands for,
`fp` is the descriptor of each file with its offset and stdio's end-of-file flag.
`pc` and `idx` are the loop tail is in and the file it is at: `open` (`main()`),
`forward`, `events` and `watch` (`set_events()`), `check` and `compare` (the -F
loop before and after its `fopen()`), `show`, `wait`, `reposition` (between
`fstat()` and `lseek()`). One step is one system call whose answer may be out of
date, with what follows it; `show()` up to the end of the file is one step,
because what is appended during it is read as well. `Environment` may act between
any two steps: append, truncate, rename away, unlink, create a name again, or let
an inode go bad (EIO, ESTALE). stdio reads nothing once it has seen the end of the
file until `clearerr()`: that is what C says and what glibc has done since 2.28.

What tail does against its manual page, apart from the run `tail_shrink`; each of
these is an exception the properties name, and TLC finds it when it is left out:

* The header of a last file that did not exist at the start is missing: `last` is
  the last file from the beginning (forward.c:416). `HeaderRight` excepts it.
* A name unlinked between `fopen()` and `fstat()` of the check: the link count of 0
  makes follow() print the same inode a second time (467-475). `InOrderOnce`.
* A line appended between forward()'s end of file and the first show(): with -f it
  is printed only when another line follows, with -F it is lost if the file is
  rotated before the second turn. `early` in `FollowsFile` and `RotationComplete`.
* With -f, a file renamed before its watch is in place: tail watches another inode,
  or exits with an error, which happens to -F as well (378-380). `FollowsFile`
  asks for the right watch, `FollowsName` allows the exit.
* A line appended between `fstat()` and `lseek(SEEK_END)` is jumped over (535-538),
  and so is all that a truncated file holds at that time. `SkipsOnlyNew`.
* When USE_SLEEP is taken a truncated file is never repositioned.
* After a read error on a file that was replaced, fclose(NULL) (470-471); a file
  that shrinks before rlines() reads it is a SIGBUS. Both are `Die`.

### Sort and MergeHeap

`MergeHeap` is `file_headers_merge()`, and `merge_sub_lists()`, which is the same
algorithm on lists in memory: `fh` is the heap, `pushed` how much of it is built,
`at` the index that swims or sinks; a step is one comparison and its swap. The
index of the root is 1, in the code 0. `out` and `from` are the lines printed and
the sources they came from. `Sort` extends it: its actions `JoinThreads`, `Shrink`
and `OpenGroup` take `MergeStart`, and `Merging` is a step of the merge.

`pc` is the place in the program: `read` (`procfile()`), `new` and `register`
(before and after `mkstemp()`), `sort`, `create` and `join` (`mt_sort()`),
`merge_parts`, `shrink`, `group`, `open` and `merge_group` (`shrink_file_list()`),
`merge_all`, `clean`, `unlink`, `rename`, and the four ends. A line is its key and
the rest of it, as numbers; `Coll` compares them as `list_coll()` does. `Write` is
a whole output file, which `fclose()` may fail to write; `Fail` is `err(2)`, also while
inputs are read, threads created and joined;
`Signal` the handler, which removes what is on `tmp_files` and exits, or waits for
ever if it has interrupted a holder of the semaphore.

What sort does against its manual page or comments; each is an exception that the
properties make:

* `fclose()` is not looked at (file.c:590): on a full disk sort exits with 0 and a
  short output, against sort.1:563-564. `lost` in `SortedOutput` and `InPlaceSafe`.
* `pthread_create()` returns an error number; `res >= 0` (file.c:1464) is always true,
  and sort waits for a thread that does not exist. `Termination`.
* The handler waits for a semaphore the interrupted code may hold (file.c:155); the
  comment at file.c:104-108 calls it signal-safe. `openfile()` and `closefile()` take it too
  (537, 586), so this can happen while inputs are read. The end `hung`.
* A signal between `unlink()` and `rename()` of `sort -o file file` removes both
  (sort.c:1392-1393). `InPlaceSafe`.
* A signal just after `mkstemp()` leaves that one file. Every `err(2)` leaves all
  temporary files, because only the handler removes them: `FilesAccounted` speaks of
  success and of signals, and says nothing of an `err(2)`.

### BcCompiler, Dc and BcDc

`BcCompiler` follows the actions of the grammar: `Expr` and `Stmt` yield the dc
code of a piece of a program and the state of the translation (`nesting`, the
break stack, prologue and epilogue, the macros printed in front). `Dc` is
`bcode.c` and `stack.c`: `src` the stack of sources that are read, with the tail
calls that replace one, `stk` the stack, `reg` the registers with their arrays,
`par` the parameters; one step is one turn of `eval()`. `BcDc` joins them by the
pipe: bc prints an item when it has parsed it, whatever dc is doing; at its end
it sleeps in `sigsuspend()` until SIGCHLD says that dc has left. `BcMeaning`
computes the same programs from their syntax, and `PrintsMeaning` compares the
two at every step.

* `break`, `continue` and `return` in the ELSE branch leave one level too many:
  both `emit_macro()` of bc.y:343-350 are called at the end of the statement.
  `job.sound` excepts these programs.
* `a && b` and `a || b` leave the operand that decided (bc.y:673-683), so that `2 && 2` prints 2, against bc.1:139-140,
  which gives them the meaning of C: 0 or 1. `Decided` computes bc's value and
  notes where it is neither (`plain`); of such a program `PrintsMeaning` claims nothing.
  Conditions and the operands of `!`, `&&` and `||` are only tested, and are claimed.

### The commands of Process

These programs run alone, and are one run. `job` is the command with its
arguments and files, `inp` what it has not read, `mem` its variables (and the files
on the disk for those that change files), `out` what it has printed, `status` its
exit status, -1 while it runs. `Running(tool)` is the guard of every action. One
step is one turn of the command's reading loop, or one system call of a command
that changes files. `MCCommands` instantiates the modules over the same five
variables: `Next` is a step of one command, and each invariant is the
conjunction of what the commands of a module promise. What a command promises is
said in the `...Meaning` module (or at the end of the command's own), over the
whole input at once and without its loops and buffers.

* **LineTools, Pieces.** A turn takes the next line or read(); `mem` is the group
  of `uniq`, the two sets of `join` with what was pushed back, the page section of
  `nl`. `csplit` and `split` have the open file, the names left, and for `csplit`
  a signal between any two steps; `tsort` its nodes, marks and the cycle search;
  `tee` its outputs, each of which may fail or write short at any turn.
* **TextTools, Translate.** The column, the pending blanks and words, the line
  being filled. `tr` has the two string readers, and its sets and maps as splay
  trees with the cache that answers for them once it is built.
* **FileTools, CopyTools.** `mem.fs` maps names to inodes. Between any two system calls
  the process that `job.others` describes renames, unlinks or creates, and the
  command may be killed; a call fails where permissions or the state say so.
* **SedScript, Sed.** A script is compiled from its characters to a linked list of
  commands; then one step is one command on the pattern space. With -i every file
  goes through its temporary file, backup and rename, killed at any step.
* **Find.** The arguments become a plan by the three passes of `operator.c`, and a
  step is one primary on one file; `-exec ... {} +` keeps its batch in `mem`.
* **Pr, Evaluate, SortOrder, XargsInput.** One step is a line of a page, a token and
  the reductions it allows, a comparison or a turn of a radix thread, a character.
  The threads of the radix sort take turns in any order under their mutexes.

What the code does against its manual page, on the jobs of the run. The meaning says what the
manual says; a property that covers such a job names the exception by the operator in
brackets, and TLC finds the property violated without it (that of `split -b` only says that
nothing is claimed). All were tried on the compiled programs unless it says "read":

* `head -n` writes the whole buffer of `getline()` for a line (head.c:146-147), against "the first
  count lines" (head.1:58-61). `HeadRight` claims only that the lines are there.
* `join` takes that buffer's size for the line's length too (join.c:325-340): the newline stays in the
  last field, which join.1:68-71 does not know (`WithoutNewlines`), and fields that
  end one line and not the other do not agree (`JoinsOnLast`).
* `tr -s` with two strings squeezes of string2 only characters that something is mapped to, and which it has
  put out so far (tr.c:256-257), against tr.1:83-88 and the comment at tr.c:186-187 (`Unmet`).
* `unexpand -t 4,8` puts a tab where blanks end short of a stop (unexpand.c:161-164, 128-142), against
  expand.1:68-71, which puts tabs back (`Misled`).
* `split -b N` reads N into a variable that nothing uses (split.c:122), against split.1:91-93.
* `csplit` with an offset that leads beyond the end goes on (csplit.c:432-436) against csplit.1:128-129
  (`beyond`); an empty rest becomes a file (198-206) against 125-126 (`AsCut`); a signal
  between `fopen()` and `nfiles++` leaves that file (245-249) against 63-66 (in `CsplitRight`).
* `wc -L` does not measure a last line without a newline (wc.c:250-256), against wc.1:79 (`Measured`).
* `xargs -E abc` stops at any prefix of abc, the empty argument too (xargs.c:349-350), against
  xargs.1:98-100 (`TakenForEof`); `-x -n N` runs the utility for each argument (399) against 283-288
  (`OneByOne`); the NUL of the default echo is not counted (265) against 269-274 (`WithinLimits`); an
  open quote at the end with nothing in the buffer goes unseen (316-319; `Unseen`); -I puts in the
  arguments of a line with one space between them (358-388), against "the entire line of input" of
  xargs.1:112 (`Replaced`).
* `sed`: the line behind `addr,+n` is not tried as a first address (process.c:311-316) against
  sed.1:235-238, and `c` prints nothing at the end of such a range (process.c:140) against
  sed.1:378-381 (`OverPlus`).
* `expr 1 + -1` is an invalid option, as `getopt()` permutes (expr.y:277), against expr.1:146-151 and 217-223
  (`Permuted`); `expr -- -9223372036854775808 % -1` is a SIGFPE (expr.y:515-516) against
  expr.1:65-67 (`Trap`); the message of an overflow goes to standard error, not to standard output
  as expr.1:67-68 has it (in `ExprRight`).
* `sort -k1,1i` is not seen as having a modifier (sort.c:231-237, 1276-1281), so that a global -r applies to
  the key against sort.1:147-150 (`Overlooked`).

And what the jobs keep out of, or what no manual decides:

* `cut -f` and `cut -b -n` run over the end of a line, with `getline()`'s capacity again (cut.c:398).
* `fmt -p` makes lines longer than the maximum (in `Filled`).
* `csplit` loses what follows a match on a line without a newline and rewinds wrongly behind
  BUFSIZ bytes. `tsort -l` may miss the longest cycle (read). `wc -m`: the count of invalid bytes
  depends on the reads. `tee` keeps writing to an output that has failed.
* `cp -R s s s/d` ends in an assertion (cp.c:407); `cp -RP a b` with a link b to a empties
  a. `mv` between file systems unlinks the target before it copies; `ln -sf a a`, and
  `ln -f l a` with l naming a, destroy a. `install` without -S unlinks the target first,
  and `-l rs` with absolute names makes a wrong link.
* `sed`: `N;s/x*/-/g` drops what follows the first newline (process.c:444); `sed -i q a b` cuts a
  and empties b; `N` at the end loses the pattern space; `N` and `n` go on into the next
  file with -i (sed.1:132).
* `find` (read): -depth's and -size's divisor is one global (function.c:1502); `-anewer` compares
  modification times; a refused `-ok ... +` keeps its batch; `-samefile` compares inodes only.
* `pr -m` drops a row with an empty line in its first column only; `pr -a` loses an empty last
  line; a tab in a column costs a column more; after a balanced last page its length
  stays; `pr -m +2` with a short file never ends; a line longer than the buffer
  repeats the head.
* `expr 007 '|' 1` prints 7 (expr.1 does not say which form). `test ! -a b` is a syntax error.
* `sort`: a version suffix does not start at the second of two dots; with -g an overflow comes
  after inf.
* `xargs -L` counts blank lines and runs the utility without arguments for them.

## 3. The runs

| run | module | result | properties | what it shows |
|---|---|---|---|---|
| `timeout` | `MCTimeout`, `Timeout.cfg` | holds | `TypeOK`, `ForegroundStatus`, `NoLostChild`, `NoStrayKill`, `KillIsLastResort`, `EndsInTime` | Every interleaving of the command, its descendant, the timer and two external signals with timeout's loop, in both modes: no lost SIGCHLD, no signal to a recycled pid, SIGKILL only as the last resort, the documented status with --foreground, and termination with -k. |
| `timeout_default` | `MCTimeout`, `TimeoutDefault.cfg` | violated | `StatusAsDocumented` | Without --foreground an expired limit ends timeout by its own SIGKILL (137) and leaves the command running, where the manual promises 124. |
| `xargs_pool` | `MCXargsPool`, `XargsPool.cfg` | holds | `TypeOK`, `SlotsTrackChildren`, `HonestVerdict`, `RunsInParallel`, `Termination` | Three command lines on one or two slots with every outcome, exec failure and order of endings, and an inherited child: the slots track the children, the exit status hides nothing, and the pool implements the abstract parallel runner. |
| `xargs_exec_race` | `MCXargsPool`, `XargsExecRace.cfg` | violated | `ExecFailureReported` | With -P 2 a second vfork() clears childerr before the child whose exec failed is reaped, and xargs exits with 1 instead of 126 or 127. |
| `dd` | `MCDd`, `Dd.cfg` | holds | `TypeOK`, `BufferBounds`, `OutputRight`, `SummaryTrue`, `Termination` | 762 command lines and inputs, every split into short reads and writes and every write error: no buffer is overrun, the output is always the beginning of the converted input and all of it in the end, the statistics are true (with conv=sync a padded block counts as a full one, against dd.1:399: the one exception), damaged disks keep their offsets. |
| `dd_block_tail` | `MCDd`, `DdBlockTail.cfg` | violated | `BlockAsDocumented` | With conv=block, a last record without a newline is neither translated nor safe from osync, whose padding overwrites it and leaves uninitialised bytes in the block. |
| `dd_sparse_notrunc` | `MCDd`, `DdSparseNotrunc.cfg` | violated | `NotruncKeepsOld` | With conv=sparse,notrunc, a copy that ends in a block of zeros truncates the output at its own end, and what the output held beyond is lost. |
| `sort` | `MCSort`, `Sort.cfg` | holds | `TypeOK`, `SortedOutput`, `FilesSafe`, `MergeOrdered`, `Termination` | sort with memory for one to nine lines, merges in one pass and in several, three threads in any order, failing calls and a signal at any moment: the output is the sorted input, stable, unique with -u; no temporary file stays when sort succeeds and at most one when a signal ends it (an err(2) may leave them all); -o on an input loses nothing, but for a signal between unlink() and rename(). |
| `tail_follow` | `MCTailFollow`, `TailFollow.cfg` | holds | `TypeOK`, `LinesRight`, `SkipsOnlyNew`, `Follows` | tail -f and -F on two names while other processes append, truncate, rename, unlink and create between any two system calls: what is printed is what was written, in order, without a gap, up to the last line, and -F ends up at the file that has the name. |
| `tail_shrink` | `MCTailFollow`, `TailShrink.cfg` | violated | `ShrinkNoticed` | follow() looks for the source of an event in the first file only, because poll() has overwritten n: the truncation of the second file is never noticed. |
| `bc_dc` | `MCBcDc`, `BcDc.cfg` | holds | `TypeOK`, `PrintsMeaning`, `LevelsBalance`, `Ends` | Some two thousand bc programs of loops, branches, jumps, functions, recursion, arrays and scaled arithmetic are translated and executed by dc while bc reads on: what is printed is what the language says (not claimed: jumps in else parts, and values of && and || other than 0 and 1), nothing is left on a stack, and bc ends after dc. |
| `commands` | `MCCommands`, `Commands.cfg` | holds | `LinesRight`, `TextRight`, `PiecesRight`, `FilesKept`, `FilesDone`, `Edits`, `Found`, `PagesRight`, `Evaluated`, `Collated`, `Ends` | Thirty-two commands, each on every job of its own: uniq, comm, join, cut, paste, head, nl, cat, fold, expand, unexpand, fmt, center, split, csplit, tsort, wc, tee, tr, sed, pr, expr, test, find, the order of sort with the threads of its radix sort, the command lines of xargs, and mv, ln, rm, rmdir, mkdir, cp and install beside other processes, with calls that fail and a kill at any step. What each prints and leaves is what its manual page says of the words of its job, but for the exceptions that the properties name, and each ends. |

Deadlock is checked except in the two runs of `timeout`, which really may sleep
for ever; the programs that end do so in a self-loop `Terminating`.

### Bounds

* `Timeout`: two external signals (one that comes before and one that comes after
  the escalation are enough to take every branch twice), one descendant, two exit
  codes, every combination of the flags, and `-s` as TERM, KILL, ALRM or CHLD.
* `XargsPool`: three command lines on one or two slots: one that fails, one that is
  running meanwhile, and one that must not be started any more.
* `Dd`: inputs of at most five bytes, blocks of one to three and records of two or
  three: a record longer than a block, a block that holds two records, records
  that end at, before and behind a block's end all happen; every input over two
  letters is taken where records or holes matter.
* `TailFollow`: two names, three inodes; four scenarios of what may happen to the
  files: three appends and a truncation, two appends around a rotation, an unlink
  with a new file, an unlink with a read error. Two names are what the loops, the
  headers and the watches need; two appends to see order, gaps and repetitions.
* `Sort`: inputs of at most six lines in one, two and four files, with equal keys in
  different files and within one; memory for one line (every line is spilled, two
  merge passes), for two or three (the last spill is full or partly so) and for all;
  batches of two, three and four files; two and three threads on three lines or
  more; -m on sorted and on unsorted inputs. `MaxTemps` 10 exceeds what they need
  (with fewer, `MakeTemp` would find no name and TLC stop with an error). The instances of -u
  take -s as well, as the program does.
* `BcDc`: about two thousand programs: a grammar of control flow (every statement in every
  position, at the top level and in a function) to depth two, operators with operands
  of scales 0 to 3, arrays with indices up to 4, recursion; `MCFuel` 40 bounds the turns
  of loops and calls in `BcMeaning` only, and is more than any of them makes.
* `Commands`: every input of two to six characters or lines, over the alphabet that matters to
  the command, with the options that interact. `expr` computes in integers of 4 bits, so that
  every pair of operands is tried at the limits of the range. `SortOrder` has the constants of
  the code made small: `UllMax` 8, `MaxNumSize` 3, `SmallNode` 3, `TinyNode` 4, `MaxLevel` 2 and
  `Threshold` 4, so that five lines already meet all the radix sort's cases. `xargs`: inputs of up to six
  characters, `-s` 3 to 8, `-n` 1, 2 and more than there are. File commands: trees of up to
  eight names on two devices, one disturbance by another process at any step.

### Fairness

`timeout`: the process is scheduled, a running timer expires, a process hit by a
fatal signal dies. Nothing makes a command end by itself. `xargs`: the process is
scheduled and the invocations end; the inherited child need not. `dd`: the
process is scheduled, and system calls return. `tail`: the process is scheduled and
poll() with a timeout returns; nobody needs to write anything. `sort`: the main
thread is scheduled, and so are the threads it has created.
`bc` and `dc` are both scheduled (`WF` for each). A command of `MCCommands`
goes on as long as it can: written as `[]<>(status # -1) \/ []<><<Next>>_vars`,
which is weak fairness of `Next` because the check for deadlock shows that a
command that has not ended always has a step.

## 4. The proofs

TLAPS proves these for every value of the constants, under the assumptions the
modules name (`OptionsAssumption`, `RunsAssumption`, ...).

| theorem | states | what it establishes |
|---|---|---|
| `TimeoutProofs!TypeCorrect` | `TypeOK` | Every variable of timeout keeps its type, for every set of options, exit codes and external signals. |
| `TimeoutProofs!ForegroundStatusHolds` | `ForegroundStatus` | With --foreground the exit status is the documented one, and the command was reaped, whatever signals arrive. |
| `TimeoutProofs!NoStrayKillHolds` | `NoStrayKill` | No signal is ever sent to the command's pid after the command was reaped. |
| `TimeoutProofs!NoLostChildHolds` | `NoLostChild` | An ended command is always remembered by the flag or by a pending SIGCHLD while timeout is in its loop. |
| `TimeoutProofs!KillIsLast` | `KillIsLastResort` | SIGKILL goes to the command only with -k, on an expiry, and after another signal, unless -s asks for it; whatever signals arrive and when. |
| `XargsPoolProofs!TypeCorrect` | `TypeOK` | The pool's variables keep their types for every number of command lines and slots: in particular curprocs never leaves 0..maxprocs. |
| `XargsPoolProofs!SlotsTrackChildrenHolds` | `SlotsTrackChildren` | childpids and curprocs describe exactly the unreaped children, and run() always finds a free slot, for every -P. |
| `XargsPoolProofs!HonestVerdictHolds` | `HonestVerdict` | Exit status 0 hides no failed or unexecuted command line, for every number of command lines and slots. |
| `XargsPoolProofs!PoolImplementsRunner` | `RunsInParallel` | The pool implements the abstract parallel runner, for every number of command lines and slots. |
| `DdProofs!TypeCorrect` | `TypeOK` | dd's variables keep their types for every legal command line, input and output: in particular no count of bytes left to skip or to write becomes negative. |
| `DdProofs!BuffersNeverOverrun` | `BufferBounds` | No buffer setup() allocates is overrun, for all block and record sizes, conversions and contents, and however reads and writes are cut short. |
| `DdProofs!OutputIsRight` | `OutputRight` | What dd writes is the conversion of what it read: never anything else however reads and writes are cut short, all of it when the copy ends well, count= blocks exactly with fullblock, padded only at the end with osync, behind a bad block at its offset, and with notrunc the rest of the old file kept. |
| `DdProofs!SummaryIsTrue` | `SummaryTrue` | The summary is true for every copy: bytes is what was written; an input block counts as full if and only if all of it was read, but for conv=sync, which pads a short block before it is counted (dd.c:406-418 against dd.1:399); no output block counts as full that was not written whole; every record longer than cbs= counts as truncated, and beyond those at most those of exactly cbs= bytes and an unfinished last one. |
| `DdProofs!NothingWrongWritten` |  | At every moment, and so wherever dd is stopped, what is written is a beginning of the conversion of what was read: block, unblock, maps, swab, sparse files and short writes included. |
| `DdProofs!NothingMissing` |  | A copy that ends well without count=, errors or padding has written the conversion of the whole input after skip=, and a file that ends in a hole has its length. |
| `DdProofs!FinalBlockPadded` |  | conv=osync makes the output whole blocks with padding behind the last byte and nowhere else. |
| `DdProofs!FullblockCountsExactly` |  | With iflag=fullblock, count= blocks are copied exactly, however short the reads are. |
| `MergeHeapProofs!MergeInvariance` |  | The inductive invariant of the merge: the heap is in order but for the source that swims or sinks, and what was printed comes before what is left. |
| `MergeHeapProofs!MergeOrderedHolds` | `MergeOrdered` | Any number of sorted sources of any length are merged into a sorted output, stable, and unique with -u; the merge ends only when no line is left. |
| `MergeHeapProofs!MergeLosesNothing` |  | A merge that has ended has printed every line of every source, but with -u those equal to one it printed. |
| `SortProofs!SortInvariance` |  | The inductive invariant of sort: each temporary file is still to be merged, made by this pass or being written, exactly one of the three, and the signal handler knows it unless it is being registered; inputs are untouched until the output is complete. |
| `SortProofs!SortTyped` | `TypeOK` | The variables keep their types, whatever the inputs, the memory, the number of threads and the limit of open files. |
| `SortProofs!SortMergeOrdered` | `MergeOrdered` | Every merge sort starts, of the parts of threads, of a group of files or of the last files, keeps what MergeHeap promises. |
| `SortProofs!FilesAreAccounted` |  | The first half of FilesSafe: no temporary file stays when sort succeeds, at most one when a signal ends it, and no merge has more files open than max_open_files. Of an err(2), which leaves all of them, nothing is said. |
| `SortProofs!OutputInvariance` |  | The inductive invariant behind SortedOutput: at every step each line of the inputs is, under its number, in exactly one of the list, the buffer, the parts, the temporary files and the merge, all of them sorted, and files and parts stand in the order of their first lines. |
| `SortProofs!SortSorts` | `SortedOutput` | When sort succeeds and no write was lost the output is the sorted input, stable, unique with -u, for every input, memory, number of threads and limit of open files. |
| `SortProofs!FilesAreSafe` | `FilesSafe` | When sort succeeds no temporary file is left, when a signal ends it at most one (an err(2) may leave all of them, and is excepted); no merge opens too many files; and sort -o on an input never loses both the input and the output, but for a signal between unlink() and rename(). |
| `TailFollowProofs!Invariance` |  | The inductive invariant of tail -f: which inode each descriptor, offset and watch belongs to, what of it has been printed, and why nothing that was written before can be lost. |
| `TailFollowProofs!TypeCorrect` | `TypeOK` | The variables of tail and of the file system keep their types for any number of files, lines and writers. |
| `TailFollowProofs!PrintsTheLines` | `LinesRight` | Whatever other processes append, truncate, rename, unlink and create between two system calls: no gap, in order and once, nothing of a rotated file lost, every line under its own header. |
| `TailFollowProofs!NothingOldIsSkipped` | `SkipsOnlyNew` | No step jumps over a line that was there before the last fstat(). |
| `FileProofs!FilesAreKept` | `FilesKept` | On any tree of files, with any operands and options, after every step, failed call and kill: all of mv's operand is at its old place or its new one and nothing else has changed; ln -f has not cost the file its last name; rm has taken nothing that is not under an operand, rmdir nothing but empty directories it was told to, mkdir has changed nothing there was. mv and ln: one operand. |
| `FileProofs!FilesAreDone` | `FilesDone` | A command that ends with 0 has done what it answers for: mv -f's operand has left its old place, ln's link is there, nothing under an operand of rm is left, every part given to rmdir is gone, every operand of mkdir is a directory with the mode asked for. Distinct, Straight and Modest name the three cases where the code ends with 0 all the same. |

**Timeout.** `ForegroundStatus` rests on `ReapInv`: the command is reaped only by
`OnChild` or `WaitAny`, each of which leaves its status in `pstat` or sets
`child_done`, and with `--foreground` nothing else is ever timeout's child.
`NoStrayKill` follows from the same invariant, because the loop is left as soon as
`child_done` is set. `NoLostChild` needs `SwallowInv`: `sig_ign` never is SIGCHLD
unless `-s CHLD` was given, so that no handler swallows the signal.
`KillIsLastResort` is an action property: `LastResortInv` says that `killsig` becomes SIGKILL
only with `-k`, when the command has been signalled.

**XargsPool.** The inductive invariant joins the types with `ReadInv` (the reader
never runs with a full pool), `SlotInv` (`childpids` is an injection onto the
unreaped children and `curprocs` their number), `WaitInv` (what `waitall`, `after`
and `cause_exit` say of each other) and `RecordInv` (every reaped failure left a
trace in `rval` or `cause_exit`). `SlotsTrackChildren` and `HonestVerdict` follow,
and each step of the pool is a step of `ParallelRunner` or stutters.

**Dd.** The bound on the buffers is not inductive: it says nothing of the moment
before bytes are added. The invariant adds what each routine leaves behind:
`ReadInv` (a block is partial only in the loop of fullblock), `InInv` (a conversion
leaves less than a record, or nothing without records) and `OutInv` (`dd_out()`
leaves less than a block, or nothing when forced, and what it is about to write is
in the buffer). It rests on lemmas about the length each operator on buffers
returns; the largest index that `Stripped` looks for exists because the order of the
naturals is well founded (`MinMaxIn`). The command line is any that
`CommandsAssumption` admits, so block sizes are not bounded.

**MergeHeap.** `MergeOrdered` needs to know that the root is the source to print
from. `HeapInv` says that every source may be in front of its children, except at
the index that swims or sinks, whose children respect its parent (`Bridged`): that
is what makes a swap restore the order one level on. `RootFirst` carries it to the
root by the least counterexample, over the well-founded order of the naturals.
`FloorInv` says that nothing left comes before what was printed last; with the
transitivity of the order (`OrderFacts`) it gives the order of the output.
`MergeLosesNothing` says the rest: every line of every source has been printed once, in
the order of its source, when the heap is empty.

**Sort.** `SInv` has five parts: the types, what each place in the program means for the
locals (`Place`), that the temporary files are exactly those still to be merged and the one
being written, each once (`TempInv`), what becomes of the other files (`DiskInv`), and that
a merge in progress is one of `MergeHeap`'s with this job's flags (`MergeInv`).
`FilesAreAccounted` follows. That the lists a merge takes are sorted needs what `StableSort`
and `Dump` compute, and that is an induction over data. It can be proved here after all, for
a set of numbers in place of a predicate: `Induction` shows that a set that holds 0 and
with each number the next holds them all (`SetInduction`), that a function over `0 .. n` that
satisfies a recursion exists (`Recursion`), the same for sequences by their last element
(`SnocInduction`), and what `FlattenSeq` is (`FlattenRecursion`). `StableSort` is proved to
place each line by its rank, the number of lines that come before it.

**Sort, the output.** `SortedOutput` relates the output to the sorted whole input, which no state
shows. The proof knows each line by its number in the whole input; equal lines are thereby
ordered by their numbers, and what is "stable" becomes "ascending". A list, a file, or a
merge's output is in `Form` for a set of numbers when it holds those lines in that order; with -u,
one for each class of equal lines. Files in `Form` for sets that lie one behind the other are
`Tiled`. `Whereabouts` says at each place which numbers are in the list, in the files, in the
parts: reading and spilling keep them tiled (`Reading`), so do the threads (`Threading`)
and every pass (`Between`, `Grouping`), and a merge of tiled parts is in `Form` for their
union: `MergeLosesNothing` tells which line of which source every line of the output was
(`OriginInv`). `Right` is unique (`RightUnique`), so what is left at the end is the sorted
input. `FilesSafe` follows with `DiskInv`. Both are proved where `SortedOutput` makes no
exception: no `fclose()` has failed and the files have not outgrown the memory.

**TailFollow.** `LinesRight` is not inductive: a descriptor that is closed has nothing
left to print only because of where the loops are, whose inode is whose, and what writers
can have left in an inode. The invariant adds these: `ContentRight` (an inode's lines are in order,
and all there if nobody truncated it), `Owned` (an inode belongs to one name for good),
`Started`, `Left` and `Compared` (what each of the two loops has done for which file),
`Positions`, `Sound` and `Ahead` (what is printed of an inode was in it and comes before what is still
to be read), `Headed` (the header last printed is that of the file last printed)
and `Watching`. `SkipsOnlyNew` is an action property and follows from `Positions`.

**What dd writes.** `OutputRight` and `SummaryTrue` follow from six more invariants, each proved
from those before it.

* `CountInv`: `bytes` is the length of what is written, the hole behind it included; a full block has its size;
  without a record conversion what has been read is what is written and what the buffers hold;
  `dd_close()` leaves the buffers empty.
* `KeptInv`: with notrunc, what dd has not gone over is the old file's, byte by byte.
* `InputInv`: without errors and padding, what was handed to the conversion is the input from
  `skip=` on, in its order; with `noerror,sync` each byte is at its offset.
* `WrittenInv`: the file reaches to its position, but for a hole at the end.
* `TruncInv`: of the lines taken so far every one longer than a record is marked, none twice, and
  `st.trunc` is the number of marks; a marked line fills its record, unless it is the last.
* `ConvInv`: a beginning of the input is converted, a whole number of lines or records while the copy goes on;
  the rest is in `inbuf`, and what has been sent and is buffered is the conversion of that beginning.

`ConvInv` is where the routines that see a block at a time meet `Convert`, which sees the whole input.
Its lemmas say what one more byte, one more part of a line and one more line add to `Lines`
(by induction with `SnocInduction`), and one more record to `Unblocked` (by Euclid's
division). `OutputIsPrefix` follows because the conversion of a beginning is a beginning of the
conversion, and `CopyComplete` because at the end the beginning is all of it. For
osync, `Aligned` says that only whole blocks are written before `dd_close()`, so that what it pads
(`Padding`) is the last one.

**Files.** What a path leads to is found name by name, through symbolic links, on a tree that
changes: `LookupAgrees` to `EntryAgrees` show that a name that leads somewhere while files are
missing (`Left`) or new directories have been made (`Grown`) leads to the same place as at the
start, which is why a command that looks each name up again at each call cannot be led astray by its own
removals. `RmState` says that every visit still to be made is inside an operand, `RmdirState`
that the part in hand is one of an operand's, `MkdirState` that what is new is a part, and empty until the
next part is made. `LnState` has two steps in which what was at the
link's place may be gone (`Cleared`) and the link not made yet; by `Aside` that was not the file's own name.
`MvState` has one case per system call of `do_move()` and `fastcopy()`. Before `rename()` nothing
has changed. After it (or `EXDEV`) the operand is `Whole` at its old place or at its new one, each
path below it `Grafted` from one to the other, and what is at neither is as it was (`Spared`): the
new file is filled block by block from an old one still there (`MvFilled`), the copy of a tree is the tree
once more (`MvCopied`; `CopyGrows` is the induction over what `cp` makes), and only then is the old one removed.
`FilesAreKept` follows for every tree that is one (`IsTree`), every list of
operands and all options; `FileJobsAssumption` in `MCCommands` has TLC evaluate those hypotheses on the jobs
of the run. `FilesAreDone` adds what is owed: as long as no failure was noticed each operand is
still to come, in hand, or done. It needs three hypotheses, each of which excepts something the code
does. `Distinct`: `rename()` of one name of a file to another does nothing, and `mv` ends with 0. `Straight`: `rm -f l l/f`, l being a symbolic link to a directory, removes l, takes the ENOENT for l/f as
success, and leaves the file. `Modest`: with `mkdir -p -m M a/b a`, a was made as a part of a/b,
exists when its turn comes, and keeps the mode of the umask. For `mv` and `ln` both theorems
are of one operand (`Single`) and no other process, and `Aside` is needed: `ln -f l a`, l being a link to a, unlinks a first.
Another process beside `rm`, `rmdir` and `mkdir`: `Quiet` in the properties.

Only model-checked: liveness, which is out of the prover's reach, and the
properties in the table of runs that the table of theorems does not name.

## 5. What is not modelled, and the plan

Not modelled for good: formatting and layout (`printf`, `hexdump`, `stat`, `df`, `ls`,
`date`, `who`, `id`), floating point (`seq`, `sleep`), checksums, `stty`'s tables, and the programs
that are one system call. `PROJECT.json` gives the reason per program.

Model-checked and not proved, and why:

* Liveness (`EndsInTime`, `Termination`, `Follows`, `Ends`) needs fairness and ENABLED, which
  the prover does not have.
* `BcDc` computes with RECURSIVE operators (the evaluator of numbers, the compiler, the meaning):
  the prover has no arithmetic in a module that declares one, and exponentiation has nothing
  but its type.
* `LinesRight`, `TextRight`, `PiecesRight`, `Edits`, `Found`, `PagesRight`, `Evaluated` and
  `Collated` compare a whole program with a meaning given separately and recursively, over all
  inputs up to a size.
* `FilesKept` and `FilesDone` for `cp` and `install`, and for `mv` and `ln` with several operands
  or beside another process. With several operands they hold for the jobs of the run and not for every job:
  two operands with the same last name replace each other at the target.

What is left, most important first:

1. The theorems of `FileProofs` for `cp`, and for `ln` and `mv` with several operands of different names.
2. Separate modules without recursion for the parts of the commands that can be proved about:
   the merge of `comm` and `join`, the in-place files of `sed`.
3. `chmod` and `setmode()`: the mode arithmetic; `du`'s table of hard links; `env -S`.

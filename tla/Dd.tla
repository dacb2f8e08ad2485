---------------------------------- MODULE Dd ----------------------------------
(***************************************************************************)
(* dd(1), src/src/dd: copy blocks from an input to an output and convert   *)
(* them on the way.                                                        *)
(*                                                                         *)
(* A step is one system call, or one turn of a conversion loop.  A read()  *)
(* from a pipe returns any part of what was asked for, one from a file as  *)
(* much as there is before the end or a bad sector; a write() may be short *)
(* in any place.  Buffers are sequences of bytes: inbuf is in.db up to     *)
(* in.dbp, outbuf the part of out.db that has not been written.  When the  *)
(* two are one buffer (no record conversion), the bytes def() leaves in it *)
(* are in outbuf.  Character maps are represented by UCASE.                *)
(***************************************************************************)
EXTENDS Integers, Sequences, SequencesExt

CONSTANT Commands    \* the command lines and inputs considered

NUL == "nul"
NL  == "nl"
SP  == "sp"
STALE == "stale"     \* what a buffer held before: never initialised for this use
Bytes == {NUL, NL, SP, STALE, "a", "A", "b", "o"}

\* The names of ddflags, without C_.
Flags == {"BLOCK", "BS", "COUNT", "IF", "IFULLBLOCK", "NOERROR", "NOTRUNC", "OF", "OSYNC",
          "SEEK", "SKIP", "SPARSE", "SWAB", "SYNC", "UCASE", "UNBLOCK"}

\* given: the flags as parsed; cpy_cnt is 0 without count= and -1 for count=0;
\* piped: the input (output) is a pipe; src: the input; bad: the offsets of its
\* unreadable sectors; old: what the output held before.
Command == [given : SUBSET Flags, ibs : Nat \ {0}, obs : Nat \ {0}, cbs : Nat,
            cpy_cnt : Nat \cup {-1}, skip : Nat, seek : Nat,
            inpipe : BOOLEAN, outpipe : BOOLEAN,
            src : Seq(Bytes), bad : SUBSET Nat, old : Seq(Bytes)]

\* jcl(), f_conv(), f_iflag(): the combinations that are refused.
Legal(c) ==
  /\ {"BLOCK", "UNBLOCK"} \cap c.given # {} <=> c.cbs > 0
  /\ ~({"BLOCK", "UNBLOCK"} \subseteq c.given)
  /\ ~({"SYNC", "IFULLBLOCK"} \subseteq c.given)
  /\ ~({"OSYNC", "BS"} \subseteq c.given)
  /\ "BS" \in c.given => c.ibs = c.obs
  /\ c.seek > 0 => "SEEK" \in c.given
  /\ c.skip > 0 => "SKIP" \in c.given
  /\ c.cpy_cnt # 0 <=> "COUNT" \in c.given

ASSUME CommandsAssumption == \A c \in Commands : c \in Command /\ Legal(c)

VARIABLES
  cmd,         \* the command line and its files, which never change
  pc,          \* where dd is
  inpos,       \* read offset of the input
  rbuf,        \* the block being read
  inbuf,       \* in.db: bytes read but not converted
  outbuf,      \* out.db: bytes converted but not written
  n, cnt,      \* locals of dd_out() (and block and byte count of pos_in())
  force, back, \* dd_out()'s argument, and where it returns to
  pending,     \* bytes of a hole not yet seeked over
  seek_offset, \* out.seek_offset
  file, pos,   \* the output's content and offset
  intrunc,     \* static of block()
  st,          \* the statistics
  code,        \* exit status, -1 while dd runs
  fed          \* history: the bytes handed to the conversion

vars == <<cmd, pc, inpos, rbuf, inbuf, outbuf, n, cnt, force, back, pending, seek_offset,
          file, pos, intrunc, st, code, fed>>
reader == <<inpos, rbuf>>
writer == <<n, cnt, force, back, pending, seek_offset>>
output == <<file, pos>>

\* BS is turned off by any conversion.
ddflags ==
  IF {"BLOCK", "SWAB", "UCASE", "UNBLOCK"} \cap cmd.given = {} THEN cmd.given
  ELSE cmd.given \ {"BS"}

Has(f)    == f \in ddflags
Records   == Has("BLOCK") \/ Has("UNBLOCK")
PadByte   == IF Records THEN SP ELSE NUL
NoStats   == [in_full |-> 0, in_part |-> 0, out_full |-> 0, out_part |-> 0,
              trunc |-> 0, swab |-> 0, bytes |-> 0]

Smaller(i, j) == IF i < j THEN i ELSE j
Take(s, k)    == SubSeq(s, 1, k)
Drop(s, k)    == SubSeq(s, k + 1, Len(s))
Fill(b, k)    == [i \in 1 .. k |-> b]
Padded(s, k)  == s \o Fill(PadByte, k - Len(s))
Upper(b)      == IF Has("UCASE") /\ b = "a" THEN "A" ELSE b
Translate(s)  == [i \in DOMAIN s |-> Upper(s[i])]
Stripped(s)   == Take(s, SelectLastInSeq(s, LAMBDA b : b # SP))

\* A file of length k, and bytes written at offset p: the gap reads as NULs.
Truncated(f, k)  == [i \in 1 .. k |-> IF i <= Len(f) THEN f[i] ELSE NUL]
Written(f, p, s) ==
  [i \in 1 .. (IF Len(f) > p + Len(s) THEN Len(f) ELSE p + Len(s)) |->
     IF i \in p + 1 .. p + Len(s) THEN s[i - p]
     ELSE IF i <= Len(f) THEN f[i] ELSE NUL]

Exit(status) == pc' = "exit" /\ code' = status

----------------------------------------------------------------------------
(***************************************************************************)
(* setup(): open the files, position them, truncate the output.            *)
(***************************************************************************)

Init ==
  /\ cmd \in Commands
  /\ pc = "open"
  /\ inpos = 0 /\ rbuf = <<>> /\ inbuf = <<>> /\ outbuf = <<>>
  /\ n = 0 /\ cnt = 0 /\ force = FALSE /\ back = "loop"
  /\ pending = 0 /\ seek_offset = 0
  /\ file = cmd.old /\ pos = 0
  /\ intrunc = FALSE
  /\ st = NoStats
  /\ code = -1
  /\ fed = <<>>

\* Mutant: notrunc is forgotten.
FaultyOpenTruncates == Has("OF") /\ ~Has("SEEK")

OpenTruncates == Has("OF") /\ ~Has("SEEK") /\ ~Has("NOTRUNC")

\* Open the output; on a seekable input pos_in() seeks over the blocks to skip.
Open ==
  /\ pc = "open"
  /\ file' = IF OpenTruncates THEN <<>> ELSE file
  /\ IF cmd.inpipe /\ cmd.skip > 0
     THEN pc' = "skip" /\ n' = cmd.ibs /\ cnt' = cmd.skip /\ UNCHANGED inpos
     ELSE pc' = "seek" /\ inpos' = cmd.skip * cmd.ibs /\ UNCHANGED <<n, cnt>>
  /\ UNCHANGED <<cmd, rbuf, inbuf, outbuf, force, back, pending, seek_offset, pos, intrunc,
                 st, code, fed>>

\* Mutant: the byte count is not set again for the next block.
FaultyLeftToSkip(nr) == n - nr

\* Bytes of the block to skip that are left after a read() of nr.
LeftToSkip(nr) == IF nr = n THEN cmd.ibs ELSE n - nr

\* pos_in() on a pipe: read() until cnt blocks of n bytes have gone by.
SkipRead ==
  /\ pc = "skip"
  /\ \E nr \in 1 .. Smaller(n, Len(cmd.src) - inpos) :
       /\ inpos' = inpos + nr
       /\ n' = LeftToSkip(nr)
       /\ cnt' = IF nr = n THEN cnt - 1 ELSE cnt
       /\ pc' = IF cnt' = 0 THEN "seek" ELSE "skip"
  /\ UNCHANGED <<cmd, rbuf, inbuf, outbuf, force, back, pending, seek_offset, output,
                 intrunc, st, code, fed>>

SkipEnd ==
  /\ pc = "skip"
  /\ inpos = Len(cmd.src)
  /\ Exit(1)
  /\ UNCHANGED <<cmd, reader, inbuf, outbuf, writer, output, intrunc, st, fed>>

\* pos_out(), which a pipe cannot do, and ftruncate() to the offset of seek=.
Seek ==
  /\ pc = "seek"
  /\ IF cmd.outpipe /\ cmd.seek > 0
     THEN Exit(1) /\ UNCHANGED output
     ELSE /\ pc' = "loop"
          /\ pos' = cmd.seek * cmd.obs
          /\ file' = IF Has("OF") /\ Has("SEEK") /\ ~Has("NOTRUNC") /\ ~cmd.outpipe
                     THEN Truncated(file, cmd.seek * cmd.obs) ELSE file
          /\ UNCHANGED code
  /\ UNCHANGED <<cmd, reader, inbuf, outbuf, writer, intrunc, st, fed>>

----------------------------------------------------------------------------
(***************************************************************************)
(* dd_in(): one read(), and what becomes of the block.                     *)
(***************************************************************************)

CountReached ==
  \/ cmd.cpy_cnt = -1
  \/ cmd.cpy_cnt > 0 /\ st.in_full + st.in_part >= cmd.cpy_cnt

Limit ==
  /\ pc = "loop"
  /\ CountReached
  /\ pc' = "close"
  /\ UNCHANGED <<cmd, reader, inbuf, outbuf, writer, output, intrunc, st, code, fed>>

\* A read() is due; it asks for what the block lacks.
Reading == pc = "fill" \/ (pc = "loop" /\ ~CountReached)
Wanted  == cmd.ibs - Len(rbuf)
AtEnd   == inpos >= Len(cmd.src)
BadHere == inpos \in cmd.bad

\* Bytes there are before the end of the input, or before a bad sector.
Good == {k \in 1 .. Wanted : \A i \in inpos .. inpos + k - 1 : i < Len(cmd.src) /\ i \notin cmd.bad}

\* What read() returns: any part from a pipe, as much as there is from a file.
Returned(k) == k \in Good /\ (cmd.inpipe \/ \A j \in Good : j <= k)

Swapped(r) ==
  [i \in DOMAIN r |-> IF i % 2 = 1 THEN (IF i < Len(r) THEN r[i + 1] ELSE r[i]) ELSE r[i - 1]]

\* The block r is complete: count it, swap its bytes, hand it to the conversion.
Accept(r) ==
  LET r2 == IF Has("SWAB") THEN Swapped(r) ELSE r IN
  /\ inbuf' = inbuf \o (IF Has("BLOCK") THEN r2 ELSE Translate(r2))
  /\ fed' = fed \o r2
  /\ st' = [st EXCEPT !.in_full = IF Len(r) = cmd.ibs THEN @ + 1 ELSE @,
                      !.in_part = IF Len(r) = cmd.ibs THEN @ ELSE @ + 1,
                      !.swab = IF Has("SWAB") /\ Len(r) % 2 = 1 THEN @ + 1 ELSE @]
  /\ rbuf' = <<>>
  /\ pc' = "conv"

\* Mutant: a block is taken as it is, fullblock or not.
FaultyGoOn(r) == FALSE

\* fullblock: what there is of the block does not count yet.
GoOn(r) == Has("IFULLBLOCK") /\ Len(r) < cmd.ibs

\* read() returns k bytes.
ReadData(k) ==
  /\ Reading
  /\ Returned(k)
  /\ inpos' = inpos + k
  /\ LET r == rbuf \o SubSeq(cmd.src, inpos + 1, inpos + k) IN
       IF Has("SYNC") THEN Accept(Padded(r, cmd.ibs))
       ELSE IF GoOn(r)
       THEN rbuf' = r /\ pc' = "fill" /\ UNCHANGED <<inbuf, st, fed>>
       ELSE Accept(r)
  /\ UNCHANGED <<cmd, outbuf, writer, output, intrunc, code>>

\* read() returns 0: the end, or the last block of fullblock.
ReadEnd ==
  /\ Reading
  /\ AtEnd
  /\ IF rbuf = <<>> THEN pc' = "close" /\ UNCHANGED <<reader, inbuf, st, fed>>
     ELSE Accept(rbuf) /\ UNCHANGED inpos
  /\ UNCHANGED <<cmd, outbuf, writer, output, intrunc, code>>

\* Mutant: the read offset moves the wrong way.
BackwardPastError == inpos - cmd.ibs

\* lseek() past the error, where the input can seek.
PastError == IF cmd.inpipe THEN inpos ELSE inpos + cmd.ibs

\* read() fails.  With noerror, lseek() past the block; without sync it is left
\* out, together with what fullblock had gathered of it.
ReadError ==
  /\ Reading
  /\ ~AtEnd /\ BadHere
  /\ IF ~Has("NOERROR") THEN Exit(1) /\ UNCHANGED <<reader, inbuf, st, fed>>
     ELSE /\ inpos' = PastError
          /\ UNCHANGED code
          /\ IF Has("SYNC") THEN Accept(Fill(PadByte, cmd.ibs))
             ELSE rbuf' = <<>> /\ pc' = "loop" /\ UNCHANGED <<inbuf, st, fed>>
  /\ UNCHANGED <<cmd, outbuf, writer, output, intrunc>>

----------------------------------------------------------------------------
(***************************************************************************)
(* The conversions.  dd_out(f) is entered with StartOut(f, k), and then    *)
(* dd goes on at k.                                                        *)
(***************************************************************************)

StartOut(f, k) ==
  /\ pc' = "out"
  /\ force' = f
  /\ back' = k
  /\ n' = IF f THEN Len(outbuf') ELSE cmd.obs
  /\ cnt' = n'
  /\ UNCHANGED <<pending, seek_offset>>

\* Mutant: off by one.
FaultyDue(buf) == Len(buf) > cmd.obs

\* There is a whole block to write.
Due(buf) == Len(buf) >= cmd.obs

\* Convert one piece of the input buffer, then write whole blocks, or go on at k.
Emit(s, rest, k) ==
  /\ outbuf' = outbuf \o s
  /\ inbuf' = rest
  /\ IF Due(outbuf') THEN StartOut(FALSE, k) ELSE pc' = k /\ UNCHANGED writer

\* bs= without another conversion, and without any operand that sets a flag, be
\* it if= or of=: the block goes out as it was read.
Unbuffered == ddflags \ {"NOERROR", "NOTRUNC", "SYNC"} = {"BS"}

ConvertNone ==
  /\ pc = "conv"
  /\ Unbuffered
  /\ outbuf' = inbuf
  /\ inbuf' = <<>>
  /\ StartOut(TRUE, "loop")
  /\ UNCHANGED <<cmd, reader, output, intrunc, st, code, fed>>

\* def()
Def ==
  /\ pc = "conv"
  /\ ~Unbuffered /\ ~Records
  /\ Emit(inbuf, <<>>, "loop")
  /\ UNCHANGED <<cmd, reader, output, intrunc, st, code, fed>>

\* Index of the first newline of s, Len(s) + 1 if there is none.
NewlineIn(s) == IF Contains(s, NL) THEN SelectInSeq(s, LAMBDA b : b = NL) ELSE Len(s) + 1

\* block(), its first loop: toss the rest of a record that was too long.
BlockToss ==
  /\ pc = "conv"
  /\ Has("BLOCK") /\ intrunc
  /\ inbuf' = Drop(inbuf, NewlineIn(inbuf))
  /\ IF Contains(inbuf, NL) THEN intrunc' = FALSE /\ UNCHANGED pc
     ELSE pc' = "loop" /\ UNCHANGED intrunc
  /\ UNCHANGED <<cmd, reader, outbuf, writer, output, st, code, fed>>

\* block(): what is left is no whole record; it stays in the buffer.
BlockShort ==
  /\ pc = "conv"
  /\ Has("BLOCK") /\ ~intrunc
  /\ Len(inbuf) < cmd.cbs /\ ~Contains(inbuf, NL)
  /\ pc' = "loop"
  /\ UNCHANGED <<cmd, reader, inbuf, outbuf, writer, output, intrunc, st, code, fed>>

\* block(): one record of the input, padded or cut to cbs bytes.  A record of
\* cbs bytes is followed up to its newline, into the next input block if need be.
BlockRecord ==
  LET len  == Smaller(NewlineIn(inbuf) - 1, cmd.cbs)
      full == len = cmd.cbs
  IN
  /\ pc = "conv"
  /\ Has("BLOCK") /\ ~intrunc
  /\ Len(inbuf) >= cmd.cbs \/ Contains(inbuf, NL)
  /\ Emit(Translate(Padded(Take(inbuf, len), cmd.cbs)), Drop(inbuf, NewlineIn(inbuf)), "conv")
  /\ intrunc' = (full /\ ~Contains(inbuf, NL))
  /\ st' = [st EXCEPT !.trunc = IF full /\ (intrunc' \/ NewlineIn(inbuf) > len + 1) THEN @ + 1 ELSE @]
  /\ UNCHANGED <<cmd, reader, output, code, fed>>

\* unblock(): one record of cbs bytes.
UnblockRecord ==
  /\ pc = "conv"
  /\ Has("UNBLOCK") /\ Len(inbuf) >= cmd.cbs
  /\ Emit(Append(Stripped(Take(inbuf, cmd.cbs)), NL), Drop(inbuf, cmd.cbs), "conv")
  /\ UNCHANGED <<cmd, reader, output, intrunc, st, code, fed>>

UnblockShort ==
  /\ pc = "conv"
  /\ Has("UNBLOCK") /\ Len(inbuf) < cmd.cbs
  /\ pc' = "loop"
  /\ UNCHANGED <<cmd, reader, inbuf, outbuf, writer, output, intrunc, st, code, fed>>

----------------------------------------------------------------------------
(***************************************************************************)
(* dd_out(): one turn of its inner loop.                                   *)
(***************************************************************************)

\* Mutant: a short write is counted as a whole one.
FaultyCounted(nw) == [st EXCEPT !.bytes = @ + n, !.out_full = @ + 1]

\* nw bytes of a block of n are done.
Counted(nw) ==
  LET full == nw = n /\ n = cmd.obs
  IN  [st EXCEPT !.bytes = @ + nw,
                 !.out_full = IF full THEN @ + 1 ELSE @,
                 !.out_part = IF full THEN @ ELSE @ + 1]

\* nw bytes are done: count them, and end the block, or the call.
Advance(nw, seeked) ==
  /\ outbuf' = Drop(outbuf, nw)
  /\ st' = Counted(nw)
  /\ seek_offset' = seeked
  /\ IF nw < cnt THEN cnt' = cnt - nw /\ UNCHANGED <<n, pc>>
     ELSE /\ n' = cmd.obs /\ cnt' = cmd.obs
          /\ pc' = IF Due(outbuf') THEN "out" ELSE back
  /\ UNCHANGED <<cmd, reader, inbuf, force, back, intrunc, code, fed>>

Sparse == Has("SPARSE") /\ cnt > 0 /\ \A i \in 1 .. cnt : outbuf[i] = NUL

WriteHole ==
  /\ pc = "out"
  /\ Sparse /\ ~force
  /\ pending' = pending + cnt
  /\ Advance(cnt, seek_offset)
  /\ UNCHANGED output

\* Mutant: the hole is forgotten, so that later data lands too early.
FaultyWriteOffset == pos

\* Where the next write() goes: behind the hole.
WriteOffset == pos + pending

\* lseek() over the hole before it, and write() nw bytes.
WriteData(nw) ==
  /\ pc = "out"
  /\ ~(Sparse /\ ~force)
  /\ pending > 0 => ~cmd.outpipe
  /\ nw \in 1 .. cnt
  /\ file' = Written(file, WriteOffset, Take(outbuf, nw))
  /\ pos' = WriteOffset + nw
  /\ pending' = 0
  /\ Advance(nw, 0)

\* The copy ends with a hole: lseek() over it, there is nothing to write.
WriteNothing ==
  /\ pc = "out"
  /\ cnt = 0 /\ ~cmd.outpipe
  /\ pos' = WriteOffset
  /\ seek_offset' = pos'
  /\ pending' = 0
  /\ pc' = back
  /\ UNCHANGED <<cmd, reader, inbuf, outbuf, n, cnt, force, back, file, intrunc, st, code, fed>>

\* lseek() over a hole fails on a pipe; any write() may fail.
WriteFails ==
  /\ pc = "out"
  /\ ~(Sparse /\ ~force)
  /\ \/ pending > 0 /\ cmd.outpipe /\ Exit(2)
     \/ cnt > 0 /\ (pending > 0 => ~cmd.outpipe) /\ Exit(1)
  /\ UNCHANGED <<cmd, reader, inbuf, outbuf, writer, output, intrunc, st, fed>>

----------------------------------------------------------------------------
(***************************************************************************)
(* dd_close()                                                              *)
(***************************************************************************)

\* block_close() and unblock_close(): the record the input ends in.  A map of
\* characters is not applied to it by block_close().
LastRecord ==
  IF inbuf = <<>> THEN <<>>
  ELSE IF Has("BLOCK") THEN inbuf \o Fill(Upper(SP), cmd.cbs - Len(inbuf))
  ELSE Append(Stripped(inbuf), NL)

\* Mutant: an empty buffer is padded to a block.
FaultyNothingToPad(buf) == ~Has("OSYNC") \/ Len(buf) >= cmd.obs

NothingToPad(buf) == ~Has("OSYNC") \/ buf = <<>> \/ Len(buf) >= cmd.obs

\* conv=osync: memset() from out.dbp to the end of the block.  block_close() has
\* not moved out.dbp, which is still where the last record starts.
PadOutput(buf) ==
  LET dbp == IF Has("BLOCK") THEN Len(outbuf) ELSE Len(buf)
      pad == dbp + 1 .. dbp + cmd.obs - Len(buf)
  IN  IF NothingToPad(buf) THEN buf
      ELSE [i \in 1 .. cmd.obs |-> IF i \in pad THEN PadByte
                                   ELSE IF i <= Len(buf) THEN buf[i] ELSE STALE]

Close ==
  /\ pc = "close"
  /\ outbuf' = PadOutput(outbuf \o LastRecord)
  /\ inbuf' = <<>>
  /\ st' = [st EXCEPT !.trunc = IF Has("BLOCK") /\ inbuf # <<>> THEN @ + 1 ELSE @]
  /\ IF outbuf' # <<>> \/ pending > 0 THEN StartOut(TRUE, "end") ELSE pc' = "end" /\ UNCHANGED writer
  /\ UNCHANGED <<cmd, reader, output, intrunc, code, fed>>

\* Mutant: the file is not extended over a hole at its end.
FaultyEndsInHole == FALSE

EndsInHole == seek_offset > 0 /\ ~cmd.outpipe

\* ftruncate() if the last thing was a hole, and exit.
End ==
  /\ pc = "end"
  /\ file' = IF EndsInHole THEN Truncated(file, seek_offset) ELSE file
  /\ Exit(0)
  /\ UNCHANGED <<cmd, reader, inbuf, outbuf, writer, pos, intrunc, st, fed>>

Terminating == pc = "exit" /\ UNCHANGED vars

Copy ==
  \/ Open \/ SkipRead \/ SkipEnd \/ Seek
  \/ Limit \/ (\E k \in 1 .. cmd.ibs : ReadData(k)) \/ ReadEnd \/ ReadError
  \/ ConvertNone \/ Def \/ BlockToss \/ BlockShort \/ BlockRecord \/ UnblockRecord \/ UnblockShort
  \/ WriteHole \/ (\E nw \in 1 .. cnt : WriteData(nw)) \/ WriteNothing \/ WriteFails
  \/ Close \/ End

Next == Copy \/ Terminating

Spec     == Init /\ [][Next]_vars
FairSpec == Spec /\ WF_vars(Copy)

----------------------------------------------------------------------------
(***************************************************************************)
(* What the output should be: the conversions as dd.1 describes them, as   *)
(* functions of the whole input.                                           *)
(***************************************************************************)

\* The lines of s; the last one may lack its newline.  Upto[k]: of its first k bytes.
Lines(s) ==
  LET Upto[k \in 0 .. Len(s)] ==
        IF k = 0 THEN <<>>
        ELSE LET new   == k = 1 \/ s[k - 1] = NL
                 piece == IF s[k] = NL THEN <<>> ELSE <<s[k]>>
             IN  IF new THEN Append(Upto[k - 1], piece)
                 ELSE ReplaceAt(Upto[k - 1], Len(Upto[k - 1]), Last(Upto[k - 1]) \o piece)
  IN  Upto[Len(s)]

Blocked(s) ==
  LET lines == Lines(s)
  IN  FlattenSeq([k \in DOMAIN lines |-> Take(Padded(lines[k], cmd.cbs), cmd.cbs)])

Unblocked(s) ==
  FlattenSeq([k \in 1 .. (Len(s) + cmd.cbs - 1) \div cmd.cbs |->
    Append(Stripped(SubSeq(s, (k - 1) * cmd.cbs + 1, Smaller(k * cmd.cbs, Len(s)))), NL)])

Convert(s) ==
  IF Has("BLOCK") THEN Translate(Blocked(s))
  ELSE IF Has("UNBLOCK") THEN Unblocked(Translate(s))
  ELSE Translate(s)

\* What has been written at and after the offset of seek=, holes included.
Base == IF cmd.outpipe THEN 0 ELSE cmd.seek * cmd.obs
Delivered ==
  [i \in 1 .. (pos - Base) + pending |->
     IF Base + i <= Len(file) /\ i <= pos - Base THEN file[Base + i] ELSE NUL]

Copying   == pc \notin {"open", "skip", "seek"}
Succeeded == pc = "exit" /\ code = 0

\* A hole shows what was there before, if the output is not truncated.
HolesAreNUL == Has("SPARSE") => Has("OF") /\ ~Has("NOTRUNC")

\* The input ends in a record without a newline that is still in the buffer.
UnfinishedRecord ==
  /\ Has("BLOCK") /\ fed # <<>> /\ fed[Len(fed)] # NL
  /\ LET l == Lines(fed) IN Len(l[Len(l)]) < cmd.cbs

----------------------------------------------------------------------------
(***************************************************************************)
(* Properties.                                                             *)
(***************************************************************************)

\* Every variable keeps the type its C declaration or the kernel gives it.
TypeOK ==
  /\ cmd \in Command /\ Legal(cmd)
  /\ pc \in {"open", "skip", "seek", "loop", "fill", "conv", "out", "close", "end", "exit"}
  /\ inpos \in Nat
  /\ rbuf \in Seq(Bytes) /\ inbuf \in Seq(Bytes) /\ outbuf \in Seq(Bytes)
  /\ n \in Nat /\ cnt \in Nat
  /\ force \in BOOLEAN /\ back \in {"loop", "conv", "end"}
  /\ pending \in Nat /\ seek_offset \in Nat
  /\ file \in Seq(Bytes) /\ pos \in Nat
  /\ intrunc \in BOOLEAN
  /\ st \in [DOMAIN NoStats -> Nat]
  /\ code \in {-1, 0, 1, 2}
  /\ fed \in Seq(Bytes)

\* No buffer is overrun: setup() allocates obs + ibs - 1 bytes for the one
\* buffer, MAX(ibs, cbs) + cbs and obs + cbs for the two of the record
\* conversions; a block is read behind what inbuf holds already.
BufferBounds ==
  IF Records
  THEN /\ Len(inbuf) <= (IF cmd.ibs > cmd.cbs THEN cmd.ibs ELSE cmd.cbs) + cmd.cbs
       /\ pc \in {"loop", "fill"} => Len(inbuf) < cmd.cbs
       /\ Len(outbuf) <= cmd.obs + cmd.cbs
  ELSE Len(outbuf) + Len(inbuf) <= cmd.obs + cmd.ibs - 1

\* At every moment what is written is the beginning of the converted input,
\* wherever reads and writes were cut short: dd may be stopped at any time and
\* has written nothing wrong (dd_in(), the conversions, dd_out()).
OutputIsPrefix ==
  Copying /\ HolesAreNUL /\ ~Has("OSYNC") /\ ~UnfinishedRecord
    => IsPrefix(Delivered, Convert(fed))

\* A copy that ends well without count=, sync, swab or errors has converted the
\* whole input after skip=, sparse or not, and written all of it.  A record of
\* block without newline at the end is left aside when a map is in use.
CopyComplete ==
  (/\ Succeeded /\ HolesAreNUL /\ cmd.cpy_cnt = 0 /\ cmd.bad = {}
   /\ ~Has("SYNC") /\ ~Has("SWAB") /\ ~Has("OSYNC") /\ ~(UnfinishedRecord /\ Has("UCASE")))
    => /\ Delivered = Convert(Drop(cmd.src, cmd.skip * cmd.ibs))
       /\ cmd.outpipe \/ Delivered = <<>> \/ Len(file) >= Base + Len(Delivered)

\* iflag=fullblock makes count= exact however short the reads are.
FullblockExact ==
  Succeeded /\ Has("IFULLBLOCK") /\ cmd.bad = {} /\ cmd.cpy_cnt > 0
    => Len(fed) = Smaller(cmd.cpy_cnt * cmd.ibs, Len(Drop(cmd.src, cmd.skip * cmd.ibs)))

\* The summary tells the truth: bytes is what was written, count= is never exceeded, a block
\* counts as full if and only if all of it was read, and as partial if less was, but not nothing
\* (summary(), st). Except with conv=sync, which gives a block its full length before it is counted:
\* there every short block, and every unreadable one, counts as full, against dd.1:399.
StatisticsHonest ==
  /\ Copying => st.bytes = Len(Delivered)
  /\ st.out_full * cmd.obs <= st.bytes
  /\ Has("COUNT") => st.in_full + st.in_part <= (IF cmd.cpy_cnt = -1 THEN 0 ELSE cmd.cpy_cnt)
  /\ ~Has("SYNC") => /\ st.in_full * cmd.ibs + st.in_part <= Len(fed)
                     /\ Len(fed) <= st.in_full * cmd.ibs + st.in_part * (cmd.ibs - 1)
  /\ Succeeded /\ ~Has("BLOCK") /\ ~Has("UNBLOCK") /\ ~Has("OSYNC") => st.bytes = Len(fed)

\* A record counts as truncated if it is longer than cbs=. A record of exactly cbs= bytes may
\* count too, when its newline comes with another read(), and what is left at the end counts
\* (block(), block_close()).
TruncationsCounted ==
  Succeeded /\ Has("BLOCK") =>
    LET records == Lines(fed)
        Of(P(_)) == Cardinality({k \in DOMAIN records : P(Len(records[k]))})
        longer == Of(LAMBDA l : l > cmd.cbs)
        doubtful == Of(LAMBDA l : l = cmd.cbs) + (IF UnfinishedRecord THEN 1 ELSE 0)
    IN  st.trunc \in longer .. longer + doubtful

\* What the summary says is true, but for the truncated records that may be too many.
SummaryTrue == StatisticsHonest /\ TruncationsCounted

\* What cannot be read are whole blocks of ibs= bytes: a bad sector is no smaller.
BadBlocks ==
  \A o \in 0 .. Len(cmd.src) - 1 :
    (\E b \in cmd.bad : b \div cmd.ibs = o \div cmd.ibs) => o \in cmd.bad

\* conv=noerror,sync on a disk with bad blocks: every byte that can be read
\* lands at its own offset, and a bad block is replaced by padding.  With an ibs=
\* larger than the sectors the block before a bad sector is padded as well, and
\* what follows it is not where it was.
RecoveryAligned ==
  {"SYNC", "NOERROR"} \subseteq ddflags /\ ~cmd.inpipe /\ ~Has("SWAB") /\ BadBlocks
    => \A i \in DOMAIN fed :
         LET o == cmd.skip * cmd.ibs + i - 1
         IN  fed[i] = IF o < Len(cmd.src) /\ o \notin cmd.bad THEN cmd.src[o + 1] ELSE PadByte

\* conv=notrunc, as dd.1 says of it: "This will preserve any blocks in the
\* output file not explicitly written by dd".
NotruncKeepsOld ==
  Has("NOTRUNC") =>
    /\ Len(file) >= Len(cmd.old)
    /\ \A i \in DOMAIN cmd.old : i \notin Base + 1 .. Base + Len(Delivered) => file[i] = cmd.old[i]

\* The same without conv=sparse.
NotruncKeepsOldDense == ~Has("SPARSE") => NotruncKeepsOld

\* What dd.1 promises: the conversion of the input and, with osync, "Pad the
\* final output block to the full output block size".
Expected ==
  LET s == Convert(fed)
  IN  IF Has("OSYNC") THEN s \o Fill(PadByte, (cmd.obs - (Len(s) % cmd.obs)) % cmd.obs) ELSE s

\* conv=osync pads the final block, and only it, without a record conversion.
OsyncPads == Succeeded /\ Has("OSYNC") /\ ~Records /\ HolesAreNUL => Delivered = Expected

\* The bytes that come out are those that went in, converted, in their place: never others
\* however reads and writes are cut short, all of them when the copy ends well, exactly
\* count= of them with fullblock, with the padding of osync only at the end, behind a bad block
\* at their own offset, and without a byte of the old file outside them lost.
OutputRight == OutputIsPrefix /\ CopyComplete /\ FullblockExact /\ OsyncPads /\ RecoveryAligned /\ NotruncKeepsOldDense

\* conv=block, as dd.1 describes it, osync and character maps included, also for
\* a record that ends with the input: "newline or end-of-file terminated".
BlockAsDocumented == Succeeded /\ Has("BLOCK") => Delivered = Expected

\* dd comes to an end, also past bad sectors.
Termination == <>(pc = "exit")
==============================================================================

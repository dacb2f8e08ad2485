-------------------------------- MODULE DdProofs --------------------------------
(***************************************************************************)
(* Proofs about Dd for every legal command line, input and output, and for *)
(* every way reads and writes are cut short: the types; that no buffer     *)
(* that setup() allocates is overrun; that the summary is true; and that   *)
(* what is written is the conversion of what was read, at every moment and *)
(* in the end.                                                             *)
(***************************************************************************)
EXTENDS Dd, WellFoundedInduction, Induction, SequenceTheorems, FiniteSetTheorems, TLAPS

\* What the command line promises to the rest of dd.
LEMMA CommandFacts ==
  ASSUME cmd \in Command, Legal(cmd)
  PROVE  /\ cmd.ibs \in Nat \ {0} /\ cmd.obs \in Nat \ {0} /\ cmd.cbs \in Nat
         /\ cmd.skip \in Nat /\ cmd.seek \in Nat /\ cmd.cpy_cnt \in Nat \cup {-1}
         /\ cmd.src \in Seq(Bytes) /\ cmd.old \in Seq(Bytes)
         /\ cmd.skip * cmd.ibs \in Nat /\ cmd.seek * cmd.obs \in Nat
         /\ Records <=> cmd.cbs > 0
         /\ ~(Has("BLOCK") /\ Has("UNBLOCK"))
         /\ Unbuffered => ~Records /\ cmd.ibs = cmd.obs
         /\ PadByte \in Bytes
<1>1. /\ cmd.ibs \in Nat \ {0} /\ cmd.obs \in Nat \ {0} /\ cmd.cbs \in Nat
      /\ cmd.skip \in Nat /\ cmd.seek \in Nat /\ cmd.cpy_cnt \in Nat \cup {-1}
      /\ cmd.src \in Seq(Bytes) /\ cmd.old \in Seq(Bytes)
      /\ cmd.given \in SUBSET Flags
  BY DEF Command
<1>2. cmd.skip * cmd.ibs \in Nat /\ cmd.seek * cmd.obs \in Nat
  BY <1>1
<1>3. /\ Has("BLOCK") <=> "BLOCK" \in cmd.given
      /\ Has("UNBLOCK") <=> "UNBLOCK" \in cmd.given
  BY DEF Has, ddflags
<1>4. (Records <=> cmd.cbs > 0) /\ ~(Has("BLOCK") /\ Has("UNBLOCK"))
  BY <1>3 DEF Legal, Records
<1>5. Unbuffered => ~Records /\ cmd.ibs = cmd.obs
  <2> SUFFICES ASSUME Unbuffered PROVE ~Records /\ cmd.ibs = cmd.obs
    OBVIOUS
  <2>1. Has("BS") /\ ~Has("BLOCK") /\ ~Has("UNBLOCK")
    BY DEF Unbuffered, Has
  <2>2. "BS" \in cmd.given
    BY <2>1 DEF Has, ddflags
  <2> QED BY <2>1, <2>2 DEF Legal, Records
<1>6. PadByte \in Bytes
  BY DEF PadByte, Bytes, SP, NUL
<1> QED BY <1>1, <1>2, <1>4, <1>5, <1>6

----------------------------------------------------------------------------
(***************************************************************************)
(* What the operators on buffers return, and how long it is.               *)
(***************************************************************************)

LEMMA TakeDrop ==
  ASSUME NEW s \in Seq(Bytes), NEW k \in Nat
  PROVE  /\ k <= Len(s) => Take(s, k) \in Seq(Bytes) /\ Len(Take(s, k)) = k
         /\ Drop(s, k) \in Seq(Bytes)
         /\ Len(Drop(s, k)) = (IF k <= Len(s) THEN Len(s) - k ELSE 0)
<1>1. k <= Len(s) => Take(s, k) \in Seq(Bytes) /\ Len(Take(s, k)) = k
  BY DEF Take
<1>2. /\ Drop(s, k) \in Seq(Bytes)
      /\ Len(Drop(s, k)) = (IF k <= Len(s) THEN Len(s) - k ELSE 0)
  BY DEF Drop
<1> QED BY <1>1, <1>2

LEMMA FillLen ==
  ASSUME NEW b \in Bytes, NEW k \in Int
  PROVE  Fill(b, k) \in Seq(Bytes) /\ Len(Fill(b, k)) = (IF k > 0 THEN k ELSE 0)
<1>1. CASE k > 0
  BY <1>1 DEF Fill
<1>2. CASE k <= 0
  <2>1. 1 .. k = 1 .. 0
    BY <1>2
  <2>2. Fill(b, k) = [i \in 1 .. 0 |-> b]
    BY <2>1 DEF Fill
  <2> QED BY <1>2, <2>2
<1> QED BY <1>1, <1>2

LEMMA PaddedLen ==
  ASSUME cmd \in Command, Legal(cmd), NEW s \in Seq(Bytes), NEW k \in Nat
  PROVE  /\ Padded(s, k) \in Seq(Bytes)
         /\ Len(Padded(s, k)) = (IF k > Len(s) THEN k ELSE Len(s))
<1>1. /\ Fill(PadByte, k - Len(s)) \in Seq(Bytes)
      /\ Len(Fill(PadByte, k - Len(s))) = (IF k - Len(s) > 0 THEN k - Len(s) ELSE 0)
  <2>1. PadByte \in Bytes /\ k - Len(s) \in Int
    BY CommandFacts
  <2> QED BY <2>1, FillLen
<1> QED BY <1>1 DEF Padded

LEMMA TranslateLen ==
  ASSUME NEW s \in Seq(Bytes)
  PROVE  Translate(s) \in Seq(Bytes) /\ Len(Translate(s)) = Len(s)
<1>1. \A b \in Bytes : Upper(b) \in Bytes
  BY DEF Upper, Bytes
<1>2. DOMAIN s = 1 .. Len(s) /\ \A i \in 1 .. Len(s) : s[i] \in Bytes
  OBVIOUS
<1>3. Translate(s) \in [1 .. Len(s) -> Bytes]
  BY <1>1, <1>2 DEF Translate
<1> QED BY <1>3

LEMMA SwappedLen ==
  ASSUME NEW s \in Seq(Bytes)
  PROVE  Swapped(s) \in Seq(Bytes) /\ Len(Swapped(s)) = Len(s)
<1>1. DOMAIN s = 1 .. Len(s) /\ \A i \in 1 .. Len(s) : s[i] \in Bytes
  OBVIOUS
<1>2. ASSUME NEW i \in 1 .. Len(s)
      PROVE  (IF i % 2 = 1 THEN (IF i < Len(s) THEN s[i + 1] ELSE s[i]) ELSE s[i - 1]) \in Bytes
  <2>1. CASE i % 2 = 1
    BY <1>1, <2>1
  <2>2. CASE i % 2 # 1
    <3>1. i # 1
      BY <2>2
    <3> QED BY <1>1, <2>2, <3>1
  <2> QED BY <2>1, <2>2
<1>3. Swapped(s) \in [1 .. Len(s) -> Bytes]
  BY <1>1, <1>2 DEF Swapped
<1> QED BY <1>3

\* A set of numbers up to b that is not empty has a largest and a least member.
LEMMA MinMaxIn ==
  ASSUME NEW b \in Nat, NEW I \in SUBSET (1 .. b), I # {}
  PROVE  Max(I) \in I /\ Min(I) \in I
<1>1. \A T \in SUBSET Nat : T # {} => \E x \in T : \A y \in T : x <= y
  <2> SUFFICES ASSUME NEW T \in SUBSET Nat, T # {}
               PROVE  \E x \in T : \A y \in T : x <= y
    OBVIOUS
  <2>1. PICK x \in T : \A y \in T : ~(<<y, x>> \in OpToRel(<, Nat))
    BY WFMin, NatLessThanWellFounded, Zenon
  <2>2. \A y \in T : ~(y < x)
    BY <2>1 DEF OpToRel
  <2> QED BY <2>2
<1>2. \E x \in I : \A y \in I : x =< y
  BY <1>1
<1>3. \E x \in I : \A y \in I : x >= y
  <2> DEFINE T == {b - i : i \in I}
  <2>1. T \in SUBSET Nat /\ T # {}
    <3>1. \A i \in I : b - i \in Nat
      OBVIOUS
    <3> QED BY <3>1
  <2>2. PICK t \in T : \A y \in T : t <= y
    BY <1>1, <2>1
  <2>3. PICK x \in I : t = b - x
    OBVIOUS
  <2>4. ASSUME NEW y \in I PROVE x >= y
    <3>1. b - x <= b - y
      BY <2>2, <2>3
    <3> QED BY <3>1
  <2> QED BY <2>4
<1> QED BY <1>2, <1>3 DEF Max, Min

LEMMA StrippedLen ==
  ASSUME NEW s \in Seq(Bytes)
  PROVE  Stripped(s) \in Seq(Bytes) /\ Len(Stripped(s)) <= Len(s)
<1> DEFINE I == {i \in 1 .. Len(s) : s[i] # SP}
           k == SelectLastInSeq(s, LAMBDA b : b # SP)
<1>1. k = IF I # {} THEN Max(I) ELSE 0
  BY DEF SelectLastInSeq
<1>2. I # {} => Max(I) \in I
  <2>1. Len(s) \in Nat /\ I \in SUBSET (1 .. Len(s))
    OBVIOUS
  <2> QED BY <2>1, MinMaxIn
<1>3. k \in 0 .. Len(s)
  BY <1>1, <1>2
<1> QED BY <1>3, TakeDrop DEF Stripped

LEMMA NewlineRange ==
  ASSUME NEW s \in Seq(Bytes)
  PROVE  /\ NewlineIn(s) \in 1 .. Len(s) + 1
         /\ Contains(s, NL) => NewlineIn(s) <= Len(s)
<1> DEFINE I == {i \in 1 .. Len(s) : s[i] = NL}
<1>1. CASE Contains(s, NL)
  <2>1. I # {}
    BY <1>1 DEF Contains
  <2>2. NewlineIn(s) = Min(I)
    BY <1>1, <2>1 DEF NewlineIn, SelectInSeq
  <2>3. Min(I) \in I
    <3>1. Len(s) \in Nat /\ I \in SUBSET (1 .. Len(s))
      OBVIOUS
    <3> QED BY <2>1, <3>1, MinMaxIn
  <2> QED BY <2>2, <2>3
<1>2. CASE ~Contains(s, NL)
  BY <1>2 DEF NewlineIn
<1> QED BY <1>1, <1>2

\* The record the input ends in fits behind what is left in the output buffer.
LEMMA LastRecordLen ==
  ASSUME cmd \in Command, Legal(cmd), inbuf \in Seq(Bytes),
         Records => Len(inbuf) < cmd.cbs, ~Records => inbuf = <<>>
  PROVE  LastRecord \in Seq(Bytes) /\ Len(LastRecord) <= cmd.cbs
<1>0. cmd.cbs \in Nat /\ (Records <=> cmd.cbs > 0)
  BY CommandFacts
<1>1. CASE inbuf = <<>>
  BY <1>0, <1>1 DEF LastRecord
<1>2. CASE inbuf # <<>> /\ Has("BLOCK")
  <2> DEFINE f == Fill(Upper(SP), cmd.cbs - Len(inbuf))
  <2>1. Upper(SP) \in Bytes /\ cmd.cbs - Len(inbuf) \in Int
    BY <1>0 DEF Upper, Bytes
  <2>2. Len(inbuf) < cmd.cbs
    BY <1>2
  <2>3. f \in Seq(Bytes) /\ Len(f) = cmd.cbs - Len(inbuf)
    <3>1. f \in Seq(Bytes) /\ Len(f) = (IF cmd.cbs - Len(inbuf) > 0 THEN cmd.cbs - Len(inbuf) ELSE 0)
      BY <2>1, FillLen
    <3> QED BY <1>0, <2>2, <3>1
  <2>4. LastRecord = inbuf \o f
    BY <1>2 DEF LastRecord
  <2> HIDE DEF f
  <2> QED BY <1>0, <2>2, <2>3, <2>4
<1>3. CASE inbuf # <<>> /\ ~Has("BLOCK")
  <2>1. LastRecord = Append(Stripped(inbuf), NL) /\ NL \in Bytes
    BY <1>3 DEF LastRecord, Bytes
  <2>2. Len(inbuf) < cmd.cbs
    BY <1>3
  <2> QED BY <1>0, <2>1, <2>2, StrippedLen
<1> QED BY <1>1, <1>2, <1>3

LEMMA PadOutputLen ==
  ASSUME cmd \in Command, Legal(cmd), NEW buf \in Seq(Bytes)
  PROVE  /\ PadOutput(buf) \in Seq(Bytes)
         /\ Len(PadOutput(buf)) = (IF NothingToPad(buf) THEN Len(buf) ELSE cmd.obs)
<1>1. cmd.obs \in Nat \ {0} /\ PadByte \in Bytes /\ STALE \in Bytes
  BY CommandFacts DEF Bytes
<1>2. CASE NothingToPad(buf)
  BY <1>2 DEF PadOutput
<1>3. CASE ~NothingToPad(buf)
  <2>1. \A i \in 1 .. Len(buf) : buf[i] \in Bytes
    OBVIOUS
  <2>2. PadOutput(buf) \in [1 .. cmd.obs -> Bytes]
    BY <1>1, <1>3, <2>1 DEF PadOutput
  <2> QED BY <1>1, <1>3, <2>2
<1> QED BY <1>2, <1>3

\* A file remains a sequence of bytes, of the length asked for.
LEMMA FileOps ==
  ASSUME NEW f \in Seq(Bytes), NEW p \in Nat, NEW s \in Seq(Bytes)
  PROVE  Truncated(f, p) \in Seq(Bytes) /\ Written(f, p, s) \in Seq(Bytes)
<1>1. /\ \A i \in 1 .. Len(f) : f[i] \in Bytes
      /\ \A i \in 1 .. Len(s) : s[i] \in Bytes
      /\ NUL \in Bytes
  BY DEF Bytes
<1>2. Truncated(f, p) \in [1 .. p -> Bytes]
  BY <1>1 DEF Truncated
<1>3. Written(f, p, s) \in Seq(Bytes)
  <2> DEFINE l == IF Len(f) > p + Len(s) THEN Len(f) ELSE p + Len(s)
  <2>1. l \in Nat
    OBVIOUS
  <2>2. Written(f, p, s) \in [1 .. l -> Bytes]
    BY <1>1 DEF Written
  <2> HIDE DEF l
  <2> QED BY <2>1, <2>2
<1> QED BY <1>2, <1>3

----------------------------------------------------------------------------
(***************************************************************************)
(* The inductive invariant.                                                *)
(***************************************************************************)

\* There is a block to skip, and something is left of it.
SkipInv == pc = "skip" => n > 0 /\ cnt > 0

\* A block that is not complete is being read; nobody else sees it.
ReadInv ==
  /\ pc = "fill" => Len(rbuf) < cmd.ibs
  /\ pc \notin {"fill", "exit"} => rbuf = <<>>

\* What a conversion leaves in the input buffer is less than a record; without
\* records it leaves nothing.
InInv ==
  /\ Records /\ pc \notin {"conv", "out", "end", "exit"} => Len(inbuf) < cmd.cbs
  /\ ~Records /\ pc # "conv" => inbuf = <<>>
  /\ Records => Len(inbuf) <= cmd.cbs + cmd.ibs - 1
  /\ ~Records => Len(inbuf) <= cmd.ibs
  /\ pc = "out" /\ back = "loop" => ~Records

\* dd_out() leaves less than a block behind, and nothing if it is forced; what
\* it is about to write is in the buffer.
OutInv ==
  /\ pc \notin {"out", "end", "exit"} => Len(outbuf) < cmd.obs
  /\ pc = "out" /\ force => cnt = Len(outbuf)
  /\ pc = "out" /\ ~force => n = cmd.obs /\ 0 < cnt /\ cnt <= n /\ cnt <= Len(outbuf)
  /\ Records => Len(outbuf) <= cmd.obs + cmd.cbs
  /\ ~Records => Len(outbuf) + Len(inbuf) <= cmd.obs + cmd.ibs - 1

IInv == TypeOK /\ SkipInv /\ ReadInv /\ InInv /\ OutInv

\* The invariant and the facts about the command line every step uses.
LEMMA Facts ==
  ASSUME IInv
  PROVE  /\ cmd \in Command /\ Legal(cmd)
         /\ cmd.ibs \in Nat \ {0} /\ cmd.obs \in Nat \ {0} /\ cmd.cbs \in Nat
         /\ cmd.src \in Seq(Bytes)
         /\ rbuf \in Seq(Bytes) /\ inbuf \in Seq(Bytes) /\ outbuf \in Seq(Bytes)
         /\ inpos \in Nat /\ n \in Nat /\ cnt \in Nat /\ pos \in Nat /\ pending \in Nat
         /\ Records <=> cmd.cbs > 0
         /\ ~(Has("BLOCK") /\ Has("UNBLOCK"))
         /\ Unbuffered => ~Records /\ cmd.ibs = cmd.obs
         /\ PadByte \in Bytes
  BY CommandFacts DEF IInv, TypeOK

LEMMA InitInv == Init => IInv
<1> SUFFICES ASSUME Init PROVE IInv
  OBVIOUS
<1>1. cmd \in Command /\ Legal(cmd)
  BY CommandsAssumption DEF Init
<1>2. cmd.ibs \in Nat \ {0} /\ cmd.obs \in Nat \ {0} /\ cmd.cbs \in Nat
      /\ cmd.old \in Seq(Bytes) /\ (Records <=> cmd.cbs > 0)
  BY <1>1, CommandFacts
<1>3. NoStats \in [DOMAIN NoStats -> Nat]
  BY DEF NoStats
<1>4. TypeOK
  <2>1. file \in Seq(Bytes) /\ st \in [DOMAIN NoStats -> Nat]
    BY <1>2, <1>3 DEF Init
  <2>2. /\ rbuf \in Seq(Bytes) /\ inbuf \in Seq(Bytes) /\ outbuf \in Seq(Bytes)
        /\ fed \in Seq(Bytes)
    BY DEF Init
  <2> QED BY <1>1, <2>1, <2>2 DEF Init, TypeOK
<1> QED BY <1>2, <1>4 DEF Init, IInv, SkipInv, ReadInv, InInv, OutInv

\* The command line never changes, and with it no flag.
LEMMA SameCommand ==
  ASSUME cmd' = cmd
  PROVE  /\ Records' = Records
         /\ \A c \in Flags : Has(c)' = Has(c)
  BY DEF Records, Has, ddflags, Flags

----------------------------------------------------------------------------
(***************************************************************************)
(* setup() and dd_in() keep it.                                            *)
(***************************************************************************)

LEMMA SetupInv == IInv /\ (Open \/ SkipRead \/ SkipEnd \/ Seek) => IInv'
<1> SUFFICES ASSUME IInv, Open \/ SkipRead \/ SkipEnd \/ Seek PROVE IInv'
  OBVIOUS
<1> USE DEF IInv, SkipInv, ReadInv, InInv, OutInv
<1>1. cmd' = cmd /\ Records' = Records
  BY SameCommand DEF Open, SkipRead, SkipEnd, Seek
<1>0. /\ cmd.ibs \in Nat \ {0} /\ cmd.obs \in Nat \ {0} /\ cmd.cbs \in Nat
      /\ Len(cmd.src) \in Nat /\ inpos \in Nat /\ n \in Nat /\ cnt \in Nat
  <2>1. cmd.src \in Seq(Bytes)
    BY Facts
  <2> QED BY <2>1, Facts
<1>2. CASE Open
  <2>1. cmd.skip \in Nat /\ cmd.skip * cmd.ibs \in Nat
    BY Facts, CommandFacts
  <2>2. TypeOK'
    BY <1>0, <1>1, <1>2, <2>1, Facts DEF TypeOK, Open
  <2>3. cmd.inpipe /\ cmd.skip > 0 => cnt' > 0 /\ n' > 0
    BY <1>0, <1>2, <2>1 DEF Open
  <2> QED BY <1>1, <1>2, <2>2, <2>3 DEF Open
<1>3. CASE SkipRead
  <2>1. PICK nr \in 1 .. Smaller(n, Len(cmd.src) - inpos) :
          /\ inpos' = inpos + nr
          /\ n' = LeftToSkip(nr)
          /\ cnt' = IF nr = n THEN cnt - 1 ELSE cnt
          /\ pc' = IF cnt' = 0 THEN "seek" ELSE "skip"
    BY <1>3 DEF SkipRead
  <2>2. nr \in Nat \ {0} /\ nr <= n
    BY <1>0, <2>1 DEF Smaller
  <2>3. n' \in Nat \ {0} /\ cnt' \in Nat
    BY <1>0, <1>3, <2>1, <2>2 DEF LeftToSkip, SkipRead
  <2>4. TypeOK'
    BY <1>1, <1>3, <2>1, <2>2, <2>3 DEF TypeOK, SkipRead, output
  <2> QED BY <1>1, <1>3, <2>1, <2>3, <2>4, Facts DEF SkipRead
<1>4. CASE SkipEnd
  <2>1. TypeOK'
    BY <1>1, <1>4 DEF TypeOK, SkipEnd, Exit, reader, writer, output
  <2> QED BY <1>1, <1>4, <2>1 DEF SkipEnd, Exit, reader, writer
<1>5. CASE Seek
  <2>1. cmd.seek * cmd.obs \in Nat
    BY Facts, CommandFacts
  <2>2. Truncated(file, cmd.seek * cmd.obs) \in Seq(Bytes)
    BY <2>1, FileOps DEF TypeOK
  <2>3. TypeOK'
    BY <1>1, <1>5, <2>1, <2>2 DEF TypeOK, Seek, Exit, reader, writer, output
  <2> QED BY <1>1, <1>5, <2>3 DEF Seek, Exit, reader, writer
<1> QED BY <1>2, <1>3, <1>4, <1>5

\* A block of at most ibs bytes is handed to the conversion: it fits behind
\* what was left of the last one.
LEMMA AcceptInv ==
  ASSUME IInv, pc \in {"loop", "fill"}, NEW r \in Seq(Bytes), Len(r) <= cmd.ibs,
         Accept(r), inpos' \in Nat, UNCHANGED <<cmd, outbuf, writer, output, intrunc, code>>
  PROVE  IInv'
<1> DEFINE r2 == IF Has("SWAB") THEN Swapped(r) ELSE r
           r3 == IF Has("BLOCK") THEN r2 ELSE Translate(r2)
<1>1. r2 \in Seq(Bytes) /\ Len(r2) = Len(r)
  BY SwappedLen
<1>2. r3 \in Seq(Bytes) /\ Len(r3) = Len(r)
  BY <1>1, TranslateLen
<1>3. inbuf' = inbuf \o r3 /\ fed' = fed \o r2 /\ rbuf' = <<>> /\ pc' = "conv"
  BY DEF Accept
<1> HIDE DEF r2, r3
<1>4. cmd' = cmd /\ Records' = Records
  BY SameCommand
<1>5. inbuf' \in Seq(Bytes) /\ Len(inbuf') = Len(inbuf) + Len(r) /\ fed' \in Seq(Bytes)
  <2>1. inbuf \in Seq(Bytes) /\ fed \in Seq(Bytes)
    BY DEF IInv, TypeOK
  <2> QED BY SMTT(30), <1>1, <1>2, <1>3, <2>1
<1>6. st' \in [DOMAIN NoStats -> Nat]
  <2> DEFINE D == DOMAIN NoStats
             i == IF Len(r) = cmd.ibs THEN st.in_full + 1 ELSE st.in_full
             j == IF Len(r) = cmd.ibs THEN st.in_part ELSE st.in_part + 1
             k == IF Has("SWAB") /\ Len(r) % 2 = 1 THEN st.swab + 1 ELSE st.swab
  <2>1. st \in [D -> Nat] /\ "in_full" \in D /\ "in_part" \in D /\ "swab" \in D
    BY DEF IInv, TypeOK, NoStats
  <2>2. st' = [st EXCEPT !.in_full = i, !.in_part = j, !.swab = k]
    BY DEF Accept
  <2> HIDE DEF D
  <2>3. i \in Nat /\ j \in Nat /\ k \in Nat
    BY <2>1
  <2> HIDE DEF i, j, k
  <2> QED BY <2>1, <2>2, <2>3 DEF D
<1>7. TypeOK'
  BY <1>3, <1>4, <1>5, <1>6 DEF IInv, TypeOK, writer, output
<1>8. /\ cmd.ibs \in Nat \ {0} /\ cmd.obs \in Nat \ {0} /\ cmd.cbs \in Nat
      /\ Len(inbuf) \in Nat /\ Len(outbuf) \in Nat /\ Len(r) \in Nat
  <2>1. inbuf \in Seq(Bytes) /\ outbuf \in Seq(Bytes)
    BY Facts
  <2> QED BY SMTT(30), <2>1, Facts
<1>9. /\ Records => Len(inbuf') <= cmd.cbs + cmd.ibs - 1
      /\ ~Records => inbuf = <<>> /\ Len(inbuf') <= cmd.ibs
  BY <1>5, <1>8 DEF IInv, InInv
<1>10. outbuf' = outbuf /\ Len(outbuf) < cmd.obs
  BY DEF IInv, OutInv
<1> QED BY SMTT(30), <1>3, <1>4, <1>5, <1>7, <1>8, <1>9, <1>10
        DEF IInv, SkipInv, ReadInv, InInv, OutInv, writer

LEMMA ReadDataInv == IInv /\ (\E k \in 1 .. cmd.ibs : ReadData(k)) => IInv'
<1> SUFFICES ASSUME IInv, NEW k \in 1 .. cmd.ibs, ReadData(k) PROVE IInv'
  OBVIOUS
<1> DEFINE more == SubSeq(cmd.src, inpos + 1, inpos + k)
           r == rbuf \o more
<1>0. /\ cmd.ibs \in Nat \ {0} /\ inpos \in Nat /\ k \in Nat
      /\ cmd.src \in Seq(Bytes) /\ rbuf \in Seq(Bytes)
  BY Facts
<1>1. k \in Good /\ pc \in {"loop", "fill"}
  BY DEF ReadData, Returned, Reading
<1>2. k <= cmd.ibs - Len(rbuf) /\ inpos + k <= Len(cmd.src)
  <2>1. k \in 1 .. Wanted /\ \A i \in inpos .. inpos + k - 1 : i < Len(cmd.src)
    BY <1>1 DEF Good
  <2>2. inpos + k - 1 \in inpos .. inpos + k - 1
    BY SMTT(30), <1>1, Facts
  <2> QED BY SMTT(30), <2>1, <2>2, Facts DEF Wanted
<1>3. more \in Seq(Bytes) /\ Len(more) = k
  BY <1>0, <1>2
<1>4. r \in Seq(Bytes) /\ Len(r) = Len(rbuf) + k /\ Len(r) <= cmd.ibs
  <2> HIDE DEF more
  <2> QED BY SMTT(30), <1>0, <1>2, <1>3
<1>5. inpos' \in Nat /\ cmd' = cmd /\ Records' = Records
  BY Facts, SameCommand DEF ReadData
<1>6. CASE Has("SYNC")
  <2>1. Padded(r, cmd.ibs) \in Seq(Bytes) /\ Len(Padded(r, cmd.ibs)) <= cmd.ibs
    <3>1. cmd \in Command /\ Legal(cmd) /\ cmd.ibs \in Nat
      BY Facts
    <3> HIDE DEF r
    <3> QED BY <1>4, <3>1, PaddedLen
  <2>2. Accept(Padded(r, cmd.ibs))
    BY <1>6 DEF ReadData
  <2>3. UNCHANGED <<cmd, outbuf, writer, output, intrunc, code>>
    BY DEF ReadData
  <2> HIDE DEF r
  <2> QED BY <1>1, <1>5, <2>1, <2>2, <2>3, AcceptInv
<1>7. CASE ~Has("SYNC") /\ GoOn(r)
  <2>1. rbuf' = r /\ pc' = "fill" /\ UNCHANGED <<inbuf, st, fed>>
    BY <1>7 DEF ReadData
  <2>2. Len(r) < cmd.ibs
    BY <1>7 DEF GoOn
  <2> HIDE DEF r
  <2>3. TypeOK'
    BY <1>4, <1>5, <2>1 DEF IInv, TypeOK, ReadData, writer, output
  <2> QED BY <1>1, <1>5, <2>1, <2>2, <2>3
          DEF IInv, SkipInv, ReadInv, InInv, OutInv, ReadData, writer
<1>8. CASE ~Has("SYNC") /\ ~GoOn(r)
  <2>1. Accept(r) /\ UNCHANGED <<cmd, outbuf, writer, output, intrunc, code>>
    BY <1>8 DEF ReadData
  <2> HIDE DEF r
  <2> QED BY <1>1, <1>4, <1>5, <2>1, AcceptInv
<1> QED BY <1>6, <1>7, <1>8

\* The steps of dd_in() that bring no data, and the end of the loop.
LEMMA ReadOtherInv == IInv /\ (Limit \/ ReadEnd \/ ReadError) => IInv'
<1> SUFFICES ASSUME IInv, Limit \/ ReadEnd \/ ReadError PROVE IInv'
  OBVIOUS
<1>1. cmd' = cmd /\ Records' = Records /\ pc \in {"loop", "fill"}
  BY SameCommand DEF Limit, ReadEnd, ReadError, Reading
<1>2. CASE Limit
  <2>1. TypeOK'
    BY <1>1, <1>2 DEF IInv, TypeOK, Limit, reader, writer, output
  <2> QED BY <1>1, <1>2, <2>1
          DEF IInv, SkipInv, ReadInv, InInv, OutInv, Limit, reader, writer
<1>3. CASE ReadEnd /\ rbuf = <<>>
  <2>1. TypeOK'
    BY <1>1, <1>3 DEF IInv, TypeOK, ReadEnd, reader, writer, output
  <2> QED BY <1>1, <1>3, <2>1
          DEF IInv, SkipInv, ReadInv, InInv, OutInv, ReadEnd, reader, writer
<1>4. CASE ReadEnd /\ rbuf # <<>>
  <2>1. Accept(rbuf) /\ inpos' \in Nat /\ UNCHANGED <<cmd, outbuf, writer, output, intrunc, code>>
    BY <1>4, Facts DEF ReadEnd
  <2>2. rbuf \in Seq(Bytes) /\ Len(rbuf) <= cmd.ibs
    BY <1>1, <1>4, Facts DEF IInv, ReadInv
  <2> QED BY <1>1, <2>1, <2>2, AcceptInv
<1>5. CASE ReadError /\ ~Has("NOERROR")
  <2>1. TypeOK'
    BY <1>1, <1>5 DEF IInv, TypeOK, ReadError, Exit, reader, writer, output
  <2> QED BY <1>1, <1>5, <2>1
          DEF IInv, SkipInv, ReadInv, InInv, OutInv, ReadError, Exit, reader, writer
<1>6. CASE ReadError /\ Has("NOERROR")
  <2>1. inpos' \in Nat /\ UNCHANGED <<cmd, outbuf, writer, output, intrunc, code>>
    BY <1>6, Facts DEF ReadError, PastError
  <2>2. CASE Has("SYNC")
    <3> DEFINE r == Fill(PadByte, cmd.ibs)
    <3>1. PadByte \in Bytes /\ cmd.ibs \in Nat
      BY Facts
    <3>2. r \in Seq(Bytes) /\ Len(r) <= cmd.ibs
      <4>1. r \in Seq(Bytes) /\ Len(r) = (IF cmd.ibs > 0 THEN cmd.ibs ELSE 0)
        BY <3>1, FillLen
      <4> QED BY <3>1, <4>1
    <3>3. Accept(r)
      BY <1>6, <2>2 DEF ReadError
    <3> HIDE DEF r
    <3> QED BY <1>1, <2>1, <3>2, <3>3, AcceptInv
  <2>3. CASE ~Has("SYNC")
    <3>1. rbuf' = <<>> /\ pc' = "loop" /\ UNCHANGED <<inbuf, st, fed>>
      BY <1>6, <2>3 DEF ReadError
    <3>2. TypeOK'
      BY <1>1, <2>1, <3>1 DEF IInv, TypeOK, writer, output
    <3> QED BY <1>1, <2>1, <3>1, <3>2
            DEF IInv, SkipInv, ReadInv, InInv, OutInv, writer
  <2> QED BY <2>2, <2>3
<1> QED BY <1>2, <1>3, <1>4, <1>5, <1>6

----------------------------------------------------------------------------
(***************************************************************************)
(* The conversions keep it.                                                *)
(***************************************************************************)

\* The sizes every step of a conversion or of dd_out() computes with.
LEMMA Sizes ==
  ASSUME IInv
  PROVE  /\ cmd.ibs \in Nat \ {0} /\ cmd.obs \in Nat \ {0} /\ cmd.cbs \in Nat
         /\ Len(inbuf) \in Nat /\ Len(outbuf) \in Nat
         /\ n \in Nat /\ cnt \in Nat /\ (Records <=> cmd.cbs > 0)
<1>1. inbuf \in Seq(Bytes) /\ outbuf \in Seq(Bytes)
  BY Facts
<1> QED BY <1>1, Facts

\* A piece is converted: it fits behind what dd_out() left of a block.
LEMMA EmitInv ==
  ASSUME IInv, pc = "conv",
         NEW s \in Seq(Bytes), NEW rest \in Seq(Bytes), NEW k \in {"loop", "conv"},
         Emit(s, rest, k), UNCHANGED <<cmd, reader, output, code, fed>>,
         intrunc' \in BOOLEAN, st' \in [DOMAIN NoStats -> Nat],
         Len(rest) <= Len(inbuf),
         Records => Len(s) <= cmd.cbs + 1 /\ k = "conv",
         ~Records => rest = <<>> /\ Len(s) = Len(inbuf) /\ k = "loop"
  PROVE  IInv'
<1>1. cmd' = cmd /\ Records' = Records
  BY SameCommand
<1>2. outbuf' = outbuf \o s /\ inbuf' = rest
  BY DEF Emit
<1>3. outbuf' \in Seq(Bytes) /\ Len(outbuf') = Len(outbuf) + Len(s)
  <2>1. outbuf \in Seq(Bytes)
    BY Facts
  <2> QED BY <1>2, <2>1
<1>4. Len(rest) \in Nat /\ Len(s) \in Nat /\ Len(outbuf) < cmd.obs
  BY DEF IInv, OutInv
<1>5. /\ Records => Len(outbuf') <= cmd.obs + cmd.cbs
      /\ ~Records => Len(outbuf') <= cmd.obs + cmd.ibs - 1
  BY <1>3, <1>4, Sizes DEF IInv, InInv
<1>6. /\ Records => Len(inbuf') <= cmd.cbs + cmd.ibs - 1
      /\ ~Records => inbuf' = <<>>
  BY SMTT(30), <1>2, <1>4, Sizes DEF IInv, InInv
<1>7. CASE Due(outbuf')
  <2>1. pc' = "out" /\ force' = FALSE /\ back' = k /\ n' = cmd.obs /\ cnt' = cmd.obs
        /\ UNCHANGED <<pending, seek_offset>>
    BY <1>7 DEF Emit, StartOut
  <2>2. cnt' <= Len(outbuf')
    BY <1>1, <1>7, <2>1 DEF Due
  <2>3. TypeOK'
    BY <1>1, <1>2, <1>3, <2>1, Sizes DEF IInv, TypeOK, reader, output
  <2> QED BY SMTT(30), <1>1, <1>2, <1>3, <1>5, <1>6, <2>1, <2>2, <2>3, Sizes
          DEF IInv, SkipInv, ReadInv, InInv, OutInv, reader
<1>8. CASE ~Due(outbuf')
  <2>1. pc' = k /\ UNCHANGED writer
    BY <1>8 DEF Emit
  <2>2. Len(outbuf') < cmd.obs
    BY <1>1, <1>3, <1>4, <1>8, Sizes DEF Due
  <2>3. TypeOK'
    BY <1>1, <1>2, <1>3, <2>1, Sizes DEF IInv, TypeOK, reader, output, writer
  <2> QED BY <1>1, <1>2, <1>3, <1>5, <1>6, <2>1, <2>2, <2>3, Sizes
          DEF IInv, SkipInv, ReadInv, InInv, OutInv, reader, writer
<1> QED BY <1>7, <1>8

\* Without records: the whole block goes on.
LEMMA PlainInv == IInv /\ (ConvertNone \/ Def) => IInv'
<1> SUFFICES ASSUME IInv, ConvertNone \/ Def PROVE IInv'
  OBVIOUS
<1>1. CASE ConvertNone
  <2>1. cmd' = cmd /\ Records' = Records /\ ~Records /\ cmd.ibs = cmd.obs
    BY <1>1, SameCommand, Facts DEF ConvertNone
  <2>2. /\ outbuf' = inbuf /\ inbuf' = <<>> /\ pc' = "out" /\ force' = TRUE /\ back' = "loop"
        /\ n' = Len(inbuf) /\ cnt' = Len(inbuf) /\ UNCHANGED <<pending, seek_offset>>
    BY <1>1 DEF ConvertNone, StartOut
  <2>3. TypeOK'
    BY <1>1, <2>1, <2>2, Sizes DEF IInv, TypeOK, ConvertNone, reader, output
  <2>4. Len(outbuf') + Len(inbuf') <= cmd.obs + cmd.ibs - 1
    BY <2>1, <2>2, Sizes DEF IInv, InInv
  <2> QED BY <1>1, <2>1, <2>2, <2>3, <2>4, Sizes
          DEF IInv, SkipInv, ReadInv, InInv, OutInv, ConvertNone, reader
<1>2. CASE Def
  <2>1. /\ pc = "conv" /\ ~Records /\ Emit(inbuf, <<>>, "loop")
        /\ UNCHANGED <<cmd, reader, output, intrunc, st, code, fed>>
    BY <1>2 DEF Def
  <2>2. inbuf \in Seq(Bytes) /\ <<>> \in Seq(Bytes) /\ Len(<<>>) <= Len(inbuf)
    BY Facts
  <2>3. intrunc' \in BOOLEAN /\ st' \in [DOMAIN NoStats -> Nat]
    BY <2>1 DEF IInv, TypeOK
  <2> QED BY <2>1, <2>2, <2>3, EmitInv
<1> QED BY <1>1, <1>2

\* block(): a record of cbs bytes, or what is left of the input block.
LEMMA BlockInv == IInv /\ (BlockToss \/ BlockShort \/ BlockRecord) => IInv'
<1> SUFFICES ASSUME IInv, BlockToss \/ BlockShort \/ BlockRecord PROVE IInv'
  OBVIOUS
<1>1. cmd' = cmd /\ Records' = Records /\ Records /\ pc = "conv"
  BY SameCommand DEF BlockToss, BlockShort, BlockRecord, Records
<1>2. inbuf \in Seq(Bytes)
  BY Facts
<1>3. /\ NewlineIn(inbuf) \in 1 .. Len(inbuf) + 1
      /\ Contains(inbuf, NL) => NewlineIn(inbuf) <= Len(inbuf)
      /\ ~Contains(inbuf, NL) => NewlineIn(inbuf) = Len(inbuf) + 1
  BY <1>2, NewlineRange DEF NewlineIn
<1>4. /\ Drop(inbuf, NewlineIn(inbuf)) \in Seq(Bytes)
      /\ Len(Drop(inbuf, NewlineIn(inbuf))) <= Len(inbuf)
      /\ ~Contains(inbuf, NL) => Len(Drop(inbuf, NewlineIn(inbuf))) = 0
  <2> DEFINE j == NewlineIn(inbuf)
             d == Drop(inbuf, j)
  <2>1. j \in Nat
    BY <1>2, <1>3
  <2>2. d \in Seq(Bytes) /\ Len(d) = (IF j <= Len(inbuf) THEN Len(inbuf) - j ELSE 0)
    BY <1>2, <2>1, TakeDrop
  <2> HIDE DEF j, d
  <2>3. Len(d) <= Len(inbuf) /\ (~(j <= Len(inbuf)) => Len(d) = 0)
    BY <1>2, <2>1, <2>2
  <2>4. ~Contains(inbuf, NL) => ~(j <= Len(inbuf))
    BY <1>2, <1>3 DEF j
  <2> QED BY <2>2, <2>3, <2>4 DEF d, j
<1>5. CASE BlockToss
  <2>1. /\ inbuf' = Drop(inbuf, NewlineIn(inbuf)) /\ intrunc' \in BOOLEAN
        /\ pc' = "conv" \/ (pc' = "loop" /\ ~Contains(inbuf, NL))
    <3>1. intrunc \in BOOLEAN
      BY DEF IInv, TypeOK
    <3> QED BY <1>1, <1>5, <3>1 DEF BlockToss
  <2>2. inbuf' \in Seq(Bytes) /\ Len(inbuf') <= Len(inbuf) /\ (pc' = "loop" => Len(inbuf') = 0)
    BY <1>4, <2>1
  <2>3. UNCHANGED <<reader, outbuf, writer, output, st, code, fed>>
    BY <1>5 DEF BlockToss
  <2>4. TypeOK'
    BY <1>1, <2>1, <2>2, <2>3 DEF IInv, TypeOK, reader, writer, output
  <2>5. Len(inbuf') <= cmd.cbs + cmd.ibs - 1 /\ Len(inbuf') \in Nat
    BY <1>1, <2>2, Sizes DEF IInv, InInv
  <2> QED BY <1>1, <2>1, <2>2, <2>3, <2>4, <2>5, Sizes
          DEF IInv, SkipInv, ReadInv, InInv, OutInv, reader, writer
<1>6. CASE BlockShort
  <2>1. TypeOK'
    BY <1>1, <1>6 DEF IInv, TypeOK, BlockShort, reader, writer, output
  <2> QED BY <1>1, <1>6, <2>1
          DEF IInv, SkipInv, ReadInv, InInv, OutInv, BlockShort, reader, writer
<1>7. CASE BlockRecord
  <2> DEFINE len == Smaller(NewlineIn(inbuf) - 1, cmd.cbs)
             s == Translate(Padded(Take(inbuf, len), cmd.cbs))
  <2>1. len \in Nat /\ len <= Len(inbuf) /\ len <= cmd.cbs
    BY <1>2, <1>3, Sizes DEF Smaller
  <2>2. Take(inbuf, len) \in Seq(Bytes) /\ Len(Take(inbuf, len)) = len
    BY <1>2, <2>1, TakeDrop
  <2>3. s \in Seq(Bytes) /\ Len(s) = cmd.cbs
    <3> DEFINE t == Take(inbuf, len)
               q == Padded(t, cmd.cbs)
    <3>1. t \in Seq(Bytes) /\ Len(t) = len
      BY <2>2
    <3> HIDE DEF t
    <3>2. q \in Seq(Bytes) /\ Len(q) = cmd.cbs
      <4>1. cmd \in Command /\ Legal(cmd) /\ cmd.cbs \in Nat
        BY Facts
      <4>2. q \in Seq(Bytes) /\ Len(q) = (IF cmd.cbs > Len(t) THEN cmd.cbs ELSE Len(t))
        BY <3>1, <4>1, PaddedLen
      <4> QED BY <2>1, <3>1, <4>1, <4>2
    <3> HIDE DEF q
    <3>3. Translate(q) \in Seq(Bytes) /\ Len(Translate(q)) = Len(q)
      BY <3>2, TranslateLen
    <3>4. s = Translate(q)
      BY DEF q, t
    <3> QED BY <3>2, <3>3, <3>4
  <2>4. Emit(s, Drop(inbuf, NewlineIn(inbuf)), "conv") /\ UNCHANGED <<cmd, reader, output, code, fed>>
    BY <1>7 DEF BlockRecord
  <2>5. intrunc' \in BOOLEAN
    BY <1>7 DEF BlockRecord
  <2>6. st' \in [DOMAIN NoStats -> Nat]
    <3>1. \E i \in Nat : st' = [st EXCEPT !.trunc = i]
      <4>1. st.trunc \in Nat
        BY DEF IInv, TypeOK, NoStats
      <4>2. \/ st' = [st EXCEPT !.trunc = st.trunc + 1]
            \/ st' = [st EXCEPT !.trunc = st.trunc]
        BY <1>7 DEF BlockRecord
      <4> QED BY <4>1, <4>2
    <3> QED BY <3>1 DEF IInv, TypeOK, NoStats
  <2> HIDE DEF s, len
  <2> QED BY <1>1, <1>4, <2>3, <2>4, <2>5, <2>6, Sizes, EmitInv
<1> QED BY <1>5, <1>6, <1>7

\* unblock(): a record of cbs bytes loses its blanks and gets a newline.
LEMMA UnblockInv == IInv /\ (UnblockRecord \/ UnblockShort) => IInv'
<1> SUFFICES ASSUME IInv, UnblockRecord \/ UnblockShort PROVE IInv'
  OBVIOUS
<1>1. cmd' = cmd /\ Records' = Records /\ Records /\ pc = "conv"
  BY SameCommand DEF UnblockRecord, UnblockShort, Records
<1>2. CASE UnblockShort
  <2>1. TypeOK'
    BY <1>1, <1>2 DEF IInv, TypeOK, UnblockShort, reader, writer, output
  <2> QED BY <1>1, <1>2, <2>1
          DEF IInv, SkipInv, ReadInv, InInv, OutInv, UnblockShort, reader, writer
<1>3. CASE UnblockRecord
  <2> DEFINE t == Take(inbuf, cmd.cbs)
             s == Append(Stripped(t), NL)
             d == Drop(inbuf, cmd.cbs)
  <2>1. inbuf \in Seq(Bytes) /\ cmd.cbs \in Nat /\ cmd.cbs <= Len(inbuf)
    BY <1>3, Facts DEF UnblockRecord
  <2>2. /\ t \in Seq(Bytes) /\ Len(t) = cmd.cbs
        /\ d \in Seq(Bytes) /\ Len(d) = Len(inbuf) - cmd.cbs
    BY <2>1, TakeDrop
  <2>3. Emit(s, d, "conv") /\ UNCHANGED <<cmd, reader, output, intrunc, st, code, fed>>
    BY <1>3 DEF UnblockRecord
  <2> HIDE DEF t, d
  <2>4. Stripped(t) \in Seq(Bytes) /\ Len(Stripped(t)) <= cmd.cbs
    BY <2>2, StrippedLen
  <2>5. s \in Seq(Bytes) /\ Len(s) <= cmd.cbs + 1
    BY <2>1, <2>4 DEF Bytes
  <2>6. Len(d) <= Len(inbuf)
    BY <2>1, <2>2
  <2>7. intrunc' \in BOOLEAN /\ st' \in [DOMAIN NoStats -> Nat]
    BY <2>3 DEF IInv, TypeOK
  <2> HIDE DEF s
  <2> QED BY <1>1, <2>2, <2>3, <2>5, <2>6, <2>7, EmitInv
<1> QED BY <1>2, <1>3

----------------------------------------------------------------------------
(***************************************************************************)
(* dd_out() and dd_close() keep it.                                        *)
(***************************************************************************)

\* nw bytes leave the output buffer; a whole block is due, or dd_out() returns.
LEMMA AdvanceInv ==
  ASSUME IInv, pc = "out", NEW nw \in Nat, nw <= cnt, NEW seeked \in Nat, Advance(nw, seeked),
         pending' \in Nat, file' \in Seq(Bytes), pos' \in Nat
  PROVE  IInv'
<1>1. cmd' = cmd /\ Records' = Records
  BY SameCommand DEF Advance
<1>2. nw <= Len(outbuf) /\ cnt <= Len(outbuf)
  BY Sizes DEF IInv, OutInv
<1>3. outbuf' \in Seq(Bytes) /\ Len(outbuf') = Len(outbuf) - nw
  <2>1. outbuf \in Seq(Bytes) /\ outbuf' = Drop(outbuf, nw)
    BY Facts DEF Advance
  <2> QED BY <1>2, <2>1, TakeDrop
<1>4. st' \in [DOMAIN NoStats -> Nat]
  <2> DEFINE D == DOMAIN NoStats
             full == nw = n /\ n = cmd.obs
             i == st.bytes + nw
             j == IF full THEN st.out_full + 1 ELSE st.out_full
             k == IF full THEN st.out_part ELSE st.out_part + 1
  <2>1. st \in [D -> Nat] /\ "bytes" \in D /\ "out_full" \in D /\ "out_part" \in D
    BY DEF IInv, TypeOK, NoStats
  <2>2. st' = [st EXCEPT !.bytes = i, !.out_full = j, !.out_part = k]
    BY DEF Advance, Counted
  <2> HIDE DEF D
  <2>3. i \in Nat /\ j \in Nat /\ k \in Nat
    BY <2>1
  <2> HIDE DEF i, j, k
  <2> QED BY <2>1, <2>2, <2>3 DEF D
<1>5. /\ inbuf' = inbuf /\ rbuf' = rbuf /\ inpos' = inpos /\ force' = force /\ back' = back
      /\ intrunc' = intrunc /\ code' = code /\ fed' = fed /\ seek_offset' = seeked
  BY DEF Advance, reader
<1>6. /\ Records => Len(outbuf') <= cmd.obs + cmd.cbs
      /\ ~Records => Len(outbuf') + Len(inbuf') <= cmd.obs + cmd.ibs - 1
  <2>1. Len(outbuf') \in Nat /\ Len(outbuf') <= Len(outbuf)
    BY <1>2, <1>3, Sizes
  <2>2. /\ Records => Len(outbuf) <= cmd.obs + cmd.cbs
        /\ ~Records => Len(outbuf) + Len(inbuf) <= cmd.obs + cmd.ibs - 1
    BY DEF IInv, OutInv
  <2> QED BY SMTT(30), <1>5, <2>1, <2>2, Sizes
<1>7. CASE nw < cnt
  <2>1. cnt' = cnt - nw /\ n' = n /\ pc' = pc
    BY <1>7 DEF Advance
  <2>2. TypeOK'
    BY <1>1, <1>3, <1>4, <1>5, <1>7, <2>1, Sizes DEF IInv, TypeOK
  <2>3. /\ force => cnt' = Len(outbuf')
        /\ ~force => n' = cmd.obs /\ 0 < cnt' /\ cnt' <= n' /\ cnt' <= Len(outbuf')
    BY SMTT(30), <1>2, <1>3, <1>7, <2>1, Sizes DEF IInv, OutInv
  <2>4. OutInv'
    BY <1>1, <1>5, <1>6, <2>1, <2>3 DEF OutInv
  <2> QED BY <1>1, <1>5, <2>1, <2>2, <2>4 DEF IInv, SkipInv, ReadInv, InInv
<1>8. CASE nw = cnt
  <2>1. n' = cmd.obs /\ cnt' = cmd.obs /\ pc' = (IF Due(outbuf') THEN "out" ELSE back)
    BY <1>8, Sizes DEF Advance
  <2>2. Due(outbuf') <=> Len(outbuf') >= cmd.obs
    BY DEF Due
  <2>3. force => Len(outbuf') = 0
    BY <1>3, <1>8, Sizes DEF IInv, OutInv
  <2>4. back \in {"loop", "conv", "end"}
    BY DEF IInv, TypeOK
  <2>5. TypeOK'
    BY <1>1, <1>3, <1>4, <1>5, <2>1, <2>4, Sizes DEF IInv, TypeOK
  <2>6. CASE Due(outbuf')
    <3>1. pc' = "out" /\ ~force
      BY <2>1, <2>2, <2>3, <2>6, Sizes
    <3>2. n' = cmd.obs /\ 0 < cnt' /\ cnt' <= n' /\ cnt' <= Len(outbuf')
      BY <2>1, <2>2, <2>6, Sizes
    <3>3. OutInv'
      BY <1>1, <1>5, <1>6, <3>1, <3>2 DEF OutInv
    <3> QED BY <1>1, <1>5, <2>5, <3>1, <3>3 DEF IInv, SkipInv, ReadInv, InInv
  <2>7. CASE ~Due(outbuf')
    <3>1. pc' = back /\ Len(outbuf') < cmd.obs
      BY <1>2, <1>3, <2>1, <2>2, <2>7, Sizes
    <3>2. back \in {"loop", "conv", "end"} /\ (back = "loop" => ~Records)
      BY <2>4 DEF IInv, InInv
    <3>3. OutInv'
      BY <1>1, <1>5, <1>6, <3>1, <3>2 DEF OutInv
    <3> QED BY <1>1, <1>5, <2>5, <3>1, <3>2, <3>3 DEF IInv, SkipInv, ReadInv, InInv
  <2> QED BY <2>6, <2>7
<1> QED BY <1>7, <1>8, Sizes

LEMMA WriteInv == IInv /\ (WriteHole \/ (\E nw \in 1 .. cnt : WriteData(nw))) => IInv'
<1> SUFFICES ASSUME IInv, WriteHole \/ (\E nw \in 1 .. cnt : WriteData(nw)) PROVE IInv'
  OBVIOUS
<1>1. file \in Seq(Bytes) /\ pos \in Nat /\ pending \in Nat /\ seek_offset \in Nat
      /\ outbuf \in Seq(Bytes)
  BY DEF IInv, TypeOK
<1>2. CASE WriteHole
  <2>1. pending' \in Nat /\ file' \in Seq(Bytes) /\ pos' \in Nat
    BY <1>1, <1>2, Sizes DEF WriteHole, output
  <2>2. pc = "out" /\ Advance(cnt, seek_offset)
    BY <1>2 DEF WriteHole
  <2> QED BY <1>1, <2>1, <2>2, Sizes, AdvanceInv
<1>3. ASSUME NEW nw \in 1 .. cnt, WriteData(nw) PROVE IInv'
  <2>1. nw \in Nat /\ nw <= cnt /\ pc = "out" /\ Advance(nw, 0)
    BY <1>3, Sizes DEF WriteData
  <2>2. nw <= Len(outbuf)
    BY <2>1, Sizes DEF IInv, OutInv
  <2>3. Take(outbuf, nw) \in Seq(Bytes) /\ WriteOffset \in Nat
    BY <1>1, <2>1, <2>2, TakeDrop DEF WriteOffset
  <2>4. file' \in Seq(Bytes)
    BY <1>1, <1>3, <2>3, FileOps DEF WriteData
  <2>5. pending' \in Nat /\ pos' \in Nat
    BY <1>3, <2>1, <2>3 DEF WriteData
  <2> QED BY <2>1, <2>4, <2>5, AdvanceInv
<1> QED BY <1>2, <1>3

LEMMA WriteOtherInv == IInv /\ (WriteNothing \/ WriteFails) => IInv'
<1> SUFFICES ASSUME IInv, WriteNothing \/ WriteFails PROVE IInv'
  OBVIOUS
<1>1. cmd' = cmd /\ Records' = Records /\ pc = "out"
  BY SameCommand DEF WriteNothing, WriteFails
<1>2. CASE WriteNothing
  <2>1. outbuf = <<>>
    BY <1>2, Facts DEF IInv, OutInv, WriteNothing
  <2>2. TypeOK'
    BY <1>1, <1>2 DEF IInv, TypeOK, WriteNothing, WriteOffset, reader
  <2> QED BY <1>1, <1>2, <2>1, <2>2, Sizes
          DEF IInv, TypeOK, SkipInv, ReadInv, InInv, OutInv, WriteNothing, reader
<1>3. CASE WriteFails
  <2>1. pc' = "exit" /\ code' \in {1, 2}
        /\ UNCHANGED <<reader, inbuf, outbuf, writer, output, intrunc, st, fed>>
    BY <1>3 DEF WriteFails, Exit
  <2>2. TypeOK'
    BY <1>1, <2>1 DEF IInv, TypeOK, reader, writer, output
  <2> QED BY <1>1, <2>1, <2>2 DEF IInv, SkipInv, ReadInv, InInv, OutInv, reader, writer
<1> QED BY <1>2, <1>3

LEMMA CloseInv == IInv /\ (Close \/ End) => IInv'
<1> SUFFICES ASSUME IInv, Close \/ End PROVE IInv'
  OBVIOUS
<1>1. cmd' = cmd /\ Records' = Records
  BY SameCommand DEF Close, End
<1>2. CASE Close
  <2> DEFINE buf == outbuf \o LastRecord
  <2>1. LastRecord \in Seq(Bytes) /\ Len(LastRecord) <= cmd.cbs
    <3>1. /\ cmd \in Command /\ Legal(cmd) /\ inbuf \in Seq(Bytes)
          /\ Records => Len(inbuf) < cmd.cbs
          /\ ~Records => inbuf = <<>>
      BY <1>2, Facts DEF IInv, InInv, Close
    <3> QED BY <3>1, LastRecordLen
  <2>2. buf \in Seq(Bytes) /\ Len(buf) = Len(outbuf) + Len(LastRecord)
    BY <2>1, Facts
  <2> HIDE DEF buf
  <2>3. /\ PadOutput(buf) \in Seq(Bytes)
        /\ Len(PadOutput(buf)) <= Len(buf) \/ Len(PadOutput(buf)) <= cmd.obs
    <3>1. cmd \in Command /\ Legal(cmd)
      BY Facts
    <3>2. /\ PadOutput(buf) \in Seq(Bytes)
          /\ Len(PadOutput(buf)) = (IF NothingToPad(buf) THEN Len(buf) ELSE cmd.obs)
      BY <2>2, <3>1, PadOutputLen
    <3> QED BY <2>2, <3>2, Sizes
  <2>4. outbuf' \in Seq(Bytes) /\ Len(outbuf') <= cmd.obs + cmd.cbs /\ inbuf' = <<>>
    <3>1. outbuf' = PadOutput(buf) /\ inbuf' = <<>>
      BY <1>2 DEF Close, buf
    <3>2. Len(outbuf) < cmd.obs
      BY <1>2 DEF IInv, OutInv, Close
    <3>3. Len(LastRecord) \in Nat /\ Len(PadOutput(buf)) \in Nat
      BY <2>1, <2>3
    <3> QED BY <2>1, <2>2, <2>3, <3>1, <3>2, <3>3, Sizes
  <2>5. ~Records => Len(outbuf') + Len(inbuf') <= cmd.obs + cmd.ibs - 1
    <3>1. Len(outbuf') \in Nat /\ Len(inbuf') = 0
      BY <2>4
    <3> QED BY <2>4, <3>1, Sizes
  <2>6. st' \in [DOMAIN NoStats -> Nat]
    <3>1. st.trunc \in Nat /\ st \in [DOMAIN NoStats -> Nat]
      BY DEF IInv, TypeOK, NoStats
    <3>2. \/ st' = [st EXCEPT !.trunc = st.trunc + 1]
          \/ st' = [st EXCEPT !.trunc = st.trunc]
      BY <1>2 DEF Close
    <3> QED BY <3>1, <3>2
  <2>7. CASE pc' = "out"
    <3>1. /\ force' = TRUE /\ back' = "end" /\ n' = Len(outbuf') /\ cnt' = Len(outbuf')
          /\ UNCHANGED <<pending, seek_offset>>
      BY <1>2, <2>7 DEF Close, StartOut
    <3>2. TypeOK'
      BY SMTT(30), <1>1, <1>2, <2>4, <2>6, <2>7, <3>1 DEF IInv, TypeOK, Close, reader, output
    <3> QED BY <1>1, <1>2, <2>4, <2>5, <2>7, <3>1, <3>2, Sizes
            DEF IInv, SkipInv, ReadInv, InInv, OutInv, Close, reader
  <2>8. CASE pc' = "end" /\ UNCHANGED writer
    <3>1. TypeOK'
      <4>1. UNCHANGED <<n, cnt, force, back, pending, seek_offset>>
        BY <2>8 DEF writer
      <4>2. UNCHANGED <<inpos, rbuf, file, pos, intrunc, code, fed>>
        BY <1>2 DEF Close, reader, output
      <4> QED BY <1>1, <2>4, <2>6, <2>8, <4>1, <4>2 DEF IInv, TypeOK
    <3> QED BY <1>1, <1>2, <2>4, <2>5, <2>8, <3>1, Sizes
            DEF IInv, SkipInv, ReadInv, InInv, OutInv, Close, reader, writer
  <2> QED BY <1>2, <2>7, <2>8 DEF Close, StartOut
<1>3. CASE End
  <2>1. file' \in Seq(Bytes)
    <3>1. file \in Seq(Bytes) /\ seek_offset \in Nat
      BY DEF IInv, TypeOK
    <3> QED BY <1>3, <3>1, FileOps DEF End
  <2>2. TypeOK'
    BY <1>1, <1>3, <2>1 DEF IInv, TypeOK, End, Exit, reader, writer
  <2> QED BY <1>1, <1>3, <2>2
          DEF IInv, SkipInv, ReadInv, InInv, OutInv, End, Exit, reader, writer
<1> QED BY <1>2, <1>3

----------------------------------------------------------------------------

LEMMA NextInv == IInv /\ [Next]_vars => IInv'
<1> SUFFICES ASSUME IInv, [Next]_vars PROVE IInv'
  OBVIOUS
<1>1. CASE Copy
  BY <1>1, SetupInv, ReadDataInv, ReadOtherInv, PlainInv, BlockInv, UnblockInv, WriteInv,
     WriteOtherInv, CloseInv DEF Copy
<1>2. CASE UNCHANGED vars
  <2>1. cmd' = cmd /\ Records' = Records
    BY <1>2, SameCommand DEF vars
  <2> QED BY <1>2, <2>1
          DEF vars, IInv, TypeOK, SkipInv, ReadInv, InInv, OutInv, reader, writer, output
<1> QED BY <1>1, <1>2 DEF Next, Terminating

THEOREM Invariance == Spec => []IInv
<1> QED BY InitInv, NextInv, PTL DEF Spec

\* Every variable of dd keeps its type, for every legal command line.
THEOREM TypeCorrect == Spec => []TypeOK
<1>1. IInv => TypeOK
  BY DEF IInv
<1> QED BY <1>1, Invariance, PTL

\* No buffer of setup() is overrun, whatever the block and record sizes, the
\* conversions, the contents and the way reads and writes are cut short.
THEOREM BuffersNeverOverrun == Spec => []BufferBounds
<1>1. IInv => BufferBounds
  <2> SUFFICES ASSUME IInv PROVE BufferBounds
    OBVIOUS
  <2>1. Len(inbuf) <= cmd.cbs + cmd.ibs - 1
        => Len(inbuf) <= (IF cmd.ibs > cmd.cbs THEN cmd.ibs ELSE cmd.cbs) + cmd.cbs
    BY Sizes
  <2> QED BY <2>1, Sizes DEF IInv, InInv, OutInv, BufferBounds
<1> QED BY <1>1, Invariance, PTL

----------------------------------------------------------------------------
(***************************************************************************)
(* Concatenation.                                                          *)
(***************************************************************************)

LEMMA Concat ==
  ASSUME NEW B, NEW x \in Seq(B), NEW y \in Seq(B), NEW z, z = x \o y
  PROVE  /\ z \in Seq(B) /\ Len(z) = Len(x) + Len(y) /\ Len(x) \in Nat /\ Len(y) \in Nat
         /\ \A k \in 1 .. Len(x) : z[k] = x[k]
         /\ \A k \in 1 .. Len(y) : z[Len(x) + k] = y[k]
<1>1. Len(x) \in Nat /\ Len(y) \in Nat
  OBVIOUS
<1>2. z \in Seq(B) /\ Len(z) = Len(x) + Len(y)
  OBVIOUS
<1>3. \A k \in 1 .. Len(x) : z[k] = x[k]
  OBVIOUS
<1>4. \A k \in 1 .. Len(y) : z[Len(x) + k] = y[k]
  OBVIOUS
<1> QED BY <1>1, <1>2, <1>3, <1>4

LEMMA Assoc ==
  ASSUME NEW B, NEW x \in Seq(B), NEW y \in Seq(B), NEW z \in Seq(B),
         NEW p, p = x \o y, NEW q, q = y \o z
  PROVE  p \o z = x \o q
<1>1. PICK l, r : l = p \o z /\ r = x \o q
  OBVIOUS
<1>2. /\ p \in Seq(B) /\ Len(p) = Len(x) + Len(y) /\ Len(x) \in Nat /\ Len(y) \in Nat
      /\ \A k \in 1 .. Len(x) : p[k] = x[k]
      /\ \A k \in 1 .. Len(y) : p[Len(x) + k] = y[k]
  BY Concat
<1>3. /\ q \in Seq(B) /\ Len(q) = Len(y) + Len(z) /\ Len(z) \in Nat
      /\ \A k \in 1 .. Len(y) : q[k] = y[k]
      /\ \A k \in 1 .. Len(z) : q[Len(y) + k] = z[k]
  BY Concat
<1>4. /\ l \in Seq(B) /\ Len(l) = Len(p) + Len(z)
      /\ \A k \in 1 .. Len(p) : l[k] = p[k]
      /\ \A k \in 1 .. Len(z) : l[Len(p) + k] = z[k]
  BY <1>1, <1>2, Concat
<1>5. /\ r \in Seq(B) /\ Len(r) = Len(x) + Len(q)
      /\ \A k \in 1 .. Len(x) : r[k] = x[k]
      /\ \A k \in 1 .. Len(q) : r[Len(x) + k] = q[k]
  BY <1>1, <1>3, Concat
<1>6. Len(l) = Len(r)
  BY <1>2, <1>3, <1>4, <1>5
<1>7. ASSUME NEW k \in 1 .. Len(l) PROVE l[k] = r[k]
  <2>1. CASE k <= Len(x)
    BY <1>2, <1>4, <1>5, <2>1
  <2>2. CASE k > Len(x) /\ k <= Len(x) + Len(y)
    <3>1. PICK i \in 1 .. Len(y) : k = Len(x) + i
      <4>1. k - Len(x) \in 1 .. Len(y) /\ k = Len(x) + (k - Len(x))
        BY <1>2, <2>2
      <4> QED BY <4>1
    <3>2. k \in 1 .. Len(p) /\ i \in 1 .. Len(q)
      BY <1>2, <1>3, <2>2, <3>1
    <3>3. l[k] = y[i]
      BY <1>2, <1>4, <3>1, <3>2
    <3>4. r[k] = y[i]
      BY <1>3, <1>5, <3>1, <3>2
    <3> QED BY <3>3, <3>4
  <2>3. CASE k > Len(x) + Len(y)
    <3>1. PICK i \in 1 .. Len(z) : k = (Len(x) + Len(y)) + i
      <4>1. /\ k - (Len(x) + Len(y)) \in 1 .. Len(z)
            /\ k = (Len(x) + Len(y)) + (k - (Len(x) + Len(y)))
        BY <1>2, <1>3, <1>4, <2>3
      <4> QED BY <4>1
    <3>2. Len(y) + i \in 1 .. Len(q) /\ k = Len(x) + (Len(y) + i) /\ k = Len(p) + i
      BY <1>2, <1>3, <3>1
    <3>3. l[k] = z[i]
      BY <1>4, <3>2
    <3>4. r[k] = z[i]
      BY <1>3, <1>5, <3>2
    <3> QED BY <3>3, <3>4
  <2> QED BY <1>2, <1>3, <1>4, <2>1, <2>2, <2>3
<1>8. l = r
  BY <1>4, <1>5, <1>6, <1>7, SeqEqual, Zenon
<1> QED BY <1>1, <1>8

\* z is x and y.
Joined(x, y, z) == z = x \o y

LEMMA JoinAssoc ==
  ASSUME NEW x \in Seq(Bytes), NEW y \in Seq(Bytes), NEW z \in Seq(Bytes),
         NEW p, Joined(x, y, p), NEW q, Joined(y, z, q), NEW r, Joined(p, z, r)
  PROVE  Joined(x, q, r)
<1>1. PICK B : B = Bytes
  OBVIOUS
<1>2. x \in Seq(B) /\ y \in Seq(B) /\ z \in Seq(B) /\ p = x \o y /\ q = y \o z
  BY <1>1 DEF Joined
<1>3. p \o z = x \o q
  BY <1>2, Assoc
<1> QED BY <1>3 DEF Joined

LEMMA JoinedIs ==
  ASSUME NEW x \in Seq(Bytes), NEW y \in Seq(Bytes), NEW z \in Seq(Bytes), Len(z) = Len(x) + Len(y),
         \A k \in 1 .. Len(x) : z[k] = x[k],
         \A k \in 1 .. Len(y) : z[Len(x) + k] = y[k]
  PROVE  Joined(x, y, z)
<1>1. PICK B, w : B = Bytes /\ w = x \o y
  OBVIOUS
<1>2. x \in Seq(B) /\ y \in Seq(B) /\ z \in Seq(B)
  BY <1>1
<1>3. /\ w \in Seq(B) /\ Len(w) = Len(x) + Len(y) /\ Len(x) \in Nat /\ Len(y) \in Nat
      /\ \A k \in 1 .. Len(x) : w[k] = x[k]
      /\ \A k \in 1 .. Len(y) : w[Len(x) + k] = y[k]
  BY <1>1, <1>2, Concat
<1>4. ASSUME NEW k \in 1 .. Len(z) PROVE z[k] = w[k]
  <2>1. CASE k <= Len(x)
    <3>1. k \in 1 .. Len(x)
      BY <1>3, <2>1
    <3> QED BY <1>3, <3>1
  <2>2. CASE k > Len(x)
    <3>1. PICK j : j = k - Len(x)
      OBVIOUS
    <3>2. j \in 1 .. Len(y) /\ k = Len(x) + j
      BY <1>3, <2>2, <3>1
    <3> QED BY <1>3, <3>2
  <2> QED BY <1>3, <2>1, <2>2
<1>5. Len(z) = Len(w)
  BY <1>3
<1>6. z = w
  BY <1>2, <1>3, <1>4, <1>5, SeqEqual, Zenon
<1> QED BY <1>1, <1>6 DEF Joined

\* What joining gives, as facts.
JoinFacts(x, y, z) ==
  /\ z \in Seq(Bytes) /\ Len(z) = Len(x) + Len(y) /\ Len(x) \in Nat /\ Len(y) \in Nat
  /\ \A k \in 1 .. Len(x) : z[k] = x[k]
  /\ \A k \in 1 .. Len(y) : z[Len(x) + k] = y[k]

LEMMA JoinedFacts ==
  ASSUME NEW x \in Seq(Bytes), NEW y \in Seq(Bytes), NEW z, Joined(x, y, z)
  PROVE  JoinFacts(x, y, z)
<1>1. PICK B : B = Bytes
  OBVIOUS
<1>2. x \in Seq(B) /\ y \in Seq(B) /\ z = x \o y
  BY <1>1 DEF Joined
<1>3. /\ z \in Seq(B) /\ Len(z) = Len(x) + Len(y) /\ Len(x) \in Nat /\ Len(y) \in Nat
      /\ \A k \in 1 .. Len(x) : z[k] = x[k]
      /\ \A k \in 1 .. Len(y) : z[Len(x) + k] = y[k]
  BY <1>2, Concat
<1> QED BY <1>1, <1>3 DEF JoinFacts

\* x are the first k bytes of s, y the others.
Split(s, k, x, y) ==
  /\ x \in Seq(Bytes) /\ y \in Seq(Bytes) /\ Len(x) = k /\ Len(y) = Len(s) - k
  /\ \A i \in 1 .. k : x[i] = s[i]
  /\ \A i \in 1 .. Len(y) : y[i] = s[k + i]
  /\ Joined(x, y, s)

LEMMA SplitFacts ==
  ASSUME NEW s \in Seq(Bytes), NEW k \in Nat, k <= Len(s), NEW x, x = Take(s, k), NEW y, y = Drop(s, k)
  PROVE  Split(s, k, x, y)
<1>1. /\ x \in Seq(Bytes) /\ y \in Seq(Bytes) /\ Len(x) = k /\ Len(y) = Len(s) - k
      /\ Len(s) \in Nat
  <2>1. Len(s) \in Nat
    OBVIOUS
  <2>2. Take(s, k) \in Seq(Bytes) /\ Len(Take(s, k)) = k /\ Drop(s, k) \in Seq(Bytes)
        /\ Len(Drop(s, k)) = (IF k <= Len(s) THEN Len(s) - k ELSE 0)
    BY TakeDrop, Zenon
  <2> QED BY <2>1, <2>2
<1>2. \A i \in 1 .. k : x[i] = s[i]
  BY DEF Take
<1>3. \A i \in 1 .. Len(y) : y[i] = s[k + i]
  <2>1. PICK a, b : a = k + 1 /\ b = Len(s)
    OBVIOUS
  <2>2. a \in Nat /\ b \in Nat /\ y = SubSeq(s, a, b)
    BY <1>1, <2>1 DEF Drop
  <2>3. y = [i \in 1 .. (b - a) + 1 |-> s[(i + a) - 1]]
    BY <2>2
  <2>4. ASSUME NEW i \in 1 .. Len(y) PROVE y[i] = s[k + i]
    <3>1. i \in 1 .. (b - a) + 1 /\ (i + a) - 1 = k + i
      BY <1>1, <2>1
    <3>2. y[i] = s[(i + a) - 1]
      BY <2>3, <3>1
    <3> QED BY <3>1, <3>2
  <2> QED BY <2>4
<1>4. Joined(x, y, s)
  <2>1. Len(s) = Len(x) + Len(y)
    BY <1>1
  <2> QED BY <1>1, <1>2, <1>3, <2>1, JoinedIs
<1> QED BY <1>1, <1>2, <1>3, <1>4 DEF Split

LEMMA SplitAt ==
  ASSUME NEW s \in Seq(Bytes), NEW k \in Nat, k <= Len(s), NEW x, x = Take(s, k), NEW y, y = Drop(s, k)
  PROVE  /\ x \in Seq(Bytes) /\ y \in Seq(Bytes) /\ Len(x) = k /\ Len(y) = Len(s) - k
         /\ \A i \in 1 .. k : x[i] = s[i]
         /\ \A i \in 1 .. Len(y) : y[i] = s[k + i]
         /\ Joined(x, y, s)
<1>1. Split(s, k, x, y)
  BY SplitFacts
<1> QED BY <1>1 DEF Split

ByIndex(B, k, d) == d \in [1 .. k -> B]

LEMMA IndexedSeq ==
  ASSUME NEW B, NEW k \in Nat, NEW d, ByIndex(B, k, d)
  PROVE  d \in Seq(B) /\ Len(d) = k
<1>1. d \in [1 .. k -> B] /\ DOMAIN d = 1 .. k
  BY DEF ByIndex
<1>2. d \in Seq(B)
  BY <1>1, SeqDef, Zenon
<1>3. PICK l \in Nat : l = Len(d) /\ DOMAIN d = 1 .. l
  BY <1>2, LenProperties, Zenon
<1>4. 1 .. k = 1 .. l
  BY <1>1, <1>3
<1>5. k = l
  BY <1>4
<1> QED BY <1>2, <1>3, <1>5, Zenon

----------------------------------------------------------------------------
(***************************************************************************)
(* The statistics: what has been read, is held in the buffers, and has     *)
(* been written add up.                                                    *)
(***************************************************************************)

\* The command line, and what is computed from it alone.
LEMMA SameLine ==
  ASSUME cmd' = cmd
  PROVE  /\ Records' = Records /\ Base' = Base /\ ddflags' = ddflags
         /\ PadByte' = PadByte /\ HolesAreNUL' = HolesAreNUL /\ BadBlocks' = BadBlocks
         /\ Unbuffered' = Unbuffered /\ \A c : Has(c)' = Has(c)
  BY DEF Unbuffered, Records, Has, ddflags, Base, PadByte, HolesAreNUL, BadBlocks

Active == pc \in {"loop", "fill", "conv", "out", "close", "end"}

\* dd_close() has been called.
Closed == pc = "end" \/ (pc = "out" /\ back = "end") \/ Succeeded

\* Bytes behind the offset of seek=, with the hole that is not yet there.
Amount == IF pos - Base + pending > 0 THEN pos - Base + pending ELSE 0

\* Before the first read(), nothing is counted.
Untouched ==
  pc \in {"open", "skip", "seek"} =>
    /\ pos = 0 /\ pending = 0 /\ seek_offset = 0 /\ st = NoStats /\ ~intrunc
    /\ rbuf = <<>> /\ inbuf = <<>> /\ outbuf = <<>> /\ fed = <<>>

\* dd_close() takes what is left, and the last dd_out() all of it.
Emptied ==
  /\ Closed => inbuf = <<>> /\ rbuf = <<>>
  /\ pc = "out" /\ back = "end" => force
  /\ pc = "end" \/ Succeeded => outbuf = <<>> /\ pending = 0

\* What count= allows.
Allowed == IF cmd.cpy_cnt = -1 THEN 0 ELSE cmd.cpy_cnt

CountedIn ==
  /\ st.in_full * cmd.ibs + st.in_part <= Len(fed)
  /\ Len(fed) <= st.in_full * cmd.ibs + st.in_part * (cmd.ibs - 1)
  /\ Has("COUNT") => st.in_full + st.in_part <= Allowed
  /\ pc = "fill" => ~CountReached

CountedOut ==
  /\ Active \/ Succeeded => pos >= Base
  /\ st.bytes = Amount
  /\ st.out_full * cmd.obs <= st.bytes

\* Without records and padding, every byte read is in the output or in a buffer.
NoneLost == ~Records /\ ~Has("OSYNC") => st.bytes + Len(outbuf) + Len(inbuf) = Len(fed)

\* A block that goes out as it was read goes out at once.
Direct ==
  Unbuffered => /\ pc \notin {"out", "exit"} => outbuf = <<>>
                /\ pc = "out" => force

CountInv == Untouched /\ Emptied /\ Direct /\ CountedIn /\ CountedOut /\ NoneLost

\* The numbers the steps compute with: of the command line, of the statistics,
\* the sizes of the buffers, and the offsets.
LEMMA LineNumbers ==
  ASSUME IInv
  PROVE  cmd.ibs \in Nat /\ cmd.ibs > 0 /\ cmd.obs \in Nat /\ cmd.obs > 0 /\ cmd.cbs \in Nat /\ Base \in Nat
<1>1. cmd \in Command /\ Legal(cmd)
  BY DEF IInv, TypeOK
<1>2. /\ cmd.ibs \in Nat \ {0} /\ cmd.obs \in Nat \ {0} /\ cmd.cbs \in Nat
      /\ cmd.seek * cmd.obs \in Nat
  BY <1>1, CommandFacts
<1>3. Base \in Nat
  BY <1>2 DEF Base
<1> QED BY <1>2, <1>3

LEMMA StatNumbers ==
  ASSUME IInv
  PROVE  /\ st.in_full \in Nat /\ st.in_part \in Nat /\ st.out_full \in Nat
         /\ st.out_part \in Nat /\ st.trunc \in Nat /\ st.swab \in Nat /\ st.bytes \in Nat
<1>1. st \in [DOMAIN NoStats -> Nat]
  BY DEF IInv, TypeOK
<1> QED BY <1>1 DEF NoStats

LEMMA BufNumbers ==
  ASSUME IInv
  PROVE  Len(inbuf) \in Nat /\ Len(outbuf) \in Nat /\ Len(fed) \in Nat /\ Len(rbuf) \in Nat
<1>1. inbuf \in Seq(Bytes) /\ outbuf \in Seq(Bytes) /\ fed \in Seq(Bytes) /\ rbuf \in Seq(Bytes)
  BY DEF IInv, TypeOK
<1> QED BY <1>1

LEMMA Offsets ==
  ASSUME IInv
  PROVE  pos \in Nat /\ pending \in Nat /\ inpos \in Nat /\ cnt \in Nat /\ n \in Nat
  BY DEF IInv, TypeOK

LEMMA LenOf ==
  ASSUME NEW x \in Seq(Bytes), NEW y \in Seq(Bytes)
  PROVE  x \o y \in Seq(Bytes) /\ Len(x \o y) = Len(x) + Len(y)
  OBVIOUS

\* A read() returns k bytes m, and r is then what there is of the block.
Fetched(k, m, r) == m = SubSeq(cmd.src, inpos + 1, inpos + k) /\ r = rbuf \o m

ReadBlock(k, m, r) ==
  /\ pc \in {"loop", "fill"} /\ (pc = "fill" \/ ~CountReached)
  /\ k \in Nat /\ k \in Good /\ inpos + k <= Len(cmd.src)
  /\ m \in Seq(Bytes) /\ Len(m) = k /\ \A i \in 1 .. k : m[i] = cmd.src[inpos + i]
  /\ r \in Seq(Bytes) /\ Len(r) = Len(rbuf) + k /\ Len(r) <= cmd.ibs /\ r # <<>>
  /\ inpos' = inpos + k /\ UNCHANGED <<cmd, outbuf, writer, output, intrunc, code>>
  /\ IF Has("SYNC") THEN Accept(Padded(r, cmd.ibs))
     ELSE IF GoOn(r) THEN rbuf' = r /\ pc' = "fill" /\ UNCHANGED <<inbuf, st, fed>>
     ELSE Accept(r)

LEMMA ReadFacts ==
  ASSUME IInv, NEW k \in 1 .. cmd.ibs, ReadData(k),
         NEW m, NEW r, Fetched(k, m, r)
  PROVE  ReadBlock(k, m, r)
<1>0. cmd.ibs \in Nat /\ inpos \in Nat /\ k \in Nat /\ k > 0 /\ cmd.src \in Seq(Bytes) /\ rbuf \in Seq(Bytes)
  BY Facts
<1>1. k \in Good /\ pc \in {"loop", "fill"} /\ (pc = "fill" \/ ~CountReached)
  BY DEF ReadData, Returned, Reading
<1>2. k <= cmd.ibs - Len(rbuf) /\ inpos + k <= Len(cmd.src)
  <2>1. k \in 1 .. Wanted /\ \A i \in inpos .. inpos + k - 1 : i < Len(cmd.src)
    BY <1>1 DEF Good
  <2>2. inpos + k - 1 \in inpos .. inpos + k - 1
    BY <1>0
  <2>3. inpos + k - 1 < Len(cmd.src) /\ Len(cmd.src) \in Nat
    BY <1>0, <2>1, <2>2
  <2> QED BY <1>0, <2>1, <2>3 DEF Wanted
<1>3. m \in Seq(Bytes) /\ Len(m) = k
  BY <1>0, <1>2 DEF Fetched
<1>4. \A i \in 1 .. k : m[i] = cmd.src[inpos + i]
  BY <1>0, <1>2 DEF Fetched
<1>5. r \in Seq(Bytes) /\ Len(r) = Len(rbuf) + k
  BY <1>0, <1>3, LenOf DEF Fetched
<1>6. Len(r) <= cmd.ibs /\ r # <<>>
  <2>1. PICK a, b : a = Len(rbuf) /\ b = Len(r)
    OBVIOUS
  <2>2. a \in Nat /\ b = a + k /\ k <= cmd.ibs - a
    BY <1>0, <1>2, <1>5, <2>1
  <2>3. b <= cmd.ibs /\ b > 0
    <3> HIDE <2>1
    <3> QED BY <1>0, <2>2
  <2> QED BY <2>1, <2>3
<1>7. /\ inpos' = inpos + k /\ UNCHANGED <<cmd, outbuf, writer, output, intrunc, code>>
      /\ IF Has("SYNC") THEN Accept(Padded(r, cmd.ibs))
         ELSE IF GoOn(r) THEN rbuf' = r /\ pc' = "fill" /\ UNCHANGED <<inbuf, st, fed>>
         ELSE Accept(r)
  BY DEF ReadData, Fetched
<1> QED BY <1>0, <1>1, <1>2, <1>3, <1>4, <1>5, <1>6, <1>7 DEF ReadBlock

LEMMA CountLimit ==
  ASSUME IInv
  PROVE  /\ Allowed \in Nat
         /\ Has("COUNT") /\ ~CountReached => st.in_full + st.in_part < Allowed
<1>1. cmd \in Command /\ Legal(cmd)
  BY DEF IInv, TypeOK
<1>2. cmd.cpy_cnt \in Nat \cup {-1}
  BY <1>1, CommandFacts
<1>3. cmd.cpy_cnt # 0 <=> Has("COUNT")
  BY <1>1 DEF Legal, Has, ddflags
<1>4. CASE cmd.cpy_cnt = -1
  BY <1>4 DEF Allowed, CountReached
<1>5. CASE cmd.cpy_cnt # -1
  <2>1. PICK c : c = cmd.cpy_cnt
    OBVIOUS
  <2>2. c \in Nat /\ Allowed = c
    BY <1>2, <1>5, <2>1 DEF Allowed
  <2>3. ~CountReached => ~(c > 0 /\ st.in_full + st.in_part >= c)
    BY <2>1 DEF CountReached
  <2>4. Has("COUNT") => c > 0
    BY <1>3, <2>1, <2>2
  <2>5. st.in_full + st.in_part \in Nat
    BY StatNumbers
  <2> QED BY <2>2, <2>3, <2>4, <2>5
<1> QED BY <1>4, <1>5

LEMMA InitCount == Init => CountInv
<1> SUFFICES ASSUME Init PROVE CountInv
  OBVIOUS
<1>1. IInv
  BY InitInv
<1>2. st = NoStats /\ fed = <<>> /\ pos = 0 /\ pending = 0 /\ inbuf = <<>> /\ outbuf = <<>>
      /\ rbuf = <<>> /\ seek_offset = 0 /\ ~intrunc /\ pc = "open" /\ code = -1
  BY DEF Init
<1>3. st.bytes = 0 /\ st.out_full = 0 /\ st.in_full = 0 /\ st.in_part = 0
  BY <1>2 DEF NoStats
<1>4. Amount = 0 /\ 0 * cmd.ibs = 0 /\ 0 * cmd.obs = 0 /\ 0 * (cmd.ibs - 1) = 0
  <2>1. Base \in Nat /\ cmd.ibs \in Nat /\ cmd.obs \in Nat
    BY <1>1, LineNumbers
  <2>2. PICK i \in Nat : i = cmd.ibs
    BY <2>1
  <2>3. 0 * (i - 1) = 0
    OBVIOUS
  <2>4. 0 * cmd.ibs = 0 /\ 0 * cmd.obs = 0
    BY <2>1
  <2> QED BY <1>2, <2>1, <2>2, <2>3, <2>4 DEF Amount
<1>5. Untouched /\ Emptied /\ Direct
  BY <1>2 DEF Untouched, Emptied, Closed, Succeeded, Direct
<1>6. CountedIn
  <2>1. Len(fed) = 0 /\ pc # "fill"
    BY <1>2
  <2>2. 0 + 0 = 0 /\ 0 <= Allowed
    BY <1>1, CountLimit
  <2>3. st.in_full = 0 /\ st.in_part = 0
    BY <1>3
  <2> QED BY <1>4, <2>1, <2>2, <2>3 DEF CountedIn
<1>7. CountedOut
  BY <1>2, <1>3, <1>4 DEF CountedOut, Active, Succeeded
<1>8. NoneLost
  BY <1>2, <1>3 DEF NoneLost
<1> QED BY <1>5, <1>6, <1>7, <1>8 DEF CountInv

\* The steps of setup().
LEMMA SetupCount == IInv /\ CountInv /\ (Open \/ SkipRead \/ SkipEnd \/ Seek) => CountInv'
<1> SUFFICES ASSUME IInv, CountInv, Open \/ SkipRead \/ SkipEnd \/ Seek PROVE CountInv'
  OBVIOUS
<1>1. cmd' = cmd /\ pc \in {"open", "skip", "seek"}
  BY DEF Open, SkipRead, SkipEnd, Seek
<1>2. /\ pos = 0 /\ pending = 0 /\ seek_offset = 0 /\ st = NoStats /\ ~intrunc
      /\ rbuf = <<>> /\ inbuf = <<>> /\ outbuf = <<>> /\ fed = <<>>
  BY <1>1 DEF CountInv, Untouched
<1>3. /\ pending' = 0 /\ seek_offset' = 0 /\ st' = st /\ ~intrunc'
      /\ rbuf' = <<>> /\ inbuf' = <<>> /\ outbuf' = <<>> /\ fed' = <<>>
  BY <1>2 DEF Open, SkipRead, SkipEnd, Seek, reader, writer, output
<1>4. \/ pc' \in {"skip", "seek"} /\ pos' = 0
      \/ pc' = "exit" /\ code' = 1 /\ pos' = 0
      \/ pc' = "loop" /\ pos' = cmd.seek * cmd.obs /\ ~(cmd.outpipe /\ cmd.seek > 0)
  BY <1>2 DEF Open, SkipRead, SkipEnd, Seek, reader, writer, output, Exit
<1>5. Records' = Records /\ Base' = Base /\ (\A c : Has(c)' = Has(c))
  BY <1>1, SameLine
<1>6. Untouched' /\ Emptied' /\ Direct'
  BY <1>2, <1>3, <1>4 DEF Untouched, Emptied, Closed, Succeeded, Direct
<1>7. CountedIn'
  BY <1>1, <1>2, <1>3, <1>4, <1>5 DEF CountInv, CountedIn, Allowed
<1>8. st.bytes = 0
  BY <1>2 DEF NoStats
<1>9. Amount' = 0 /\ (Active' => pos' >= Base) /\ ~Succeeded'
  <2>1. CASE pos' = 0 /\ pc' \in {"skip", "seek", "exit"} /\ (pc' = "exit" => code' = 1)
    BY <1>1, <1>3, <1>5, <2>1, LineNumbers, Offsets DEF Amount, Active, Succeeded
  <2>2. CASE pc' = "loop" /\ pos' = cmd.seek * cmd.obs /\ ~(cmd.outpipe /\ cmd.seek > 0)
    <3>1. pos' = Base
      <4>1. CASE cmd.outpipe
        <5>1. cmd.seek \in Nat /\ cmd.obs \in Nat
          BY DEF IInv, TypeOK, Command
        <5>2. cmd.seek = 0 /\ 0 * cmd.obs = 0
          BY <2>2, <4>1, <5>1
        <5> QED BY <2>2, <4>1, <5>2 DEF Base
      <4>2. CASE ~cmd.outpipe
        BY <2>2, <4>2 DEF Base
      <4> QED BY <4>1, <4>2
    <3> QED BY <1>3, <1>5, <2>2, <3>1, LineNumbers, Offsets DEF Amount, Active, Succeeded
  <2> QED BY <1>4, <2>1, <2>2
<1>10. CountedOut'
  <2>1. st.out_full * cmd.obs <= st.bytes
    BY DEF CountInv, CountedOut
  <2> QED BY <1>1, <1>3, <1>5, <1>8, <1>9, <2>1 DEF CountedOut
<1>11. NoneLost'
  BY <1>2, <1>3, <1>5 DEF CountInv, NoneLost
<1> QED BY <1>6, <1>7, <1>10, <1>11 DEF CountInv

\* A step inside the copy that moves no byte and counts nothing.
LEMMA SameCount ==
  ASSUME IInv, CountInv, Active, UNCHANGED <<cmd, outbuf, st, fed, pos, pending>>,
         Records \/ inbuf' = inbuf,
         pc = "out" => pc' = "exit",
         \/ pc' \in {"loop", "conv", "close"}
         \/ pc' = "fill" /\ ~CountReached
         \/ pc' = "exit" /\ code' # 0
  PROVE  CountInv'
<1>1. Records' = Records /\ Base' = Base /\ (\A c : Has(c)' = Has(c))
  BY SameLine
<1>2. Untouched' /\ Emptied' /\ Direct'
  <2>1. Unbuffered' = Unbuffered
    BY SameLine
  <2>2. Direct'
    BY <2>1 DEF CountInv, Direct, Active
  <2> QED BY <2>2 DEF Untouched, Emptied, Closed, Succeeded
<1>3. CountedIn'
  <2>1. Allowed' = Allowed /\ CountReached' = CountReached
    BY DEF Allowed, CountReached
  <2> QED BY <1>1, <2>1 DEF CountInv, CountedIn
<1>4. CountedOut'
  <2>1. Amount' = Amount
    BY <1>1 DEF Amount
  <2> QED BY <1>1, <2>1 DEF CountInv, CountedOut, Succeeded
<1>5. NoneLost'
  BY <1>1 DEF CountInv, NoneLost
<1> QED BY <1>2, <1>3, <1>4, <1>5 DEF CountInv

\* A block of at most ibs bytes is accepted while count= is not reached.
LEMMA AcceptCount ==
  ASSUME IInv, CountInv, pc \in {"loop", "fill"}, ~CountReached,
         NEW r \in Seq(Bytes), Len(r) <= cmd.ibs, r # <<>>,
         Accept(r), UNCHANGED <<cmd, outbuf, writer, output, intrunc, code>>
  PROVE  CountInv'
<1> DEFINE r2 == IF Has("SWAB") THEN Swapped(r) ELSE r
           r3 == IF Has("BLOCK") THEN r2 ELSE Translate(r2)
<1>1. r2 \in Seq(Bytes) /\ Len(r2) = Len(r)
  BY SwappedLen
<1>2. r3 \in Seq(Bytes) /\ Len(r3) = Len(r)
  BY <1>1, TranslateLen
<1>3. /\ inbuf' = inbuf \o r3 /\ fed' = fed \o r2 /\ rbuf' = <<>> /\ pc' = "conv"
      /\ st' = [st EXCEPT !.in_full = IF Len(r) = cmd.ibs THEN @ + 1 ELSE @,
                          !.in_part = IF Len(r) = cmd.ibs THEN @ ELSE @ + 1,
                          !.swab = IF Has("SWAB") /\ Len(r) % 2 = 1 THEN @ + 1 ELSE @]
  BY DEF Accept
<1> HIDE DEF r2, r3
<1>4. Len(inbuf') = Len(inbuf) + Len(r) /\ Len(fed') = Len(fed) + Len(r)
  <2>1. inbuf \in Seq(Bytes) /\ fed \in Seq(Bytes)
    BY DEF IInv, TypeOK
  <2>2. Len(inbuf') = Len(inbuf) + Len(r3)
    BY <1>2, <1>3, <2>1, LenOf
  <2>3. Len(fed') = Len(fed) + Len(r2)
    BY <1>1, <1>3, <2>1, LenOf
  <2> QED BY <1>1, <1>2, <2>2, <2>3
<1>5. st \in [DOMAIN NoStats -> Nat]
  BY DEF IInv, TypeOK
<1>6. /\ st'.in_full = (IF Len(r) = cmd.ibs THEN st.in_full + 1 ELSE st.in_full)
      /\ st'.in_part = (IF Len(r) = cmd.ibs THEN st.in_part ELSE st.in_part + 1)
      /\ st'.bytes = st.bytes /\ st'.out_full = st.out_full
  BY <1>3, <1>5 DEF NoStats
<1>7. /\ cmd' = cmd /\ outbuf' = outbuf /\ pos' = pos /\ pending' = pending
  BY DEF writer, output
<1>8. Records' = Records /\ Base' = Base /\ (\A c : Has(c)' = Has(c))
  BY <1>7, SameLine
<1>9. Untouched' /\ Emptied' /\ Direct'
  <2>1. Unbuffered' = Unbuffered
    BY <1>7, SameLine
  <2> QED BY <1>3, <1>7, <2>1 DEF CountInv, Untouched, Emptied, Closed, Succeeded, Direct
<1>10. CountedIn'
  <2>1. PICK f, p, i : f = st.in_full /\ p = st.in_part /\ i = cmd.ibs
    OBVIOUS
  <2>2. f \in Nat /\ p \in Nat /\ i \in Nat /\ Len(r) \in Nat /\ Len(r) <= i /\ Len(fed) \in Nat
    BY <2>1, LineNumbers, StatNumbers, BufNumbers
  <2>3. f * i + p <= Len(fed) /\ Len(fed) <= f * i + p * (i - 1)
    BY <2>1 DEF CountInv, CountedIn
  <2>4. /\ (f + 1) * i = f * i + i /\ f * i \in Nat
        /\ (p + 1) * (i - 1) = p * (i - 1) + (i - 1) /\ p * (i - 1) \in Int
    BY <2>2
  <2>5. Len(r) > 0
    OBVIOUS
  <2>6. /\ st'.in_full * i + st'.in_part <= Len(fed')
        /\ Len(fed') <= st'.in_full * i + st'.in_part * (i - 1)
    <3>1. CASE Len(r) = i
      <4>1. st'.in_full = f + 1 /\ st'.in_part = p
        BY <1>6, <2>1, <3>1
      <4> QED BY <1>4, <2>2, <2>3, <2>4, <3>1, <4>1
    <3>2. CASE Len(r) # i
      <4>1. st'.in_full = f /\ st'.in_part = p + 1
        BY <1>6, <2>1, <3>2
      <4> QED BY <1>4, <2>2, <2>3, <2>4, <2>5, <3>2, <4>1
    <3> QED BY <3>1, <3>2
  <2>7. st'.in_full + st'.in_part = f + p + 1
    BY <1>6, <2>1, <2>2
  <2>8. Has("COUNT") => f + p < Allowed
    BY <2>1, CountLimit
  <2>9. Has("COUNT") => f + p + 1 <= Allowed
    BY <2>2, <2>8, CountLimit
  <2>10. Allowed' = Allowed
    BY <1>7 DEF Allowed
  <2> QED BY <1>3, <1>7, <1>8, <2>1, <2>6, <2>7, <2>9, <2>10 DEF CountedIn
<1>11. CountedOut'
  <2>1. Active /\ (Active => pos >= Base) /\ st.bytes = Amount /\ st.out_full * cmd.obs <= st.bytes
    BY DEF CountInv, CountedOut, Active
  <2>2. Amount' = Amount
    BY <1>7, <1>8 DEF Amount
  <2> QED BY <1>6, <1>7, <1>8, <2>1, <2>2 DEF CountedOut
<1>12. NoneLost'
  <2> SUFFICES ASSUME ~Records', ~Has("OSYNC")'
               PROVE  st'.bytes + Len(outbuf') + Len(inbuf') = Len(fed')
    BY DEF NoneLost
  <2>1. ~Records /\ ~Has("OSYNC")
    BY <1>8
  <2>2. st.bytes + Len(outbuf) + Len(inbuf) = Len(fed)
    BY <2>1 DEF CountInv, NoneLost
  <2>3. st'.bytes = st.bytes /\ outbuf' = outbuf /\ Len(r) \in Nat
    BY <1>6, <1>7
  <2>4. PICK a, b, c, d : a = st.bytes /\ b = Len(outbuf) /\ c = Len(inbuf) /\ d = Len(r)
    OBVIOUS
  <2>5. a \in Nat /\ b \in Nat /\ c \in Nat /\ d \in Nat
    BY <2>3, <2>4, BufNumbers, StatNumbers
  <2>6. a + b + (c + d) = (a + b + c) + d
    BY <2>5
  <2> QED BY <1>4, <2>2, <2>3, <2>4, <2>6
<1> QED BY <1>9, <1>10, <1>11, <1>12 DEF CountInv

LEMMA ReadDataCount == IInv /\ CountInv /\ (\E k \in 1 .. cmd.ibs : ReadData(k)) => CountInv'
<1> SUFFICES ASSUME IInv, CountInv, NEW k \in 1 .. cmd.ibs, ReadData(k) PROVE CountInv'
  OBVIOUS
<1>1. PICK m, r : Fetched(k, m, r)
  BY DEF Fetched
<1>2. /\ pc \in {"loop", "fill"} /\ (pc = "fill" \/ ~CountReached)
      /\ r \in Seq(Bytes) /\ Len(r) <= cmd.ibs /\ r # <<>>
      /\ UNCHANGED <<cmd, outbuf, writer, output, intrunc, code>>
      /\ IF Has("SYNC") THEN Accept(Padded(r, cmd.ibs))
         ELSE IF GoOn(r) THEN rbuf' = r /\ pc' = "fill" /\ UNCHANGED <<inbuf, st, fed>>
         ELSE Accept(r)
  BY <1>1, ReadFacts, Zenon DEF ReadBlock
<1>3. ~CountReached
  BY <1>2 DEF CountInv, CountedIn
<1>4. CASE Has("SYNC")
  <2>1. PICK p : p = Padded(r, cmd.ibs)
    OBVIOUS
  <2>2. p \in Seq(Bytes) /\ Len(p) <= cmd.ibs /\ p # <<>>
    <3>1. cmd \in Command /\ Legal(cmd) /\ cmd.ibs \in Nat /\ cmd.ibs > 0
      BY Facts
    <3>2. p \in Seq(Bytes) /\ Len(p) = (IF cmd.ibs > Len(r) THEN cmd.ibs ELSE Len(r))
      BY <1>2, <2>1, <3>1, PaddedLen
    <3>3. Len(r) \in Nat
      BY <1>2
    <3> QED BY <1>2, <3>1, <3>2, <3>3
  <2>3. Accept(p)
    BY <1>2, <1>4, <2>1
  <2> QED BY <1>2, <1>3, <2>2, <2>3, AcceptCount
<1>5. CASE ~Has("SYNC") /\ ~GoOn(r)
  BY <1>2, <1>3, <1>5, AcceptCount
<1>6. CASE ~Has("SYNC") /\ GoOn(r)
  <2>1. /\ pc' = "fill" /\ UNCHANGED <<cmd, inbuf, outbuf, st, fed, pos, pending>>
    BY <1>2, <1>6 DEF writer, output
  <2>2. Active
    BY <1>2 DEF Active
  <2> QED BY <1>2, <1>3, <2>1, <2>2, SameCount
<1> QED BY <1>4, <1>5, <1>6

LEMMA ReadOtherCount == IInv /\ CountInv /\ (Limit \/ ReadEnd \/ ReadError) => CountInv'
<1> SUFFICES ASSUME IInv, CountInv, Limit \/ ReadEnd \/ ReadError PROVE CountInv'
  OBVIOUS
<1>1. CASE Limit
  <2>1. pc = "loop" /\ pc' = "close" /\ UNCHANGED <<cmd, inbuf, outbuf, st, fed, pos, pending>>
    BY <1>1 DEF Limit, writer, output
  <2>2. Active
    BY <2>1 DEF Active
  <2> QED BY <2>1, <2>2, SameCount
<1>2. CASE (ReadEnd \/ ReadError) /\ UNCHANGED <<inbuf, st, fed>>
  <2>1. pc \in {"loop", "fill"} /\ UNCHANGED <<cmd, inbuf, outbuf, st, fed, pos, pending>>
    BY <1>2 DEF ReadEnd, ReadError, Reading, writer, output
  <2>2. pc' \in {"close", "loop", "conv"} \/ (pc' = "exit" /\ code' = 1)
    BY <1>2 DEF ReadEnd, ReadError, Accept, Exit
  <2>3. Active
    BY <2>1 DEF Active
  <2> QED BY <2>1, <2>2, <2>3, SameCount
<1>3. CASE (ReadEnd \/ ReadError) /\ ~UNCHANGED <<inbuf, st, fed>>
  <2>1. /\ pc \in {"loop", "fill"} /\ (pc = "fill" \/ ~CountReached)
        /\ UNCHANGED <<cmd, outbuf, writer, output, intrunc, code>>
        /\ \/ rbuf # <<>> /\ Accept(rbuf)
           \/ Accept(Fill(PadByte, cmd.ibs))
    BY <1>3 DEF ReadEnd, ReadError, Reading
  <2>2. ~CountReached
    BY <2>1 DEF CountInv, CountedIn
  <2>3. PICK r : Accept(r) /\ ((r = rbuf /\ rbuf # <<>>) \/ r = Fill(PadByte, cmd.ibs))
    BY <2>1
  <2>4. r \in Seq(Bytes) /\ Len(r) <= cmd.ibs /\ r # <<>>
    <3>1. PadByte \in Bytes /\ cmd.ibs \in Nat /\ cmd.ibs > 0 /\ rbuf \in Seq(Bytes)
      BY Facts
    <3>2. CASE r = rbuf /\ rbuf # <<>>
      <4>1. pc = "fill"
        BY <2>1, <3>2 DEF IInv, ReadInv
      <4>2. Len(rbuf) < cmd.ibs
        BY <4>1 DEF IInv, ReadInv
      <4>3. Len(rbuf) \in Nat
        BY <3>1
      <4> QED BY <3>1, <3>2, <4>2, <4>3
    <3>3. CASE r = Fill(PadByte, cmd.ibs)
      <4>1. r \in Seq(Bytes) /\ Len(r) = (IF cmd.ibs > 0 THEN cmd.ibs ELSE 0)
        BY <3>1, <3>3, FillLen
      <4> QED BY <3>1, <4>1
    <3> QED BY <2>3, <3>2, <3>3
  <2> QED BY <2>1, <2>2, <2>3, <2>4, AcceptCount
<1> QED BY <1>1, <1>2, <1>3

\* A piece is converted; without records it is all there is.
LEMMA EmitCount ==
  ASSUME IInv, CountInv, pc = "conv", ~Unbuffered,
         NEW s \in Seq(Bytes), NEW rest, NEW k \in {"loop", "conv"}, Emit(s, rest, k),
         UNCHANGED <<cmd, fed, pos>>, ~Records => s = inbuf /\ rest = <<>>,
         st'.in_full = st.in_full, st'.in_part = st.in_part,
         st'.out_full = st.out_full, st'.bytes = st.bytes
  PROVE  CountInv'
<1>1. /\ Records' = Records /\ Base' = Base /\ Unbuffered' = Unbuffered
      /\ (\A c : Has(c)' = Has(c))
  BY SameLine
<1>2. /\ outbuf' = outbuf \o s /\ inbuf' = rest /\ pending' = pending
      /\ pc' = k \/ (pc' = "out" /\ back' = k)
  BY DEF Emit, StartOut, writer
<1>3. Untouched' /\ Emptied' /\ Direct'
  BY <1>1, <1>2 DEF Untouched, Emptied, Closed, Succeeded, Direct
<1>4. CountedIn'
  <2>1. Allowed' = Allowed
    BY DEF Allowed
  <2> QED BY <1>1, <1>2, <2>1 DEF CountInv, CountedIn
<1>5. CountedOut'
  <2>1. Active /\ Amount' = Amount
    BY <1>1, <1>2 DEF Amount, Active
  <2> QED BY <1>1, <2>1 DEF CountInv, CountedOut
<1>6. NoneLost'
  <2> SUFFICES ASSUME ~Records, ~Has("OSYNC")
               PROVE  st'.bytes + Len(outbuf') + Len(inbuf') = Len(fed')
    BY <1>1 DEF NoneLost
  <2>1. st.bytes + Len(outbuf) + Len(inbuf) = Len(fed)
    BY DEF CountInv, NoneLost
  <2>2. Len(outbuf') = Len(outbuf) + Len(inbuf) /\ Len(inbuf') = 0
    <3>1. outbuf \in Seq(Bytes) /\ outbuf' = outbuf \o s /\ s = inbuf /\ inbuf' = <<>>
      BY <1>2, Facts
    <3> QED BY <3>1, LenOf
  <2>3. PICK a, b, c : a = st.bytes /\ b = Len(outbuf) /\ c = Len(inbuf)
    OBVIOUS
  <2>4. a \in Nat /\ b \in Nat /\ c \in Nat
    BY <2>3, BufNumbers, StatNumbers
  <2>5. a + (b + c) + 0 = a + b + c
    BY <2>4
  <2> QED BY <2>1, <2>2, <2>3, <2>5
<1> QED BY <1>3, <1>4, <1>5, <1>6 DEF CountInv

LEMMA ConvertCount ==
  IInv /\ CountInv /\ (ConvertNone \/ Def \/ BlockToss \/ BlockShort \/ BlockRecord
                        \/ UnblockRecord \/ UnblockShort) => CountInv'
<1> SUFFICES ASSUME IInv, CountInv,
                    ConvertNone \/ Def \/ BlockToss \/ BlockShort \/ BlockRecord
                      \/ UnblockRecord \/ UnblockShort
             PROVE  CountInv'
  OBVIOUS
<1>0. /\ inbuf \in Seq(Bytes) /\ cmd.cbs \in Nat
      /\ (Records => ~Unbuffered) /\ cmd \in Command /\ Legal(cmd)
  BY Facts
<1>1. CASE ConvertNone
  <2>1. /\ Unbuffered /\ pc = "conv" /\ outbuf' = inbuf /\ inbuf' = <<>> /\ pc' = "out" /\ force'
        /\ back' = "loop" /\ UNCHANGED <<cmd, st, fed, pos, pending>>
    BY <1>1 DEF ConvertNone, StartOut, output
  <2>2. outbuf = <<>>
    BY <2>1 DEF CountInv, Direct
  <2>3. Records' = Records /\ Base' = Base /\ Unbuffered' = Unbuffered /\ (\A c : Has(c)' = Has(c))
    BY <2>1, SameLine
  <2>4. Untouched' /\ Emptied' /\ Direct'
    BY <2>1 DEF Untouched, Emptied, Closed, Succeeded, Direct
  <2>5. CountedIn'
    <3>1. Allowed' = Allowed
      BY <2>1 DEF Allowed
    <3> QED BY <2>1, <2>3, <3>1 DEF CountInv, CountedIn
  <2>6. CountedOut'
    <3>1. Active /\ Amount' = Amount
      BY <2>1, <2>3 DEF Amount, Active
    <3> QED BY <2>1, <2>3, <3>1 DEF CountInv, CountedOut
  <2>7. NoneLost'
    <3>1. PICK a, c : a = st.bytes /\ c = Len(inbuf)
      OBVIOUS
    <3>2. a \in Nat /\ c \in Nat
      BY <3>1, BufNumbers, StatNumbers
    <3>3. a + 0 + c = a + c + 0 /\ Len(<<>>) = 0
      BY <3>2
    <3> QED BY <2>1, <2>2, <2>3, <3>1, <3>3 DEF CountInv, NoneLost
  <2> QED BY <2>4, <2>5, <2>6, <2>7 DEF CountInv
<1>2. CASE Def
  <2>1. /\ pc = "conv" /\ ~Unbuffered /\ ~Records /\ Emit(inbuf, <<>>, "loop")
        /\ UNCHANGED <<cmd, fed, pos, st>>
    BY <1>2 DEF Def, output
  <2> QED BY <1>0, <2>1, EmitCount
<1>3. CASE BlockToss \/ BlockShort \/ UnblockShort
  <2>1. /\ Records /\ pc = "conv" /\ pc' \in {"loop", "conv"}
        /\ UNCHANGED <<cmd, outbuf, st, fed, pos, pending>>
    BY <1>3 DEF BlockToss, BlockShort, UnblockShort, Records, writer, output
  <2>2. Active
    BY <2>1 DEF Active
  <2> QED BY <2>1, <2>2, SameCount
<1>4. CASE BlockRecord
  <2>1. PICK len, s, rest :
          /\ len = Smaller(NewlineIn(inbuf) - 1, cmd.cbs)
          /\ s = Translate(Padded(Take(inbuf, len), cmd.cbs)) /\ rest = Drop(inbuf, NewlineIn(inbuf))
    OBVIOUS
  <2>2. /\ Records /\ pc = "conv" /\ Emit(s, rest, "conv") /\ UNCHANGED <<cmd, fed, pos>>
        /\ \E t : st' = [st EXCEPT !.trunc = t]
        /\ Len(inbuf) >= cmd.cbs \/ Contains(inbuf, NL)
    BY <1>4, <2>1 DEF BlockRecord, Records, output
  <2>3. s \in Seq(Bytes)
    <3>1. NewlineIn(inbuf) \in 1 .. Len(inbuf) + 1 /\ Len(inbuf) \in Nat
      BY <1>0, NewlineRange
    <3>2. len \in Nat /\ len <= Len(inbuf)
      BY <1>0, <2>1, <3>1 DEF Smaller
    <3>3. Take(inbuf, len) \in Seq(Bytes)
      BY <1>0, <3>2, TakeDrop
    <3>4. Padded(Take(inbuf, len), cmd.cbs) \in Seq(Bytes)
      BY <1>0, <3>3, PaddedLen
    <3> QED BY <2>1, <3>4, TranslateLen
  <2>4. /\ st'.in_full = st.in_full /\ st'.in_part = st.in_part
        /\ st'.out_full = st.out_full /\ st'.bytes = st.bytes
    <3>1. st \in [DOMAIN NoStats -> Nat]
      BY DEF IInv, TypeOK
    <3> QED BY <2>2, <3>1 DEF NoStats
  <2> QED BY <1>0, <2>2, <2>3, <2>4, EmitCount
<1>5. CASE UnblockRecord
  <2>1. PICK s, rest : s = Append(Stripped(Take(inbuf, cmd.cbs)), NL) /\ rest = Drop(inbuf, cmd.cbs)
    OBVIOUS
  <2>2. /\ Records /\ pc = "conv" /\ Emit(s, rest, "conv") /\ UNCHANGED <<cmd, fed, pos, st>>
        /\ Len(inbuf) >= cmd.cbs
    BY <1>5, <2>1 DEF UnblockRecord, Records, output
  <2>3. s \in Seq(Bytes)
    <3>1. Take(inbuf, cmd.cbs) \in Seq(Bytes)
      BY <1>0, <2>2, TakeDrop
    <3>2. Stripped(Take(inbuf, cmd.cbs)) \in Seq(Bytes) /\ NL \in Bytes
      BY <3>1, StrippedLen DEF Bytes
    <3> QED BY <2>1, <3>2
  <2> QED BY <1>0, <2>2, <2>3, EmitCount
<1> QED BY <1>1, <1>2, <1>3, <1>4, <1>5

\* nw bytes leave the buffer, for the file or for a hole.
LEMMA AdvanceCount ==
  ASSUME IInv, CountInv, pc = "out", NEW nw \in Nat, nw <= cnt, NEW seeked, Advance(nw, seeked),
         pos' \in Nat, pending' \in Nat, pos' >= pos, pos' + pending' = pos + pending + nw,
         force => pending' = 0
  PROVE  CountInv'
<1>1. cmd' = cmd /\ UNCHANGED <<inbuf, rbuf, force, back, fed, code>>
  BY DEF Advance, reader
<1>2. /\ Records' = Records /\ Base' = Base /\ Unbuffered' = Unbuffered
      /\ (\A c : Has(c)' = Has(c))
  BY <1>1, SameLine
<1>3. nw <= Len(outbuf) /\ (force => cnt = Len(outbuf)) /\ (~force => n = cmd.obs)
  BY Sizes DEF IInv, OutInv
<1>4. outbuf' \in Seq(Bytes) /\ Len(outbuf') = Len(outbuf) - nw
  <2>1. outbuf \in Seq(Bytes) /\ outbuf' = Drop(outbuf, nw)
    BY Facts DEF Advance
  <2> QED BY <1>3, <2>1, TakeDrop
<1>5. /\ st'.bytes = st.bytes + nw
      /\ st'.in_full = st.in_full /\ st'.in_part = st.in_part
      /\ \/ st'.out_full = st.out_full
         \/ st'.out_full = st.out_full + 1 /\ nw = cmd.obs
  <2>1. st \in [DOMAIN NoStats -> Nat]
    BY DEF IInv, TypeOK
  <2>2. st' = [st EXCEPT !.bytes = @ + nw,
                         !.out_full = IF nw = n /\ n = cmd.obs THEN @ + 1 ELSE @,
                         !.out_part = IF nw = n /\ n = cmd.obs THEN @ ELSE @ + 1]
    BY DEF Advance, Counted
  <2> QED BY <2>1, <2>2 DEF NoStats
<1>6. \/ pc' = "out" /\ nw < cnt
      \/ nw = cnt /\ pc' = (IF Due(outbuf') THEN "out" ELSE back)
  BY Sizes DEF Advance
<1>7. back \in {"loop", "conv", "end"}
  BY DEF IInv, TypeOK
<1>8. nw = cnt /\ force => outbuf' = <<>> /\ ~Due(outbuf')
  <2>1. nw = cnt /\ force => Len(outbuf') = 0
    BY <1>3, <1>4, BufNumbers
  <2>2. cmd.obs > 0 /\ cmd.obs \in Nat /\ cmd' = cmd
    BY <1>1, LineNumbers
  <2> QED BY <1>4, <2>1, <2>2 DEF Due
<1>9. Emptied
  BY DEF CountInv
<1>10. (back = "end" => force /\ inbuf = <<>> /\ rbuf = <<>>)
  BY <1>9 DEF Emptied, Closed
<1>11. Untouched' /\ Emptied'
  BY <1>1, <1>6, <1>7, <1>8, <1>10 DEF Untouched, Emptied, Closed, Succeeded
<1>12. Direct'
  BY <1>1, <1>2, <1>6, <1>8 DEF CountInv, Direct
<1>13. CountedIn'
  <2>1. Allowed' = Allowed
    BY <1>1 DEF Allowed
  <2>2. pc' # "fill"
    BY <1>6, <1>7
  <2> QED BY <1>1, <1>2, <1>5, <2>1, <2>2 DEF CountInv, CountedIn
<1>14. pos >= Base /\ st.bytes = pos - Base + pending /\ st.out_full * cmd.obs <= st.bytes
  <2>1. pos >= Base /\ st.bytes = Amount /\ st.out_full * cmd.obs <= st.bytes
    BY DEF CountInv, CountedOut, Active
  <2>2. pos - Base \in Nat /\ pos - Base + pending \in Nat
    BY <2>1, LineNumbers, Offsets
  <2> QED BY <2>1, <2>2 DEF Amount
<1>15. pos' >= Base /\ Amount' = st.bytes + nw
  <2>1. PICK B, p, q, p2, q2 : B = Base /\ p = pos /\ q = pending /\ p2 = pos' /\ q2 = pending'
    OBVIOUS
  <2>2. /\ B \in Nat /\ p \in Nat /\ q \in Nat /\ p2 \in Nat /\ q2 \in Nat
        /\ p >= B /\ p2 >= p /\ p2 + q2 = p + q + nw
    BY <1>14, <2>1, LineNumbers, Offsets
  <2>3. p2 >= B /\ p2 - B + q2 = p - B + q + nw /\ p - B + q + nw \in Nat
    BY <2>2
  <2> QED BY <1>2, <1>14, <2>1, <2>3 DEF Amount
<1>16. CountedOut'
  <2>1. PICK f, o, b : f = st.out_full /\ o = cmd.obs /\ b = st.bytes
    OBVIOUS
  <2>2. f \in Nat /\ o \in Nat /\ b \in Nat
    BY <2>1, LineNumbers, StatNumbers
  <2>3. f * o \in Nat /\ (f + 1) * o = f * o + o /\ f * o <= b
    BY <1>14, <2>1, <2>2
  <2>4. st'.out_full * o <= b + nw
    <3>1. PICK w : w = f * o
      OBVIOUS
    <3>2. CASE st'.out_full = f
      <4>1. w <= b + nw
        BY <2>2, <2>3, <3>1
      <4> QED BY <3>1, <3>2, <4>1
    <3>3. CASE st'.out_full = f + 1 /\ nw = o
      <4>1. w + o <= b + nw
        BY <2>2, <2>3, <3>1, <3>3
      <4> QED BY <2>3, <3>1, <3>3, <4>1
    <3> QED BY <1>5, <2>1, <3>2, <3>3
  <2> QED BY <1>1, <1>2, <1>5, <1>15, <2>1, <2>4 DEF CountedOut
<1>17. NoneLost'
  <2> SUFFICES ASSUME ~Records, ~Has("OSYNC")
               PROVE  st'.bytes + Len(outbuf') + Len(inbuf') = Len(fed')
    BY <1>2 DEF NoneLost
  <2>1. st.bytes + Len(outbuf) + Len(inbuf) = Len(fed)
    BY DEF CountInv, NoneLost
  <2>2. PICK a, b, c : a = st.bytes /\ b = Len(outbuf) /\ c = Len(inbuf)
    OBVIOUS
  <2>3. a \in Nat /\ b \in Nat /\ c \in Nat
    BY <2>2, BufNumbers, StatNumbers
  <2>4. (a + nw) + (b - nw) + c = a + b + c
    BY <2>3
  <2> QED BY <1>1, <1>4, <1>5, <2>1, <2>2, <2>4
<1> QED BY <1>11, <1>12, <1>13, <1>16, <1>17 DEF CountInv

LEMMA WriteCount ==
  IInv /\ CountInv /\ (WriteHole \/ (\E nw \in 1 .. cnt : WriteData(nw)) \/ WriteNothing \/ WriteFails)
    => CountInv'
<1> SUFFICES ASSUME IInv, CountInv,
                    WriteHole \/ (\E nw \in 1 .. cnt : WriteData(nw)) \/ WriteNothing \/ WriteFails
             PROVE  CountInv'
  OBVIOUS
<1>1. CASE WriteHole
  <2>1. /\ pc = "out" /\ ~force /\ pos' = pos /\ pending' = pending + cnt /\ Advance(cnt, seek_offset)
    BY <1>1 DEF WriteHole, output
  <2>2. /\ pos' \in Nat /\ pending' \in Nat /\ pos' >= pos /\ pos' + pending' = pos + pending + cnt
        /\ cnt \in Nat /\ cnt <= cnt
    BY <2>1, Offsets
  <2> QED BY <2>1, <2>2, AdvanceCount
<1>2. ASSUME NEW nw \in 1 .. cnt, WriteData(nw) PROVE CountInv'
  <2>1. /\ pc = "out" /\ pos' = pos + pending + nw /\ pending' = 0 /\ Advance(nw, 0)
    BY <1>2 DEF WriteData, WriteOffset
  <2>2. /\ pos' \in Nat /\ pending' \in Nat /\ pos' >= pos /\ pos' + pending' = pos + pending + nw
        /\ nw \in Nat /\ nw <= cnt
    BY <2>1, Offsets
  <2> QED BY <2>1, <2>2, AdvanceCount
<1>3. CASE WriteNothing
  <2>1. /\ pc = "out" /\ cnt = 0 /\ pos' = pos + pending /\ pending' = 0 /\ pc' = back
        /\ UNCHANGED <<cmd, rbuf, inbuf, outbuf, force, st, fed>>
    BY <1>3 DEF WriteNothing, WriteOffset, reader
  <2>2. force /\ outbuf = <<>> /\ back \in {"loop", "conv", "end"}
    BY <2>1, Facts DEF IInv, TypeOK, OutInv
  <2>3. /\ Records' = Records /\ Base' = Base /\ Unbuffered' = Unbuffered
        /\ (\A c : Has(c)' = Has(c))
    BY <2>1, SameLine
  <2>4. Untouched' /\ Emptied' /\ Direct'
    BY <2>1, <2>2, <2>3 DEF CountInv, Untouched, Emptied, Closed, Succeeded, Direct
  <2>5. CountedIn'
    <3>1. Allowed' = Allowed
      BY <2>1 DEF Allowed
    <3> QED BY <2>1, <2>2, <2>3, <3>1 DEF CountInv, CountedIn
  <2>6. CountedOut'
    <3>1. pos >= Base /\ Base \in Nat /\ pos \in Nat /\ pending \in Nat
      BY <2>1, LineNumbers, Offsets DEF CountInv, CountedOut, Active
    <3>2. (pos + pending) - Base + 0 = pos - Base + pending /\ pos + pending >= Base
      BY <3>1
    <3>3. Amount' = Amount /\ pos' >= Base'
      BY <2>1, <2>3, <3>2 DEF Amount
    <3> QED BY <2>1, <2>3, <3>3 DEF CountInv, CountedOut
  <2>7. NoneLost'
    BY <2>1, <2>3 DEF CountInv, NoneLost
  <2> QED BY <2>4, <2>5, <2>6, <2>7 DEF CountInv
<1>4. CASE WriteFails
  <2>1. /\ pc = "out" /\ pc' = "exit" /\ code' \in {1, 2}
        /\ UNCHANGED <<cmd, inbuf, outbuf, st, fed, pos, pending>>
    BY <1>4 DEF WriteFails, Exit, writer, output
  <2>2. Active /\ code' # 0
    BY <2>1 DEF Active
  <2> QED BY <2>1, <2>2, SameCount
<1> QED BY <1>1, <1>2, <1>3, <1>4

LEMMA CloseCount == IInv /\ CountInv /\ (Close \/ End) => CountInv'
<1> SUFFICES ASSUME IInv, CountInv, Close \/ End PROVE CountInv'
  OBVIOUS
<1>1. CASE Close
  <2>1. /\ pc = "close" /\ outbuf' = PadOutput(outbuf \o LastRecord) /\ inbuf' = <<>>
        /\ UNCHANGED <<cmd, rbuf, fed, pos, pending>>
        /\ \E t : st' = [st EXCEPT !.trunc = t]
        /\ \/ pc' = "out" /\ back' = "end" /\ force'
           \/ pc' = "end" /\ outbuf' = <<>> /\ ~(pending > 0)
    BY <1>1 DEF Close, StartOut, reader, writer, output
  <2>2. /\ Records' = Records /\ Base' = Base /\ Unbuffered' = Unbuffered
        /\ (\A c : Has(c)' = Has(c))
    BY <2>1, SameLine
  <2>3. rbuf = <<>> /\ pending \in Nat
    BY <2>1, Offsets DEF IInv, ReadInv
  <2>4. Untouched' /\ Emptied' /\ Direct'
    BY <2>1, <2>3 DEF Untouched, Emptied, Closed, Succeeded, Direct
  <2>5. /\ st'.in_full = st.in_full /\ st'.in_part = st.in_part
        /\ st'.out_full = st.out_full /\ st'.bytes = st.bytes
    <3>1. st \in [DOMAIN NoStats -> Nat]
      BY DEF IInv, TypeOK
    <3> QED BY <2>1, <3>1 DEF NoStats
  <2>6. CountedIn'
    <3>1. Allowed' = Allowed
      BY <2>1 DEF Allowed
    <3> QED BY <2>1, <2>2, <2>5, <3>1 DEF CountInv, CountedIn
  <2>7. CountedOut'
    <3>1. Active /\ Amount' = Amount
      BY <2>1, <2>2 DEF Amount, Active
    <3> QED BY <2>1, <2>2, <2>5, <3>1 DEF CountInv, CountedOut
  <2>8. NoneLost'
    <3> SUFFICES ASSUME ~Records, ~Has("OSYNC")
                 PROVE  st'.bytes + Len(outbuf') + Len(inbuf') = Len(fed')
      BY <2>2 DEF NoneLost
    <3>1. inbuf = <<>>
      BY <2>1 DEF IInv, InInv
    <3>2. LastRecord = <<>> /\ outbuf \in Seq(Bytes)
      BY <3>1, Facts DEF LastRecord
    <3>3. outbuf' = outbuf
      BY <2>1, <3>2 DEF PadOutput, NothingToPad
    <3> QED BY <2>1, <2>5, <3>1, <3>3 DEF CountInv, NoneLost
  <2> QED BY <2>4, <2>6, <2>7, <2>8 DEF CountInv
<1>2. CASE End
  <2>1. /\ pc = "end" /\ pc' = "exit" /\ code' = 0
        /\ UNCHANGED <<cmd, rbuf, inbuf, outbuf, pending, pos, st, fed>>
    BY <1>2 DEF End, Exit, reader, writer
  <2>2. /\ Records' = Records /\ Base' = Base /\ Unbuffered' = Unbuffered
        /\ (\A c : Has(c)' = Has(c))
    BY <2>1, SameLine
  <2>3. Untouched' /\ Emptied' /\ Direct'
    BY <2>1 DEF CountInv, Untouched, Emptied, Closed, Succeeded, Direct
  <2>4. CountedIn'
    <3>1. Allowed' = Allowed
      BY <2>1 DEF Allowed
    <3> QED BY <2>1, <2>2, <3>1 DEF CountInv, CountedIn
  <2>5. CountedOut'
    <3>1. Active /\ Amount' = Amount
      BY <2>1, <2>2 DEF Amount, Active
    <3> QED BY <2>1, <2>2, <3>1 DEF CountInv, CountedOut
  <2>6. NoneLost'
    BY <2>1, <2>2 DEF CountInv, NoneLost
  <2> QED BY <2>3, <2>4, <2>5, <2>6 DEF CountInv
<1> QED BY <1>1, <1>2

LEMMA NextCount == IInv /\ CountInv /\ [Next]_vars => CountInv'
<1> SUFFICES ASSUME IInv, CountInv, [Next]_vars PROVE CountInv'
  OBVIOUS
<1>1. CASE Copy
  BY <1>1, SetupCount, ReadDataCount, ReadOtherCount, ConvertCount, WriteCount, CloseCount, Zenon DEF Copy
<1>2. CASE UNCHANGED vars
  <2>1. UNCHANGED <<cmd, pc, rbuf, inbuf, outbuf, force, back, pending, seek_offset, pos, intrunc,
                    st, code, fed>>
    BY <1>2 DEF vars
  <2>2. Records' = Records /\ Base' = Base /\ Unbuffered' = Unbuffered /\ (\A c : Has(c)' = Has(c))
    BY <2>1, SameLine
  <2>3. Allowed' = Allowed /\ Amount' = Amount /\ CountReached' = CountReached
    BY <2>1, <2>2 DEF Allowed, Amount, CountReached
  <2>4. Closed' = Closed /\ Active' = Active /\ Succeeded' = Succeeded
    BY <2>1 DEF Closed, Active, Succeeded
  <2> QED BY <2>1, <2>2, <2>3, <2>4 DEF CountInv, Untouched, Emptied, Direct, CountedIn, CountedOut, NoneLost
<1> QED BY <1>1, <1>2 DEF Next, Terminating

\* What dd has taken in, holds and has put out add up at every moment (st, in, out): the
\* invariant the statistics rest on.
THEOREM CountInvariance == Spec => [](IInv /\ CountInv)
<1>1. Init => IInv /\ CountInv
  BY InitInv, InitCount
<1>2. (IInv /\ CountInv) /\ [Next]_vars => (IInv /\ CountInv)'
  BY NextInv, NextCount
<1> QED BY <1>1, <1>2, PTL DEF Spec

\* The length of what is written, holes included.
LEMMA DeliveredLen == ASSUME IInv PROVE Len(Delivered) = Amount
<1>1. PICK k : k = pos - Base + pending
  OBVIOUS
<1>2. k \in Int
  BY <1>1, LineNumbers, Offsets
<1>3. Amount = IF k > 0 THEN k ELSE 0
  BY <1>1 DEF Amount
<1>4. DOMAIN Delivered = 1 .. k
  BY <1>1 DEF Delivered
<1>5. PICK l : l = Amount
  OBVIOUS
<1>6. l \in Nat /\ 1 .. k = 1 .. l
  BY <1>2, <1>3, <1>5
<1>7. Delivered = [i \in 1 .. l |-> Delivered[i]]
  BY <1>1, <1>6 DEF Delivered
<1>8. Len(Delivered) = l
  BY <1>6, <1>7
<1> QED BY <1>5, <1>8

\* The summary tells the truth about bytes and blocks, however reads and writes are cut short.
THEOREM HonestStatistics == Spec => []StatisticsHonest
<1>1. IInv /\ CountInv => StatisticsHonest
  <2> SUFFICES ASSUME IInv, CountInv PROVE StatisticsHonest
    OBVIOUS
  <2>1. st.bytes = Len(Delivered)
    BY DeliveredLen DEF CountInv, CountedOut
  <2>2. st.out_full * cmd.obs <= st.bytes
    BY DEF CountInv, CountedOut
  <2>3. /\ st.in_full * cmd.ibs + st.in_part <= Len(fed)
        /\ Len(fed) <= st.in_full * cmd.ibs + st.in_part * (cmd.ibs - 1)
        /\ Has("COUNT") => st.in_full + st.in_part <= (IF cmd.cpy_cnt = -1 THEN 0 ELSE cmd.cpy_cnt)
    BY DEF CountInv, CountedIn, Allowed
  <2>4. Succeeded /\ ~Has("BLOCK") /\ ~Has("UNBLOCK") /\ ~Has("OSYNC") => st.bytes = Len(fed)
    <3> SUFFICES ASSUME Succeeded, ~Records, ~Has("OSYNC") PROVE st.bytes = Len(fed)
      BY DEF Records
    <3>1. outbuf = <<>> /\ inbuf = <<>>
      BY DEF CountInv, Emptied, Closed
    <3>2. st.bytes + Len(outbuf) + Len(inbuf) = Len(fed)
      BY DEF CountInv, NoneLost
    <3>3. st.bytes \in Nat /\ Len(<<>>) = 0
      BY StatNumbers
    <3> QED BY <3>1, <3>2, <3>3
  <2> QED BY <2>1, <2>2, <2>3, <2>4 DEF StatisticsHonest
<1> QED BY <1>1, CountInvariance, PTL

----------------------------------------------------------------------------
(***************************************************************************)
(* conv=notrunc: what is written and what is left as it was.               *)
(***************************************************************************)

\* g is the file f with s written at offset p.
WriteResult(f, p, s, g) ==
  /\ g \in Seq(Bytes)
  /\ Len(g) = (IF Len(f) > p + Len(s) THEN Len(f) ELSE p + Len(s))
  /\ \A i \in 1 .. Len(g) : g[i] = IF i \in p + 1 .. p + Len(s) THEN s[i - p]
                                   ELSE IF i <= Len(f) THEN f[i] ELSE NUL

LEMMA WrittenFacts ==
  ASSUME NEW f \in Seq(Bytes), NEW p \in Nat, NEW s \in Seq(Bytes), NEW g, g = Written(f, p, s)
  PROVE  WriteResult(f, p, s, g)
<1>1. g \in Seq(Bytes)
  BY FileOps
<1>2. PICK l : l = IF Len(f) > p + Len(s) THEN Len(f) ELSE p + Len(s)
  OBVIOUS
<1>3. l \in Nat
  BY <1>2
<1>4. g = [i \in 1 .. l |-> IF i \in p + 1 .. p + Len(s) THEN s[i - p]
                            ELSE IF i <= Len(f) THEN f[i] ELSE NUL]
  BY <1>2 DEF Written
<1>5. Len(g) = l
  BY <1>3, <1>4
<1> QED BY <1>1, <1>2, <1>4, <1>5 DEF WriteResult

LEMMA TruncatedFacts ==
  ASSUME NEW f \in Seq(Bytes), NEW p \in Nat, NEW g, g = Truncated(f, p)
  PROVE  /\ g \in Seq(Bytes) /\ Len(g) = p
         /\ \A i \in 1 .. p : g[i] = IF i <= Len(f) THEN f[i] ELSE NUL
<1>1. <<>> \in Seq(Bytes)
  OBVIOUS
<1>2. g \in Seq(Bytes)
  BY <1>1, FileOps
<1>3. g = [i \in 1 .. p |-> IF i <= Len(f) THEN f[i] ELSE NUL]
  BY DEF Truncated
<1>4. Len(g) = p
  BY <1>3
<1> QED BY <1>2, <1>3, <1>4

\* dd_out() has something to do: bytes to write or a hole to seek over.  Only
\* conv=sparse leaves holes.
WorkInv ==
  /\ pending > 0 => Has("SPARSE")
  /\ seek_offset > 0 => Has("SPARSE")
  /\ pc = "out" => outbuf # <<>> \/ pending > 0
  /\ pc = "out" /\ back = "conv" => ~Unbuffered
  /\ pc = "conv" /\ Unbuffered => inbuf # <<>>

\* conv=notrunc without holes: what dd has not gone over is as it was.
Kept ==
  Has("NOTRUNC") /\ ~Has("SPARSE") =>
    /\ Len(file) >= Len(cmd.old)
    /\ \A i \in 1 .. Len(cmd.old) : i \notin Base + 1 .. pos => file[i] = cmd.old[i]

KeptInv == WorkInv /\ Kept

\* A step that touches neither the file nor a hole.
LEMMA SameWork ==
  ASSUME IInv, KeptInv, UNCHANGED <<cmd, pending, pos, seek_offset>>, file' = file \/ ~Has("NOTRUNC"),
         pc' = "out" => (outbuf' # <<>> \/ pending > 0) /\ (back' = "conv" => ~Unbuffered),
         pc' = "conv" /\ Unbuffered => inbuf' # <<>>
  PROVE  KeptInv'
<1>1. Unbuffered' = Unbuffered /\ Base' = Base /\ (\A c : Has(c)' = Has(c))
  BY SameLine
<1>2. WorkInv'
  BY <1>1 DEF KeptInv, WorkInv
<1>3. Kept'
  BY <1>1 DEF KeptInv, Kept
<1> QED BY <1>2, <1>3 DEF KeptInv

LEMMA InitKept == Init => KeptInv
<1> SUFFICES ASSUME Init PROVE KeptInv
  OBVIOUS
<1>1. file = cmd.old /\ pending = 0 /\ seek_offset = 0 /\ pc = "open"
  BY DEF Init
<1>2. WorkInv
  BY <1>1 DEF WorkInv
<1>3. file \in Seq(Bytes)
  BY InitInv DEF IInv, TypeOK
<1>4. Kept
  BY <1>1, <1>3 DEF Kept
<1> QED BY <1>2, <1>4 DEF KeptInv

LEMMA SetupKept ==
  IInv /\ CountInv /\ KeptInv /\ (Open \/ SkipRead \/ SkipEnd \/ Seek) => KeptInv'
<1> SUFFICES ASSUME IInv, CountInv, KeptInv, Open \/ SkipRead \/ SkipEnd \/ Seek PROVE KeptInv'
  OBVIOUS
<1>1. CASE Open \/ SkipRead \/ SkipEnd
  <2>1. UNCHANGED <<cmd, pending, pos, seek_offset>> /\ pc' \in {"skip", "seek", "exit"}
    BY <1>1 DEF Open, SkipRead, SkipEnd, Exit, writer, output
  <2>2. file' = file \/ ~Has("NOTRUNC")
    BY <1>1 DEF Open, SkipRead, SkipEnd, OpenTruncates, output
  <2> QED BY <2>1, <2>2, SameWork
<1>2. CASE Seek
  <2>1. /\ pc = "seek" /\ UNCHANGED <<cmd, pending, seek_offset>> /\ pc' \in {"loop", "exit"}
        /\ file' = file \/ ~Has("NOTRUNC")
    BY <1>2 DEF Seek, Exit, writer, output
  <2>2. pos = 0
    BY <2>1 DEF CountInv, Untouched
  <2>3. Unbuffered' = Unbuffered /\ Base' = Base /\ (\A c : Has(c)' = Has(c))
    BY <2>1, SameLine
  <2>4. WorkInv'
    BY <2>1, <2>3 DEF KeptInv, WorkInv
  <2>5. Kept'
    <3> SUFFICES ASSUME Has("NOTRUNC"), ~Has("SPARSE")
                 PROVE  /\ Len(file) >= Len(cmd.old)
                        /\ \A i \in 1 .. Len(cmd.old) : file[i] = cmd.old[i]
      BY <2>1, <2>3 DEF Kept
    <3>1. Base \in Nat
      BY LineNumbers
    <3>2. \A i \in 1 .. Len(cmd.old) : i \notin Base + 1 .. 0
      BY <3>1
    <3> QED BY <2>2, <3>2 DEF KeptInv, Kept
  <2> QED BY <2>4, <2>5 DEF KeptInv
<1> QED BY <1>1, <1>2

LEMMA ReadKept ==
  IInv /\ CountInv /\ KeptInv /\ (Limit \/ (\E k \in 1 .. cmd.ibs : ReadData(k)) \/ ReadEnd \/ ReadError)
    => KeptInv'
<1> SUFFICES ASSUME IInv, KeptInv,
                    Limit \/ (\E k \in 1 .. cmd.ibs : ReadData(k)) \/ ReadEnd \/ ReadError
             PROVE  KeptInv'
  OBVIOUS
<1>1. ASSUME NEW r \in Seq(Bytes), Accept(r), r # <<>> PROVE inbuf' # <<>>
  <2> DEFINE r2 == IF Has("SWAB") THEN Swapped(r) ELSE r
             r3 == IF Has("BLOCK") THEN r2 ELSE Translate(r2)
  <2>1. r2 \in Seq(Bytes) /\ Len(r2) = Len(r)
    BY SwappedLen
  <2>2. r3 \in Seq(Bytes) /\ Len(r3) = Len(r)
    BY <2>1, TranslateLen
  <2>3. inbuf' = inbuf \o r3 /\ inbuf \in Seq(Bytes)
    BY <1>1, Facts DEF Accept
  <2> HIDE DEF r2, r3
  <2>4. Len(inbuf') = Len(inbuf) + Len(r3)
    BY <2>2, <2>3, LenOf
  <2>5. Len(r) \in Nat /\ Len(r) > 0
    BY <1>1
  <2> QED BY <2>2, <2>4, <2>5, BufNumbers
<1>2. UNCHANGED <<cmd, pending, pos, seek_offset, file>>
  BY DEF Limit, ReadData, ReadEnd, ReadError, writer, output
<1>3. pc' # "out" /\ (pc' = "conv" => \E r \in Seq(Bytes) : Accept(r) /\ r # <<>>)
  <2>1. CASE Limit
    BY <2>1 DEF Limit
  <2>2. ASSUME NEW k \in 1 .. cmd.ibs, ReadData(k)
        PROVE  pc' # "out" /\ (pc' = "conv" => \E r \in Seq(Bytes) : Accept(r) /\ r # <<>>)
    <3>1. PICK m, r : Fetched(k, m, r)
      BY DEF Fetched
    <3>2. /\ r \in Seq(Bytes) /\ Len(r) <= cmd.ibs /\ r # <<>>
          /\ IF Has("SYNC") THEN Accept(Padded(r, cmd.ibs))
             ELSE IF GoOn(r) THEN rbuf' = r /\ pc' = "fill" /\ UNCHANGED <<inbuf, st, fed>>
             ELSE Accept(r)
      BY <2>2, <3>1, ReadFacts, Zenon DEF ReadBlock
    <3>3. PICK p : p = Padded(r, cmd.ibs)
      OBVIOUS
    <3>4. p \in Seq(Bytes) /\ p # <<>>
      <4>1. cmd \in Command /\ Legal(cmd) /\ cmd.ibs \in Nat /\ cmd.ibs > 0
        BY Facts
      <4>2. p \in Seq(Bytes) /\ Len(p) = (IF cmd.ibs > Len(r) THEN cmd.ibs ELSE Len(r))
        BY <3>2, <3>3, <4>1, PaddedLen
      <4>3. Len(r) \in Nat
        BY <3>2
      <4> QED BY <3>2, <4>1, <4>2, <4>3
    <3>5. Accept(p) \/ pc' = "fill" \/ Accept(r)
      BY <3>2, <3>3
    <3> QED BY <3>2, <3>4, <3>5 DEF Accept
  <2>3. CASE ReadEnd
    BY <2>3, Facts DEF ReadEnd, Accept
  <2>4. CASE ReadError
    <3>1. PICK r : r = Fill(PadByte, cmd.ibs)
      OBVIOUS
    <3>2. PadByte \in Bytes /\ cmd.ibs \in Nat /\ cmd.ibs > 0
      BY Facts
    <3>3. r \in Seq(Bytes) /\ Len(r) = (IF cmd.ibs > 0 THEN cmd.ibs ELSE 0)
      BY <3>1, <3>2, FillLen
    <3>4. r # <<>>
      BY <3>2, <3>3
    <3>5. pc' \in {"exit", "loop"} \/ Accept(r)
      BY <2>4, <3>1 DEF ReadError, Exit
    <3> QED BY <3>3, <3>4, <3>5 DEF Accept
  <2> QED BY <2>1, <2>2, <2>3, <2>4
<1>4. pc' = "conv" => inbuf' # <<>>
  BY <1>1, <1>3
<1> QED BY <1>2, <1>3, <1>4, SameWork

LEMMA ConvertKept ==
  IInv /\ KeptInv /\ (ConvertNone \/ Def \/ BlockToss \/ BlockShort \/ BlockRecord
                        \/ UnblockRecord \/ UnblockShort) => KeptInv'
<1> SUFFICES ASSUME IInv, KeptInv,
                    ConvertNone \/ Def \/ BlockToss \/ BlockShort \/ BlockRecord
                      \/ UnblockRecord \/ UnblockShort
             PROVE  KeptInv'
  OBVIOUS
<1>0. /\ Records => ~Unbuffered
      /\ cmd.obs \in Nat /\ cmd.obs > 0
  BY Facts
<1>1. UNCHANGED <<cmd, pending, pos, seek_offset, file>>
  BY DEF ConvertNone, Def, BlockToss, BlockShort, BlockRecord, UnblockRecord, UnblockShort,
         Emit, StartOut, writer, output
<1>2. CASE ConvertNone
  <2>1. /\ pc = "conv" /\ Unbuffered /\ outbuf' = inbuf /\ pc' = "out" /\ back' = "loop"
    BY <1>2 DEF ConvertNone, StartOut
  <2>2. outbuf' # <<>>
    BY <2>1 DEF KeptInv, WorkInv
  <2> QED BY <1>1, <2>1, <2>2, SameWork
<1>3. CASE ~ConvertNone
  <2>1. ~Unbuffered
    BY <1>0, <1>3 DEF Def, BlockToss, BlockShort, BlockRecord, UnblockRecord, UnblockShort, Records
  <2>2. pc' = "out" => Due(outbuf')
    BY <1>3 DEF Def, BlockToss, BlockShort, BlockRecord, UnblockRecord, UnblockShort, Emit
  <2>3. Due(outbuf') => outbuf' # <<>>
    BY <1>0, <1>1 DEF Due
  <2> QED BY <1>1, <2>1, <2>2, <2>3, SameWork
<1> QED BY <1>2, <1>3

\* While dd_out() has not done with its block, there is something in the buffer.
LEMMA AdvanceWork ==
  ASSUME IInv, KeptInv, pc = "out", NEW nw \in Nat, nw <= cnt, NEW seeked, Advance(nw, seeked)
  PROVE  pc' = "out" => outbuf' # <<>> /\ (back' = "conv" => ~Unbuffered)
<1>1. cmd' = cmd /\ back' = back
  BY DEF Advance
<1>2. nw <= Len(outbuf) /\ cnt <= Len(outbuf)
  BY Sizes DEF IInv, OutInv
<1>3. Len(outbuf') = Len(outbuf) - nw
  <2>1. outbuf \in Seq(Bytes) /\ outbuf' = Drop(outbuf, nw)
    BY Facts DEF Advance
  <2> QED BY <1>2, <2>1, TakeDrop
<1>4. \/ nw < cnt
      \/ pc' = (IF Due(outbuf') THEN "out" ELSE back)
  BY DEF Advance
<1>5. back # "out"
  BY DEF IInv, TypeOK
<1>6. Due(outbuf') => outbuf' # <<>>
  <2>1. cmd.obs \in Nat /\ cmd.obs > 0
    BY LineNumbers
  <2> QED BY <1>1, <2>1 DEF Due
<1>7. nw < cnt => outbuf' # <<>>
  <2> SUFFICES ASSUME nw < cnt PROVE outbuf' # <<>>
    OBVIOUS
  <2>1. Len(outbuf) - nw > 0
    BY <1>2, Sizes
  <2> QED BY <1>3, <2>1
<1> QED BY <1>1, <1>4, <1>5, <1>6, <1>7 DEF KeptInv, WorkInv

LEMMA WriteKept ==
  IInv /\ CountInv /\ KeptInv
    /\ (WriteHole \/ (\E nw \in 1 .. cnt : WriteData(nw)) \/ WriteNothing \/ WriteFails) => KeptInv'
<1> SUFFICES ASSUME IInv, CountInv, KeptInv,
                    WriteHole \/ (\E nw \in 1 .. cnt : WriteData(nw)) \/ WriteNothing \/ WriteFails
             PROVE  KeptInv'
  OBVIOUS
<1>1. cmd' = cmd /\ pc = "out"
  BY DEF WriteHole, WriteData, WriteNothing, WriteFails, Advance
<1>2. Unbuffered' = Unbuffered /\ Base' = Base /\ (\A c : Has(c)' = Has(c))
  BY <1>1, SameLine
<1>3. Unbuffered => force
  BY <1>1 DEF CountInv, Direct
<1>4. \A k : \A nw \in Nat : Advance(nw, k) => (pc' = "out" \/ pc' = back) /\ back' = back /\ inbuf' = inbuf
  BY <1>1 DEF Advance
<1>5. Unbuffered => back # "conv"
  BY <1>1 DEF KeptInv, WorkInv
<1>6. CASE WriteHole
  <2>1. Has("SPARSE") /\ Advance(cnt, seek_offset) /\ seek_offset' = seek_offset
        /\ cnt \in Nat /\ cnt <= cnt
    BY <1>6, Offsets DEF WriteHole, Sparse, Advance
  <2>2. pc' = "out" => outbuf' # <<>> /\ (back' = "conv" => ~Unbuffered)
    BY <1>1, <2>1, AdvanceWork
  <2>3. WorkInv'
    BY <1>2, <1>4, <1>5, <2>1, <2>2 DEF KeptInv, WorkInv
  <2> QED BY <1>2, <2>1, <2>3 DEF KeptInv, Kept
<1>7. ASSUME NEW nw \in 1 .. cnt, WriteData(nw) PROVE KeptInv'
  <2>1. PICK p, s, f : p = pos + pending /\ s = Take(outbuf, nw) /\ f = file
    OBVIOUS
  <2>2. /\ file' = Written(f, p, s) /\ pos' = p + nw /\ pending' = 0 /\ Advance(nw, 0)
        /\ seek_offset' = 0
    BY <1>7, <2>1 DEF WriteData, WriteOffset, Advance
  <2>3. nw \in Nat /\ nw <= cnt /\ cnt <= Len(outbuf)
    BY <1>1, Sizes DEF IInv, OutInv
  <2>4. pc' = "out" => outbuf' # <<>> /\ (back' = "conv" => ~Unbuffered)
    BY <1>1, <2>2, <2>3, AdvanceWork
  <2>5. WorkInv'
    BY <1>2, <1>4, <1>5, <2>2, <2>3, <2>4 DEF KeptInv, WorkInv
  <2>6. ASSUME Has("NOTRUNC"), ~Has("SPARSE")
        PROVE  /\ Len(file') >= Len(cmd.old)
               /\ \A i \in 1 .. Len(cmd.old) : i \notin Base + 1 .. pos' => file'[i] = cmd.old[i]
    <3>1. pending = 0
      BY <2>6, Offsets DEF KeptInv, WorkInv
    <3>2. /\ f \in Seq(Bytes) /\ p \in Nat /\ p >= Base /\ p = pos /\ s \in Seq(Bytes) /\ Len(s) = nw
          /\ Base \in Nat
      <4>1. outbuf \in Seq(Bytes) /\ file \in Seq(Bytes)
        BY DEF IInv, TypeOK
      <4>2. nw <= Len(outbuf)
        BY <2>3, Sizes
      <4>3. s \in Seq(Bytes) /\ Len(s) = nw
        BY <2>1, <2>3, <4>1, <4>2, TakeDrop
      <4>4. pos >= Base
        BY <1>1 DEF CountInv, CountedOut, Active
      <4> QED BY <2>1, <3>1, <4>1, <4>3, <4>4, Offsets, LineNumbers
    <3>3. PICK g : g = file'
      OBVIOUS
    <3>4. /\ g \in Seq(Bytes)
          /\ Len(g) = (IF Len(f) > p + Len(s) THEN Len(f) ELSE p + Len(s))
          /\ \A i \in 1 .. Len(g) : g[i] = IF i \in p + 1 .. p + Len(s) THEN s[i - p]
                                           ELSE IF i <= Len(f) THEN f[i] ELSE NUL
      <4>1. WriteResult(f, p, s, g)
        BY <2>2, <3>2, <3>3, WrittenFacts, Zenon
      <4> QED BY <4>1 DEF WriteResult
    <3>5. /\ Len(f) >= Len(cmd.old) /\ Len(f) \in Nat /\ Len(cmd.old) \in Nat
          /\ \A i \in 1 .. Len(cmd.old) : i \notin Base + 1 .. p => f[i] = cmd.old[i]
      <4>1. cmd.old \in Seq(Bytes)
        BY DEF IInv, TypeOK, Command
      <4> QED BY <2>1, <2>6, <3>2, <4>1 DEF KeptInv, Kept
    <3>6. Len(g) >= Len(f) /\ Len(g) \in Nat
      BY <2>3, <3>2, <3>4, <3>5
    <3>7. ASSUME NEW i \in 1 .. Len(cmd.old), i \notin Base + 1 .. p + nw PROVE g[i] = cmd.old[i]
      <4>1. i \in 1 .. Len(g) /\ i <= Len(f) /\ i \notin p + 1 .. p + nw /\ i \notin Base + 1 .. p
        BY <2>3, <3>2, <3>5, <3>6, <3>7
      <4> QED BY <3>2, <3>4, <3>5, <4>1
    <3>8. Len(g) >= Len(cmd.old)
      BY <3>5, <3>6
    <3> QED BY <2>2, <3>3, <3>7, <3>8
  <2>7. Kept'
    BY <1>1, <1>2, <2>6 DEF Kept
  <2> QED BY <2>5, <2>7 DEF KeptInv
<1>8. CASE WriteNothing
  <2>1. /\ cnt = 0 /\ file' = file /\ pc' = back /\ pending' = 0 /\ UNCHANGED <<inbuf, back>>
    BY <1>8 DEF WriteNothing
  <2>2. outbuf = <<>> /\ back \in {"loop", "conv", "end"}
    BY <1>1, <2>1, Facts DEF IInv, OutInv, TypeOK
  <2>3. Has("SPARSE")
    BY <1>1, <2>2 DEF KeptInv, WorkInv
  <2>4. WorkInv'
    BY <1>2, <1>5, <2>1, <2>2, <2>3 DEF WorkInv
  <2> QED BY <1>2, <2>3, <2>4 DEF KeptInv, Kept
<1>9. CASE WriteFails
  <2>1. pc' = "exit" /\ UNCHANGED <<pending, pos, seek_offset, file>>
    BY <1>9 DEF WriteFails, Exit, writer, output
  <2> QED BY <1>1, <2>1, SameWork
<1> QED BY <1>6, <1>7, <1>8, <1>9

LEMMA CloseKept == IInv /\ CountInv /\ KeptInv /\ (Close \/ End) => KeptInv'
<1> SUFFICES ASSUME IInv, CountInv, KeptInv, Close \/ End PROVE KeptInv'
  OBVIOUS
<1>1. CASE Close
  <2>1. /\ UNCHANGED <<cmd, pending, pos, seek_offset, file>>
        /\ \/ pc' = "out" /\ back' = "end" /\ (outbuf' # <<>> \/ pending > 0)
           \/ pc' = "end"
    BY <1>1 DEF Close, StartOut, writer, output
  <2> QED BY <2>1, SameWork
<1>2. CASE End
  <2>1. /\ pc' = "exit" /\ UNCHANGED <<cmd, pending, pos, seek_offset>>
        /\ file' = file \/ seek_offset > 0
    BY <1>2 DEF End, EndsInHole, Exit, writer
  <2>2. CASE file' = file
    BY <2>1, <2>2, SameWork
  <2>3. CASE seek_offset > 0
    <3>1. Has("SPARSE")
      BY <2>3 DEF KeptInv, WorkInv
    <3>2. Unbuffered' = Unbuffered /\ (\A c : Has(c)' = Has(c))
      BY <2>1, SameLine
    <3>3. WorkInv'
      BY <2>1, <3>1, <3>2 DEF WorkInv
    <3> QED BY <3>1, <3>2, <3>3 DEF KeptInv, Kept
  <2> QED BY <2>1, <2>2, <2>3
<1> QED BY <1>1, <1>2

LEMMA NextKept == IInv /\ CountInv /\ KeptInv /\ [Next]_vars => KeptInv'
<1> SUFFICES ASSUME IInv, CountInv, KeptInv, [Next]_vars PROVE KeptInv'
  OBVIOUS
<1>1. CASE Copy
  BY <1>1, SetupKept, ReadKept, ConvertKept, WriteKept, CloseKept, Zenon DEF Copy
<1>2. CASE UNCHANGED vars
  <2>1. UNCHANGED <<cmd, pc, inbuf, outbuf, back, pending, seek_offset, file, pos>>
    BY <1>2 DEF vars
  <2>2. Base' = Base /\ Unbuffered' = Unbuffered /\ (\A c : Has(c)' = Has(c))
    BY <2>1, SameLine
  <2> QED BY <2>1, <2>2 DEF KeptInv, WorkInv, Kept
<1> QED BY <1>1, <1>2 DEF Next, Terminating

\* dd_out() never writes outside what it counts as gone over, and a hole comes only from
\* conv=sparse.
THEOREM KeptInvariance == Spec => [](IInv /\ CountInv /\ KeptInv)
<1>1. Init => IInv /\ CountInv /\ KeptInv
  BY InitInv, InitCount, InitKept
<1>2. (IInv /\ CountInv /\ KeptInv) /\ [Next]_vars => (IInv /\ CountInv /\ KeptInv)'
  BY NextInv, NextCount, NextKept
<1> QED BY <1>1, <1>2, PTL DEF Spec

\* conv=notrunc keeps every byte of the old file that dd has not gone over.
THEOREM OldFileKept == Spec => []NotruncKeepsOldDense
<1>1. IInv /\ CountInv /\ KeptInv => NotruncKeepsOldDense
  <2> SUFFICES ASSUME IInv, CountInv, KeptInv, ~Has("SPARSE"), Has("NOTRUNC")
               PROVE  /\ Len(file) >= Len(cmd.old)
                      /\ \A i \in DOMAIN cmd.old :
                           i \notin Base + 1 .. Base + Len(Delivered) => file[i] = cmd.old[i]
    BY DEF NotruncKeepsOldDense, NotruncKeepsOld
  <2>1. cmd.old \in Seq(Bytes)
    BY DEF IInv, TypeOK, Command
  <2>2. pending = 0 /\ Len(Delivered) = Amount
    BY Offsets, DeliveredLen DEF KeptInv, WorkInv
  <2>3. pos <= Base + Len(Delivered)
    BY <2>2, Offsets, LineNumbers DEF Amount
  <2>4. \A i \in DOMAIN cmd.old : i \notin Base + 1 .. Base + Len(Delivered) => i \notin Base + 1 .. pos
    <3>1. Amount \in Nat
      BY <2>2, Offsets, LineNumbers DEF Amount
    <3> QED BY <2>2, <2>3, <3>1, Offsets, LineNumbers
  <2> QED BY <2>1, <2>4 DEF KeptInv, Kept
<1> QED BY <1>1, KeptInvariance, PTL

----------------------------------------------------------------------------
(***************************************************************************)
(* The input: skip=, short reads, fullblock, and errors with noerror and   *)
(* sync.                                                                   *)
(***************************************************************************)

\* Where the first byte to copy is.
Start == cmd.skip * cmd.ibs

\* Skipping ends in front of the first byte to copy.
PlaceInv ==
  /\ pc = "open" => inpos = 0
  /\ pc = "skip" => cmd.inpipe /\ n <= cmd.ibs /\ inpos + n + (cnt - 1) * cmd.ibs = Start
  /\ pc = "seek" => inpos = Start

\* Without errors and padding, what has been read is the input in its order;
\* fullblock leaves no partial block but at the end.
Faithful ==
  (Active \/ Succeeded) /\ cmd.bad = {} /\ ~Has("SYNC") =>
    /\ inpos = Start + Len(fed) + Len(rbuf)
    /\ Len(fed) + Len(rbuf) > 0 => inpos <= Len(cmd.src)
    /\ \A i \in 1 .. Len(rbuf) : rbuf[i] = cmd.src[Start + Len(fed) + i]
    /\ ~Has("SWAB") => \A i \in 1 .. Len(fed) : fed[i] = cmd.src[Start + i]
    /\ Has("IFULLBLOCK") => AtEnd \/ (st.in_part = 0 /\ Len(fed) = st.in_full * cmd.ibs)

\* The copy ends when count= is reached, or the input ends.
Over == pc = "close" \/ Closed => CountReached \/ AtEnd

Recovering == {"SYNC", "NOERROR"} \subseteq ddflags /\ ~cmd.inpipe /\ ~Has("SWAB") /\ BadBlocks

\* The byte at offset o of a disk with bad blocks.
Origin(o) == IF o < Len(cmd.src) /\ o \notin cmd.bad THEN cmd.src[o + 1] ELSE PadByte

Recovered ==
  Recovering =>
    /\ \A i \in 1 .. Len(fed) : fed[i] = Origin(Start + i - 1)
    /\ pc # "fill"
    /\ Active => /\ \E k \in Nat : Len(fed) = k * cmd.ibs
                 /\ inpos = Start + Len(fed) \/ AtEnd

InputInv == PlaceInv /\ Faithful /\ Over /\ Recovered

LEMMA InputNumbers ==
  ASSUME IInv
  PROVE  cmd.src \in Seq(Bytes) /\ Len(cmd.src) \in Nat /\ Start \in Nat /\ inpos \in Nat
<1>1. cmd \in Command /\ Legal(cmd)
  BY DEF IInv, TypeOK
<1>2. cmd.src \in Seq(Bytes) /\ cmd.skip * cmd.ibs \in Nat
  BY <1>1, CommandFacts
<1> QED BY <1>2, Offsets DEF Start

LEMMA SameInputLine ==
  ASSUME cmd' = cmd
  PROVE  /\ Start' = Start /\ Recovering' = Recovering
         /\ \A o : Origin(o)' = Origin(o)
  BY SameLine DEF Start, Recovering, Origin

\* A step that reads nothing.
LEMMA SameInput ==
  ASSUME IInv, InputInv, UNCHANGED <<cmd, inpos, rbuf, fed>>,
         st'.in_full = st.in_full, st'.in_part = st.in_part,
         pc' \notin {"open", "skip", "seek", "fill"},
         Active \/ Succeeded, Active' => Active,
         (pc' = "close" \/ Closed') => pc = "close" \/ Closed \/ CountReached \/ AtEnd
  PROVE  InputInv'
<1>1. /\ Start' = Start /\ Recovering' = Recovering /\ (\A o : Origin(o)' = Origin(o))
      /\ \A c : Has(c)' = Has(c)
  BY SameInputLine, SameLine
<1>2. CountReached' = CountReached /\ AtEnd' = AtEnd
  BY DEF CountReached, AtEnd
<1>3. PlaceInv'
  BY DEF PlaceInv
<1>4. Faithful'
  BY <1>1, <1>2 DEF InputInv, Faithful
<1>5. Over'
  BY <1>2 DEF InputInv, Over
<1>6. Recovered'
  BY <1>1, <1>2 DEF InputInv, Recovered
<1> QED BY <1>3, <1>4, <1>5, <1>6 DEF InputInv

LEMMA InitInput == Init => InputInv
<1> SUFFICES ASSUME Init PROVE InputInv
  OBVIOUS
<1>1. pc = "open" /\ inpos = 0 /\ Len(fed) = 0 /\ code = -1
  BY DEF Init
<1>2. PlaceInv /\ Faithful /\ Over /\ Recovered
  BY <1>1 DEF PlaceInv, Faithful, Over, Recovered, Active, Succeeded, Closed
<1> QED BY <1>2 DEF InputInv

LEMMA SetupInput ==
  IInv /\ CountInv /\ InputInv /\ (Open \/ SkipRead \/ SkipEnd \/ Seek) => InputInv'
<1> SUFFICES ASSUME IInv, CountInv, InputInv, Open \/ SkipRead \/ SkipEnd \/ Seek PROVE InputInv'
  OBVIOUS
<1>1. cmd' = cmd /\ fed' = fed /\ rbuf' = rbuf /\ st' = st /\ pc \in {"open", "skip", "seek"}
  BY DEF Open, SkipRead, SkipEnd, Seek, reader
<1>2. fed = <<>> /\ rbuf = <<>> /\ st = NoStats
  BY <1>1 DEF CountInv, Untouched
<1>3. /\ Start' = Start /\ Recovering' = Recovering /\ (\A o : Origin(o)' = Origin(o))
      /\ \A c : Has(c)' = Has(c)
  BY <1>1, SameInputLine, SameLine
<1>4. pc' \in {"skip", "seek", "loop"} \/ (pc' = "exit" /\ code' = 1)
  BY DEF Open, SkipRead, SkipEnd, Seek, Exit
<1>5. pc' = "loop" => inpos' = Start
  BY DEF Open, SkipRead, SkipEnd, Seek, Exit, reader, InputInv, PlaceInv
<1>6. PlaceInv'
  <2>1. CASE Open
    <3>1. \/ pc' = "skip" /\ cmd.inpipe /\ cmd.skip > 0 /\ n' = cmd.ibs /\ cnt' = cmd.skip /\ inpos' = inpos
          \/ pc' = "seek" /\ inpos' = cmd.skip * cmd.ibs
      BY <2>1 DEF Open
    <3>2. CASE pc' = "seek" /\ inpos' = cmd.skip * cmd.ibs
      BY <1>3, <3>2 DEF PlaceInv, Start
    <3>3. CASE pc' = "skip" /\ cmd.inpipe /\ cmd.skip > 0 /\ n' = cmd.ibs /\ cnt' = cmd.skip /\ inpos' = inpos
      <4>1. PICK s, b : s = cmd.skip /\ b = cmd.ibs
        OBVIOUS
      <4>2. s \in Nat /\ b \in Nat
        BY <4>1 DEF IInv, TypeOK, Command
      <4>3. b + (s - 1) * b = s * b /\ b <= b
        BY <4>2
      <4>4. inpos = 0
        BY <2>1 DEF Open, InputInv, PlaceInv
      <4> QED BY <1>1, <1>3, <3>3, <4>1, <4>2, <4>3, <4>4 DEF PlaceInv, Start
    <3> QED BY <3>1, <3>2, <3>3
  <2>2. CASE SkipRead
    <3>1. PICK nr \in 1 .. Smaller(n, Len(cmd.src) - inpos) :
            /\ inpos' = inpos + nr
            /\ n' = LeftToSkip(nr)
            /\ cnt' = IF nr = n THEN cnt - 1 ELSE cnt
            /\ pc' = IF cnt' = 0 THEN "seek" ELSE "skip"
      BY <2>2 DEF SkipRead
    <3>2. PICK b, i, k, c : b = cmd.ibs /\ i = inpos /\ k = n /\ c = cnt
      OBVIOUS
    <3>3. b \in Nat /\ i \in Nat /\ k \in Nat /\ c \in Nat /\ Len(cmd.src) \in Nat
      BY <3>2, LineNumbers, Offsets, InputNumbers
    <3>4. nr \in Nat /\ nr >= 1 /\ nr <= k
      BY <3>1, <3>2, <3>3 DEF Smaller
    <3>5. cmd.inpipe /\ k <= b /\ i + k + (c - 1) * b = Start
      BY <2>2, <3>2 DEF InputInv, PlaceInv, SkipRead
    <3>6. CASE nr = k
      <4>1. inpos' = i + k /\ n' = b /\ cnt' = c - 1
        BY <3>1, <3>2, <3>6 DEF LeftToSkip
      <4>2. (c - 1) * b = b + ((c - 1) - 1) * b
        BY <3>3
      <4>3. (i + k) + b + ((c - 1) - 1) * b = Start
        <5>1. PICK w, v : w = (c - 1) * b /\ v = ((c - 1) - 1) * b
          OBVIOUS
        <5>2. w \in Int /\ v \in Int
          BY <3>3, <5>1
        <5> QED BY <3>3, <3>5, <4>2, <5>1, <5>2
      <4>4. cnt' = 0 => inpos' = Start
        <5> SUFFICES ASSUME c - 1 = 0 PROVE i + k = Start
          BY <4>1
        <5>1. (c - 1) * b = 0
          BY <3>3
        <5> QED BY <3>3, <3>5, <5>1
      <4>5. inpos' + n' + (cnt' - 1) * cmd.ibs = Start
        BY <3>2, <4>1, <4>3
      <4>6. pc' # "open" /\ n' <= cmd.ibs /\ (pc' = "seek" => cnt' = 0)
        BY <3>1, <3>2, <3>3, <4>1
      <4> QED BY <1>1, <1>3, <3>5, <4>4, <4>5, <4>6 DEF PlaceInv
    <3>7. CASE nr # k
      <4>1. inpos' = i + nr /\ n' = k - nr /\ cnt' = c
        BY <3>1, <3>2, <3>7 DEF LeftToSkip
      <4>2. PICK w : w = (c - 1) * b
        OBVIOUS
      <4>3. w \in Int
        BY <3>3, <4>2
      <4>4. k - nr <= b /\ (i + nr) + (k - nr) + w = Start
        BY <3>3, <3>4, <3>5, <4>2, <4>3
      <4>5. cnt' # 0
        BY <2>2, <3>2, <4>1 DEF IInv, SkipInv, SkipRead
      <4> QED BY <1>1, <1>3, <3>1, <3>2, <3>5, <4>1, <4>2, <4>4, <4>5 DEF PlaceInv
    <3> QED BY <3>6, <3>7
  <2>3. CASE SkipEnd \/ Seek
    BY <2>3 DEF SkipEnd, Seek, Exit, PlaceInv
  <2> QED BY <2>1, <2>2, <2>3
<1>7. Faithful'
  <2>1. CASE pc' = "loop"
    <3>1. st.in_part = 0 /\ st.in_full = 0 /\ Len(<<>>) = 0
      BY <1>2 DEF NoStats
    <3>2. Start + 0 + 0 = Start /\ ~(0 + 0 > 0) /\ 0 * cmd.ibs = 0
      BY InputNumbers, LineNumbers
    <3> QED BY <1>1, <1>2, <1>3, <1>5, <2>1, <3>1, <3>2 DEF Faithful
  <2>2. CASE pc' # "loop"
    BY <1>4, <2>2 DEF Faithful, Active, Succeeded
  <2> QED BY <2>1, <2>2
<1>8. Over'
  BY <1>4 DEF Over, Closed, Succeeded
<1>9. Recovered'
  <2>1. Len(fed') = 0 /\ 0 * cmd.ibs = 0 /\ Start + 0 = Start
    BY <1>1, <1>2, InputNumbers, LineNumbers
  <2>2. pc' # "fill" /\ (Active' => pc' = "loop")
    BY <1>4 DEF Active
  <2> QED BY <1>1, <1>3, <1>5, <2>1, <2>2 DEF Recovered
<1> QED BY <1>6, <1>7, <1>8, <1>9 DEF InputInv

\* The bytes r of a block are handed to the conversion as r2.
Given(r, r2) == r2 = IF Has("SWAB") THEN Swapped(r) ELSE r

\* What Accept() does to the input side.
LEMMA AcceptFacts ==
  ASSUME IInv, pc \in {"loop", "fill"}, NEW r \in Seq(Bytes), Accept(r), NEW r2, Given(r, r2),
         NEW g, g = fed'
  PROVE  /\ r2 \in Seq(Bytes) /\ Len(r2) = Len(r) /\ rbuf' = <<>> /\ pc' = "conv"
         /\ g \in Seq(Bytes) /\ Len(g) = Len(fed) + Len(r)
         /\ \A i \in 1 .. Len(fed) : g[i] = fed[i]
         /\ \A i \in 1 .. Len(r) : g[Len(fed) + i] = r2[i]
         /\ st'.in_full = (IF Len(r) = cmd.ibs THEN st.in_full + 1 ELSE st.in_full)
         /\ st'.in_part = (IF Len(r) = cmd.ibs THEN st.in_part ELSE st.in_part + 1)
<1>1. r2 \in Seq(Bytes) /\ Len(r2) = Len(r)
  BY SwappedLen DEF Given
<1>2. g = fed \o r2 /\ rbuf' = <<>> /\ pc' = "conv" /\ fed \in Seq(Bytes)
  BY DEF Accept, Given, IInv, TypeOK
<1>3. /\ g \in Seq(Bytes) /\ Len(g) = Len(fed) + Len(r2)
      /\ \A i \in 1 .. Len(fed) : g[i] = fed[i]
      /\ \A i \in 1 .. Len(r2) : g[Len(fed) + i] = r2[i]
  <2>1. PICK B, f : B = Bytes /\ f = fed
    OBVIOUS
  <2>2. f \in Seq(B) /\ r2 \in Seq(B) /\ g = f \o r2
    BY <1>1, <1>2, <2>1
  <2>3. /\ g \in Seq(B) /\ Len(g) = Len(f) + Len(r2)
        /\ \A i \in 1 .. Len(f) : g[i] = f[i]
        /\ \A i \in 1 .. Len(r2) : g[Len(f) + i] = r2[i]
    BY <2>2, Concat
  <2> QED BY <2>1, <2>3
<1>4. /\ st'.in_full = (IF Len(r) = cmd.ibs THEN st.in_full + 1 ELSE st.in_full)
      /\ st'.in_part = (IF Len(r) = cmd.ibs THEN st.in_part ELSE st.in_part + 1)
  <2>1. st \in [DOMAIN NoStats -> Nat]
    BY DEF IInv, TypeOK
  <2>2. st' = [st EXCEPT !.in_full = IF Len(r) = cmd.ibs THEN @ + 1 ELSE @,
                         !.in_part = IF Len(r) = cmd.ibs THEN @ ELSE @ + 1,
                         !.swab = IF Has("SWAB") /\ Len(r) % 2 = 1 THEN @ + 1 ELSE @]
    BY DEF Accept
  <2> QED BY <2>1, <2>2 DEF NoStats
<1> QED BY <1>1, <1>2, <1>3, <1>4

\* A block that is accepted keeps Faithful: r is what the input has there, and it
\* is short only at the end, if fullblock is given.
LEMMA AcceptFaithful ==
  ASSUME IInv, CountInv, InputInv, pc \in {"loop", "fill"}, cmd' = cmd,
         NEW r \in Seq(Bytes), Len(r) <= cmd.ibs, Len(r) > 0, Accept(r),
         cmd.bad = {}, ~Has("SYNC"),
         inpos' = Start + Len(fed) + Len(r), inpos' <= Len(cmd.src),
         \A i \in 1 .. Len(r) : r[i] = cmd.src[Start + Len(fed) + i],
         Has("IFULLBLOCK") => Len(r) = cmd.ibs \/ inpos' >= Len(cmd.src),
         AtEnd => inpos' >= Len(cmd.src)
  PROVE  Faithful'
<1>1. PICK r2, g : Given(r, r2) /\ g = fed'
  BY DEF Given
<1>2. /\ r2 \in Seq(Bytes) /\ Len(r2) = Len(r) /\ rbuf' = <<>> /\ pc' = "conv"
      /\ g \in Seq(Bytes) /\ Len(g) = Len(fed) + Len(r)
      /\ \A i \in 1 .. Len(fed) : g[i] = fed[i]
      /\ \A i \in 1 .. Len(r) : g[Len(fed) + i] = r2[i]
      /\ st'.in_full = (IF Len(r) = cmd.ibs THEN st.in_full + 1 ELSE st.in_full)
      /\ st'.in_part = (IF Len(r) = cmd.ibs THEN st.in_part ELSE st.in_part + 1)
  BY <1>1, AcceptFacts
<1>3. Start' = Start /\ (\A c : Has(c)' = Has(c))
  BY SameInputLine, SameLine
<1>4. /\ ~Has("SWAB") => \A i \in 1 .. Len(fed) : fed[i] = cmd.src[Start + i]
      /\ Has("IFULLBLOCK") => AtEnd \/ (st.in_part = 0 /\ Len(fed) = st.in_full * cmd.ibs)
  BY DEF InputInv, Faithful, Active
<1>5. PICK f, l : f = Len(fed) /\ l = Len(r)
  OBVIOUS
<1>6. f \in Nat /\ l \in Nat
  BY <1>5, BufNumbers
<1>7. ~Has("SWAB") => \A i \in 1 .. f + l : g[i] = cmd.src[Start + i]
  <2> SUFFICES ASSUME ~Has("SWAB"), NEW i \in 1 .. f + l PROVE g[i] = cmd.src[Start + i]
    OBVIOUS
  <2>1. CASE i <= f
    <3>1. i \in 1 .. Len(fed)
      BY <1>5, <1>6, <2>1
    <3> QED BY <1>2, <1>4, <3>1
  <2>2. CASE i > f
    <3>1. PICK k \in 1 .. Len(r) : i = f + k
      <4>1. i - f \in 1 .. Len(r) /\ i = f + (i - f)
        BY <1>5, <1>6, <2>2
      <4> QED BY <4>1
    <3>2. r2 = r
      BY <1>1 DEF Given
    <3>3. Start + f + k = Start + i
      BY <1>6, <3>1, InputNumbers
    <3> QED BY <1>2, <1>5, <3>1, <3>2, <3>3
  <2> QED BY <1>6, <2>1, <2>2
<1>8. Has("IFULLBLOCK") => inpos' >= Len(cmd.src) \/ (st'.in_part = 0 /\ Len(g) = st'.in_full * cmd.ibs)
  <2> SUFFICES ASSUME Has("IFULLBLOCK"), ~(inpos' >= Len(cmd.src))
               PROVE  st'.in_part = 0 /\ Len(g) = st'.in_full * cmd.ibs
    OBVIOUS
  <2>1. Len(r) = cmd.ibs /\ st.in_part = 0 /\ Len(fed) = st.in_full * cmd.ibs
    BY <1>4
  <2>2. PICK a, b : a = st.in_full /\ b = cmd.ibs
    OBVIOUS
  <2>3. a \in Nat /\ b \in Nat
    BY <2>2, LineNumbers, StatNumbers
  <2>4. (a + 1) * b = a * b + b
    BY <2>3
  <2> QED BY <1>2, <2>1, <2>2, <2>4
<1>9. /\ inpos' = Start + Len(g) + Len(<<>>) /\ Len(g) = f + l
      /\ \A i \in 1 .. Len(<<>>) : <<>>[i] = cmd.src[Start + Len(g) + i]
  <2>1. Len(g) = f + l /\ inpos' = Start + f + l
    BY <1>2, <1>5
  <2>2. Start + f + l = Start + (f + l) + 0
    BY <1>6, InputNumbers
  <2> QED BY <2>1, <2>2
<1> QED BY <1>1, <1>2, <1>3, <1>7, <1>8, <1>9 DEF Faithful, AtEnd

\* Offsets in the same block of b bytes.
LEMMA SameBlock ==
  ASSUME NEW q \in Nat, NEW b \in Nat, b > 0, NEW i \in Nat, i < b
  PROVE  (q * b + i) \div b = q
  OBVIOUS

\* A block that is accepted keeps Recovered: r is what belongs at its offset.
LEMMA AcceptRecovered ==
  ASSUME IInv, CountInv, InputInv, pc = "loop", cmd' = cmd,
         NEW r \in Seq(Bytes), Len(r) = cmd.ibs, Accept(r), Recovering,
         inpos = Start + Len(fed),
         \A i \in 1 .. cmd.ibs : r[i] = Origin(Start + Len(fed) + i - 1),
         inpos' = inpos + cmd.ibs \/ inpos' >= Len(cmd.src)
  PROVE  Recovered'
<1>1. PICK r2, g : Given(r, r2) /\ g = fed'
  BY DEF Given
<1>2. /\ pc' = "conv" /\ g \in Seq(Bytes) /\ Len(g) = Len(fed) + Len(r)
      /\ \A i \in 1 .. Len(fed) : g[i] = fed[i]
      /\ \A i \in 1 .. Len(r) : g[Len(fed) + i] = r2[i]
  BY <1>1, AcceptFacts
<1>3. Start' = Start /\ (\A o : Origin(o)' = Origin(o))
  BY SameInputLine
<1>4. r2 = r
  BY <1>1 DEF Given, Recovering
<1>5. PICK f, b : f = Len(fed) /\ b = cmd.ibs
  OBVIOUS
<1>6. f \in Nat /\ b \in Nat
  BY <1>5, BufNumbers, LineNumbers
<1>7. /\ \A i \in 1 .. f : fed[i] = Origin(Start + i - 1)
      /\ \E k \in Nat : f = k * b
  BY <1>5 DEF InputInv, Recovered, Active
<1>8. ASSUME NEW i \in 1 .. Len(g) PROVE g[i] = Origin(Start + i - 1)
  <2>1. CASE i <= f
    <3>1. i \in 1 .. f
      BY <1>2, <1>5, <1>6, <2>1
    <3> QED BY <1>2, <1>5, <1>7, <3>1
  <2>2. CASE i > f
    <3>1. PICK k \in 1 .. Len(r) : i = f + k
      <4>1. i - f \in 1 .. Len(r) /\ i = f + (i - f)
        BY <1>2, <1>5, <1>6, <2>2
      <4> QED BY <4>1
    <3>2. Start + f + k - 1 = Start + i - 1
      BY <1>6, <3>1, InputNumbers
    <3> QED BY <1>2, <1>4, <1>5, <3>1, <3>2
  <2> QED BY <1>2, <1>6, <2>1, <2>2
<1>9. \E k \in Nat : Len(g) = k * b
  <2>1. PICK k \in Nat : f = k * b
    BY <1>7
  <2>2. (k + 1) * b = k * b + b /\ k + 1 \in Nat
    BY <1>6
  <2>3. Len(g) = (k + 1) * b
    BY <1>2, <1>5, <2>1, <2>2
  <2> QED BY <2>2, <2>3
<1>10. inpos' = Start + Len(g) \/ inpos' >= Len(cmd.src)
  BY <1>2, <1>5, <1>6, InputNumbers
<1>11. cmd.ibs' = cmd.ibs /\ cmd.src' = cmd.src
  OBVIOUS
<1> QED BY <1>1, <1>2, <1>3, <1>5, <1>8, <1>9, <1>10, <1>11 DEF Recovered, AtEnd

\* p is r, and padding up to b bytes.
PadResult(r, b, p) ==
  /\ p \in Seq(Bytes) /\ Len(p) = b
  /\ \A i \in 1 .. Len(r) : p[i] = r[i]
  /\ \A i \in 1 .. b : i > Len(r) => p[i] = PadByte

LEMMA PaddedFacts ==
  ASSUME IInv, NEW r \in Seq(Bytes), NEW b \in Nat, Len(r) <= b, NEW p, p = Padded(r, b)
  PROVE  PadResult(r, b, p)
<1>1. PICK k, q : k = b - Len(r) /\ q = Fill(PadByte, k)
  OBVIOUS
<1>2. k \in Nat /\ PadByte \in Bytes /\ Len(r) \in Nat
  BY <1>1, Facts
<1>3. q \in Seq(Bytes) /\ Len(q) = k
  <2>1. q \in Seq(Bytes) /\ Len(q) = (IF k > 0 THEN k ELSE 0)
    <3>1. PICK c : c = PadByte
      OBVIOUS
    <3>2. c \in Bytes /\ k \in Int /\ q = Fill(c, k)
      BY <1>1, <1>2, <3>1
    <3> HIDE <1>1, <1>2, <3>1
    <3> QED BY <3>2, FillLen
  <2> QED BY <1>2, <2>1
<1>4. \A i \in 1 .. k : q[i] = PadByte
  BY <1>1 DEF Fill
<1>5. /\ p \in Seq(Bytes) /\ Len(p) = Len(r) + Len(q)
      /\ \A i \in 1 .. Len(r) : p[i] = r[i]
      /\ \A i \in 1 .. Len(q) : p[Len(r) + i] = q[i]
  <2>1. PICK B : B = Bytes
    OBVIOUS
  <2>2. r \in Seq(B) /\ q \in Seq(B) /\ p = r \o q
    BY <1>1, <1>3, <2>1 DEF Padded
  <2>3. /\ p \in Seq(B) /\ Len(p) = Len(r) + Len(q)
        /\ \A i \in 1 .. Len(r) : p[i] = r[i]
        /\ \A i \in 1 .. Len(q) : p[Len(r) + i] = q[i]
    BY <2>2, Concat
  <2> QED BY <2>1, <2>3
<1>6. ASSUME NEW i \in 1 .. b, i > Len(r) PROVE p[i] = PadByte
  <2>1. PICK j \in 1 .. k : i = Len(r) + j
    <3>1. i - Len(r) \in 1 .. k /\ i = Len(r) + (i - Len(r))
      BY <1>1, <1>2, <1>6
    <3> QED BY <3>1
  <2> QED BY <1>3, <1>4, <1>5, <2>1
<1>7. Len(p) = b
  BY <1>1, <1>2, <1>3, <1>5
<1> QED BY <1>5, <1>6, <1>7 DEF PadResult

\* A bad sector takes the rest of its block with it.
LEMMA BadRest ==
  ASSUME IInv, InputInv, Recovering, Active, inpos = Start + Len(fed),
         NEW i \in Nat, i < cmd.ibs, inpos + i \in cmd.bad,
         NEW j \in Nat, j < cmd.ibs, inpos + j < Len(cmd.src)
  PROVE  inpos + j \in cmd.bad
<1>1. PICK k \in Nat : Len(fed) = k * cmd.ibs
  BY DEF InputInv, Recovered
<1>2. PICK q, b : q = cmd.skip + k /\ b = cmd.ibs
  OBVIOUS
<1>3. q \in Nat /\ b \in Nat /\ b > 0 /\ cmd.skip \in Nat
  <2>1. cmd.skip \in Nat
    BY DEF IInv, TypeOK, Command
  <2> QED BY <1>2, <2>1, LineNumbers
<1>4. inpos = q * b
  BY <1>1, <1>2, <1>3 DEF Start
<1>5. (inpos + i) \div b = q /\ (inpos + j) \div b = q
  BY <1>2, <1>3, <1>4, SameBlock
<1>6. inpos + j \in 0 .. Len(cmd.src) - 1
  BY InputNumbers
<1> QED BY <1>2, <1>5, <1>6 DEF Recovering, BadBlocks

LEMMA ReadDataInput == IInv /\ CountInv /\ InputInv /\ (\E k \in 1 .. cmd.ibs : ReadData(k)) => InputInv'
<1> SUFFICES ASSUME IInv, CountInv, InputInv, NEW k \in 1 .. cmd.ibs, ReadData(k) PROVE InputInv'
  OBVIOUS
<1>1. PICK m, r : Fetched(k, m, r)
  BY DEF Fetched
<1>2. ReadBlock(k, m, r)
  BY <1>1, ReadFacts, Zenon
<1>3. /\ pc \in {"loop", "fill"} /\ cmd' = cmd /\ inpos' = inpos + k /\ k \in Nat /\ k > 0
      /\ inpos + k <= Len(cmd.src) /\ Len(r) = Len(rbuf) + k /\ Len(r) <= cmd.ibs
      /\ r \in Seq(Bytes) /\ m \in Seq(Bytes) /\ Len(m) = k
      /\ \A i \in 1 .. k : m[i] = cmd.src[inpos + i]
      /\ pc' \in {"fill", "conv"}
  BY <1>2 DEF ReadBlock, Accept
<1>4. ~AtEnd /\ ~(cmd.ibs < 1) /\ cmd.ibs \in Nat
  BY <1>3, InputNumbers, LineNumbers DEF AtEnd
<1>5. PlaceInv' /\ Over'
  BY <1>3 DEF PlaceInv, Over, Closed, Succeeded
<1>6. /\ Start' = Start /\ Recovering' = Recovering /\ (\A o : Origin(o)' = Origin(o))
      /\ \A c : Has(c)' = Has(c)
  BY <1>3, SameInputLine, SameLine
<1>7. Faithful'
  <2>1. CASE cmd.bad # {} \/ Has("SYNC")
    BY <1>3, <1>6, <2>1 DEF Faithful
  <2>2. CASE cmd.bad = {} /\ ~Has("SYNC")
    <3>1. /\ inpos = Start + Len(fed) + Len(rbuf)
          /\ \A i \in 1 .. Len(rbuf) : rbuf[i] = cmd.src[Start + Len(fed) + i]
      BY <1>3, <2>2 DEF InputInv, Faithful, Active
    <3>2. PICK f, b : f = Len(fed) /\ b = Len(rbuf)
      OBVIOUS
    <3>3. f \in Nat /\ b \in Nat /\ Start \in Nat /\ rbuf \in Seq(Bytes)
      BY <3>2, BufNumbers, InputNumbers DEF IInv, TypeOK
    <3>4. /\ \A i \in 1 .. Len(rbuf) : r[i] = rbuf[i]
          /\ \A i \in 1 .. k : r[Len(rbuf) + i] = m[i]
      <4>1. PICK B, x : B = Bytes /\ x = rbuf
        OBVIOUS
      <4>2. x \in Seq(B) /\ m \in Seq(B) /\ r = x \o m
        BY <1>1, <1>3, <3>3, <4>1 DEF Fetched
      <4>3. /\ \A i \in 1 .. Len(x) : r[i] = x[i]
            /\ \A i \in 1 .. Len(m) : r[Len(x) + i] = m[i]
        BY <4>2, Concat
      <4> QED BY <1>3, <4>1, <4>3
    <3>5. ASSUME NEW i \in 1 .. Len(r) PROVE r[i] = cmd.src[Start + Len(fed) + i]
      <4>1. CASE i <= b
        <5>1. i \in 1 .. Len(rbuf)
          BY <1>3, <3>2, <3>3, <4>1
        <5> QED BY <3>1, <3>4, <5>1
      <4>2. CASE i > b
        <5>1. PICK j \in 1 .. k : i = b + j
          <6>1. i - b \in 1 .. k /\ i = b + (i - b)
            BY <1>3, <3>2, <3>3, <4>2
          <6> QED BY <6>1
        <5>2. (Start + f + b) + j = Start + f + i
          BY <3>3, <5>1
        <5> QED BY <1>3, <3>1, <3>2, <3>4, <5>1, <5>2
      <4> QED BY <3>3, <1>3, <3>2, <4>1, <4>2
    <3>6. inpos' = Start + f + Len(r)
      BY <1>3, <3>1, <3>2, <3>3
    <3>7. CASE GoOn(r)
      <4>1. rbuf' = r /\ pc' = "fill" /\ UNCHANGED <<inbuf, st, fed>>
        BY <1>2, <2>2, <3>7 DEF ReadBlock
      <4>2. Has("IFULLBLOCK") => st.in_part = 0 /\ Len(fed) = st.in_full * cmd.ibs
        BY <1>3, <1>4, <2>2 DEF InputInv, Faithful, Active
      <4>3. ~Has("SWAB") => \A i \in 1 .. Len(fed) : fed[i] = cmd.src[Start + i]
        BY <1>3, <2>2 DEF InputInv, Faithful, Active
      <4>4. /\ inpos' = Start + Len(fed') + Len(rbuf') /\ inpos' <= Len(cmd.src)
            /\ \A i \in 1 .. Len(rbuf') : rbuf'[i] = cmd.src[Start + Len(fed') + i]
        BY <1>3, <3>2, <3>5, <3>6, <4>1
      <4> QED BY <1>3, <1>6, <4>1, <4>2, <4>3, <4>4 DEF Faithful
    <3>8. CASE ~GoOn(r)
      <4>1. Accept(r)
        BY <1>2, <2>2, <3>8 DEF ReadBlock
      <4>2. Has("IFULLBLOCK") => Len(r) = cmd.ibs
        BY <1>3, <1>4, <3>8 DEF GoOn
      <4>3. Len(r) > 0
        BY <1>3, <3>2, <3>3
      <4> QED BY <1>3, <1>4, <2>2, <3>2, <3>5, <3>6, <4>1, <4>2, <4>3, AcceptFaithful
    <3> QED BY <3>7, <3>8
  <2> QED BY <2>1, <2>2
<1>8. Recovered'
  <2>1. CASE ~Recovering
    BY <1>6, <2>1 DEF Recovered
  <2>2. CASE Recovering
    <3>1. Has("SYNC") /\ ~cmd.inpipe /\ pc = "loop"
      BY <1>3, <2>2 DEF Recovering, Has, InputInv, Recovered
    <3>2. rbuf = <<>> /\ inpos = Start + Len(fed)
      BY <1>3, <1>4, <2>2, <3>1 DEF IInv, ReadInv, InputInv, Recovered, Active
    <3>3. Len(r) = k /\ \A i \in 1 .. k : r[i] = cmd.src[inpos + i]
      <4>1. Len(rbuf) = 0 /\ r = m
        BY <1>1, <1>3, <3>2 DEF Fetched
      <4> QED BY <1>3, <4>1
    <3>4. PICK p, b : p = Padded(r, b) /\ b = cmd.ibs
      OBVIOUS
    <3>5. /\ p \in Seq(Bytes) /\ Len(p) = b
          /\ \A i \in 1 .. Len(r) : p[i] = r[i]
          /\ \A i \in 1 .. b : i > Len(r) => p[i] = PadByte
      <4>1. r \in Seq(Bytes) /\ b \in Nat /\ Len(r) <= b
        BY <1>3, <1>4, <3>4
      <4>2. PadResult(r, b, p)
        BY <3>4, <4>1, PaddedFacts, Zenon
      <4> QED BY <4>2 DEF PadResult
    <3>6. Accept(p)
      BY <1>2, <3>1, <3>4 DEF ReadBlock
    <3>7. k \in Good /\ (\A j \in Good : j <= k) /\ Wanted = b
      <4>1. k \in Good /\ (\A j \in Good : j <= k)
        BY <3>1 DEF ReadData, Returned
      <4>2. b - 0 = b /\ Len(<<>>) = 0
        BY <1>4, <3>4
      <4> QED BY <3>2, <3>4, <4>1, <4>2 DEF Wanted
    <3>8. \A i \in inpos .. inpos + k - 1 : i < Len(cmd.src) /\ i \notin cmd.bad
      BY <3>7 DEF Good
    <3>9. inpos \notin cmd.bad /\ k <= b
      <4>1. inpos \in inpos .. inpos + k - 1
        BY <1>3, Offsets
      <4>2. k \in 1 .. Wanted
        BY <3>7 DEF Good
      <4> QED BY <1>4, <3>4, <3>7, <3>8, <4>1, <4>2
    <3>10. k = b \/ inpos + k >= Len(cmd.src)
      <4> SUFFICES ASSUME k # b, inpos + k < Len(cmd.src) PROVE FALSE
        BY <1>3, InputNumbers
      <4>1. k + 1 \in 1 .. Wanted /\ ~(k + 1 <= k) /\ k < b /\ (k + 1) - 1 = k
        BY <1>3, <1>4, <3>4, <3>7, <3>9
      <4>2. k + 1 \notin Good
        BY <3>7, <4>1
      <4>3. PICK o \in inpos .. inpos + (k + 1) - 1 : ~(o < Len(cmd.src) /\ o \notin cmd.bad)
        BY <4>1, <4>2 DEF Good
      <4>4. o = inpos + k
        <5>1. o \notin inpos .. inpos + k - 1
          BY <3>8, <4>3
        <5> QED BY <1>3, <4>3, <5>1, Offsets
      <4>5. inpos + k \in cmd.bad
        BY <4>3, <4>4
      <4>6. 0 \in Nat /\ 0 < cmd.ibs /\ inpos + 0 = inpos /\ inpos + 0 < Len(cmd.src)
        BY <1>3, <1>4, InputNumbers
      <4>7. Active
        BY <3>1 DEF Active
      <4>8. inpos + 0 \in cmd.bad
        BY <1>3, <2>2, <3>2, <3>4, <4>1, <4>5, <4>6, <4>7, BadRest
      <4> QED BY <3>9, <4>6, <4>8
    <3>11. ASSUME NEW i \in 1 .. cmd.ibs PROVE p[i] = Origin(Start + Len(fed) + i - 1)
      <4>1. PICK o : o = Start + Len(fed) + i - 1
        OBVIOUS
      <4>2. o = inpos + i - 1 /\ o + 1 = inpos + i /\ o \in Nat
        BY <1>4, <3>2, <4>1, InputNumbers
      <4>3. CASE i <= k
        <5>1. i \in 1 .. k /\ o \in inpos .. inpos + k - 1
          <6>1. i \in Nat /\ i >= 1 /\ k \in Nat /\ inpos \in Nat
            BY <1>3, <1>4, Offsets
          <6> QED BY <4>2, <4>3, <6>1
        <5>2. o < Len(cmd.src) /\ o \notin cmd.bad
          BY <3>8, <5>1
        <5>3. p[i] = cmd.src[o + 1]
          BY <3>3, <3>5, <4>2, <5>1
        <5> QED BY <4>1, <5>2, <5>3 DEF Origin
      <4>4. CASE i > k
        <5>1. k # b
          <6>1. i <= b /\ k \in Nat /\ b \in Nat
            BY <1>3, <1>4, <3>4
          <6> QED BY <4>4, <6>1
        <5>3. ~(o < Len(cmd.src))
          <6>1. PICK l, a : l = Len(cmd.src) /\ a = inpos
            OBVIOUS
          <6>2. l \in Nat /\ a \in Nat /\ k \in Nat /\ i \in Nat /\ a + k >= l /\ o = a + i - 1
            BY <1>3, <3>10, <4>2, <5>1, <6>1, InputNumbers
          <6>3. ~(o < l)
            BY <4>4, <6>2
          <6> QED BY <6>1, <6>3
        <5>2. p[i] = PadByte
          BY <3>3, <3>4, <3>5, <4>4
        <5> QED BY <4>1, <5>2, <5>3 DEF Origin
      <4> QED BY <1>3, <1>4, <4>3, <4>4
    <3>12. inpos' = inpos + cmd.ibs \/ inpos' >= Len(cmd.src)
      BY <1>3, <3>4, <3>10
    <3> QED BY <1>3, <2>2, <3>1, <3>2, <3>4, <3>5, <3>6, <3>11, <3>12, AcceptRecovered
  <2> QED BY <2>1, <2>2
<1> QED BY <1>5, <1>7, <1>8 DEF InputInv

LEMMA ReadOtherInput == IInv /\ CountInv /\ InputInv /\ (Limit \/ ReadEnd \/ ReadError) => InputInv'
<1> SUFFICES ASSUME IInv, CountInv, InputInv, Limit \/ ReadEnd \/ ReadError PROVE InputInv'
  OBVIOUS
<1>0. pc \in {"loop", "fill"} /\ cmd' = cmd /\ Active
  BY DEF Limit, ReadEnd, ReadError, Reading, Active
<1>1. CASE Limit
  <2>1. UNCHANGED <<cmd, inpos, rbuf, fed, st>> /\ pc' = "close" /\ CountReached
    BY <1>1 DEF Limit, reader
  <2>2. ~Closed' /\ Active'
    BY <2>1 DEF Closed, Succeeded, Active
  <2> QED BY <1>0, <2>1, <2>2, SameInput
<1>2. CASE ReadEnd /\ rbuf = <<>>
  <2>1. UNCHANGED <<cmd, inpos, rbuf, fed, st>> /\ pc' = "close" /\ AtEnd
    BY <1>2 DEF ReadEnd, reader
  <2>2. ~Closed' /\ Active'
    BY <2>1 DEF Closed, Succeeded, Active
  <2> QED BY <1>0, <2>1, <2>2, SameInput
<1>3. CASE ReadError /\ ~Has("NOERROR")
  <2>1. UNCHANGED <<cmd, inpos, rbuf, fed, st>> /\ pc' = "exit" /\ code' = 1
    BY <1>3 DEF ReadError, reader, Exit
  <2>2. ~Closed' /\ ~Active'
    BY <2>1 DEF Closed, Succeeded, Active
  <2> QED BY <1>0, <2>1, <2>2, SameInput
<1>4. /\ Start' = Start /\ Recovering' = Recovering /\ (\A o : Origin(o)' = Origin(o))
      /\ \A c : Has(c)' = Has(c)
  BY <1>0, SameInputLine, SameLine
<1>5. CASE ReadEnd /\ rbuf # <<>>
  <2>1. Accept(rbuf) /\ inpos' = inpos /\ AtEnd
    BY <1>5 DEF ReadEnd
  <2>2. pc = "fill" /\ rbuf \in Seq(Bytes)
    BY <1>0, <1>5 DEF IInv, TypeOK, ReadInv
  <2>3. Len(rbuf) < cmd.ibs /\ Len(rbuf) > 0 /\ Len(rbuf) \in Nat /\ Len(rbuf) <= cmd.ibs
    <3>1. Len(rbuf) < cmd.ibs
      BY <2>2 DEF IInv, ReadInv
    <3>2. Len(rbuf) > 0 /\ Len(rbuf) \in Nat
      BY <1>5, <2>2
    <3> QED BY <3>1, <3>2, LineNumbers
  <2>4. PlaceInv' /\ Over'
    BY <2>1 DEF Accept, PlaceInv, Over, Closed, Succeeded
  <2>5. Recovered'
    BY <1>4, <2>2 DEF InputInv, Recovered
  <2>6. Faithful'
    <3>1. CASE cmd.bad # {} \/ Has("SYNC")
      BY <1>0, <1>4, <3>1 DEF Faithful
    <3>2. CASE cmd.bad = {} /\ ~Has("SYNC")
      <4>1. /\ inpos = Start + Len(fed) + Len(rbuf)
            /\ Len(fed) + Len(rbuf) > 0 => inpos <= Len(cmd.src)
            /\ \A i \in 1 .. Len(rbuf) : rbuf[i] = cmd.src[Start + Len(fed) + i]
        BY <1>0, <3>2 DEF InputInv, Faithful
      <4>2. PICK r : r = rbuf
        OBVIOUS
      <4>3. Len(fed) + Len(rbuf) > 0 /\ inpos' >= Len(cmd.src)
        BY <2>1, <2>3, BufNumbers DEF AtEnd
      <4>4. /\ r \in Seq(Bytes) /\ Len(r) <= cmd.ibs /\ Len(r) > 0 /\ Accept(r)
            /\ inpos' = Start + Len(fed) + Len(r) /\ inpos' <= Len(cmd.src)
            /\ \A i \in 1 .. Len(r) : r[i] = cmd.src[Start + Len(fed) + i]
        BY <2>1, <2>2, <2>3, <4>1, <4>2, <4>3
      <4> QED BY <1>0, <3>2, <4>3, <4>4, AcceptFaithful
    <3> QED BY <3>1, <3>2
  <2> QED BY <2>4, <2>5, <2>6 DEF InputInv
<1>6. CASE ReadError /\ Has("NOERROR")
  <2>1. cmd.bad # {} /\ ~AtEnd /\ inpos \in cmd.bad /\ inpos' = PastError
    BY <1>6 DEF ReadError, BadHere
  <2>2. pc' \in {"loop", "conv"}
    BY <1>6 DEF ReadError, Accept
  <2>3. PlaceInv' /\ Over' /\ Faithful'
    BY <1>0, <2>1, <2>2 DEF PlaceInv, Over, Closed, Succeeded, Faithful
  <2>4. Recovered'
    <3>1. CASE ~Recovering
      BY <1>4, <3>1 DEF Recovered
    <3>2. CASE Recovering
      <4>1. Has("SYNC") /\ ~cmd.inpipe /\ pc = "loop" /\ inpos = Start + Len(fed)
        BY <1>0, <2>1, <3>2 DEF Recovering, Has, InputInv, Recovered
      <4>2. PICK r, b : r = Fill(PadByte, b) /\ b = cmd.ibs
        OBVIOUS
      <4>3. b \in Nat /\ b > 0 /\ PadByte \in Bytes
        BY <4>2, Facts
      <4>4. r \in Seq(Bytes) /\ Len(r) = b
        <5>1. r \in Seq(Bytes) /\ Len(r) = (IF b > 0 THEN b ELSE 0)
          BY <4>2, <4>3, FillLen
        <5> QED BY <4>3, <5>1
      <4>5. Accept(r) /\ inpos' = inpos + cmd.ibs
        BY <1>6, <2>1, <4>1, <4>2 DEF ReadError, PastError
      <4>6. ASSUME NEW i \in 1 .. cmd.ibs PROVE r[i] = Origin(Start + Len(fed) + i - 1)
        <5>1. PICK o, j : o = Start + Len(fed) + i - 1 /\ j = i - 1
          OBVIOUS
        <5>2. i \in Nat /\ j \in Nat /\ j < cmd.ibs /\ 0 < cmd.ibs /\ inpos \in Nat
          BY <4>2, <4>3, <5>1, Offsets
        <5>3. o = inpos + j /\ inpos + 0 = inpos /\ 0 \in Nat
          BY <4>1, <5>1, <5>2, InputNumbers
        <5>4. r[i] = PadByte
          BY <4>2 DEF Fill
        <5>5. o < Len(cmd.src) => o \in cmd.bad
          <6>1. inpos + 0 \in cmd.bad
            BY <2>1, <5>3
          <6> QED BY <1>0, <3>2, <4>1, <5>2, <5>3, <6>1, BadRest
        <5> QED BY <5>1, <5>4, <5>5 DEF Origin
      <4> QED BY <1>0, <3>2, <4>1, <4>2, <4>4, <4>5, <4>6, AcceptRecovered
    <3> QED BY <3>1, <3>2
  <2> QED BY <2>3, <2>4 DEF InputInv
<1> QED BY <1>1, <1>2, <1>3, <1>5, <1>6

\* The conversions, dd_out() and dd_close() read nothing.
LEMMA CopyInput ==
  IInv /\ CountInv /\ InputInv
    /\ (\/ ConvertNone \/ Def \/ BlockToss \/ BlockShort \/ BlockRecord \/ UnblockRecord \/ UnblockShort
        \/ WriteHole \/ (\E nw \in 1 .. cnt : WriteData(nw)) \/ WriteNothing \/ WriteFails
        \/ Close \/ End)
    => InputInv'
<1> SUFFICES ASSUME IInv, InputInv,
                    \/ ConvertNone \/ Def \/ BlockToss \/ BlockShort \/ BlockRecord \/ UnblockRecord \/ UnblockShort
                    \/ WriteHole \/ (\E nw \in 1 .. cnt : WriteData(nw)) \/ WriteNothing \/ WriteFails
                    \/ Close \/ End
             PROVE  InputInv'
  OBVIOUS
<1>0. back \in {"loop", "conv", "end"} /\ st \in [DOMAIN NoStats -> Nat]
  BY DEF IInv, TypeOK
<1>1. UNCHANGED <<cmd, inpos, rbuf, fed>>
  BY DEF ConvertNone, Def, BlockToss, BlockShort, BlockRecord, UnblockRecord, UnblockShort,
         WriteHole, WriteData, WriteNothing, WriteFails, Close, End, Advance, reader
<1>2. st'.in_full = st.in_full /\ st'.in_part = st.in_part
  <2>1. CASE ConvertNone \/ Def \/ BlockToss \/ BlockShort \/ UnblockRecord \/ UnblockShort \/ WriteNothing
             \/ WriteFails \/ End
    BY <2>1 DEF ConvertNone, Def, BlockToss, BlockShort, UnblockRecord, UnblockShort, WriteNothing,
           WriteFails, End
  <2>2. CASE BlockRecord \/ Close
    <3>1. PICK t : st' = [st EXCEPT !.trunc = t]
      BY <2>2 DEF BlockRecord, Close
    <3> QED BY <1>0, <3>1 DEF NoStats
  <2>3. CASE WriteHole \/ (\E nw \in 1 .. cnt : WriteData(nw))
    <3>1. PICK nw : st' = Counted(nw)
      BY <2>3 DEF WriteHole, WriteData, Advance
    <3>2. PICK a, b, c : st' = [st EXCEPT !.bytes = a, !.out_full = b, !.out_part = c]
      BY <3>1 DEF Counted
    <3> QED BY <1>0, <3>2 DEF NoStats
  <2> QED BY <2>1, <2>2, <2>3
<1>3. pc' \notin {"open", "skip", "seek", "fill"}
  <2>1. CASE ConvertNone \/ Def \/ BlockToss \/ BlockShort \/ BlockRecord \/ UnblockRecord \/ UnblockShort
    <3>1. CASE BlockRecord
      BY <3>1 DEF BlockRecord, Emit, StartOut
    <3>2. CASE ConvertNone \/ Def \/ UnblockRecord
      BY <3>2 DEF ConvertNone, Def, UnblockRecord, Emit, StartOut
    <3>3. CASE BlockToss \/ BlockShort \/ UnblockShort
      BY <3>3 DEF BlockToss, BlockShort, UnblockShort
    <3> QED BY <2>1, <3>1, <3>2, <3>3
  <2>2. CASE WriteHole
    <3>1. pc = "out" /\ pc' \in {"out", back}
      BY <2>2 DEF WriteHole, Advance
    <3> QED BY <1>0, <3>1
  <2>3. CASE \E nw \in 1 .. cnt : WriteData(nw)
    <3>1. pc = "out" /\ pc' \in {"out", back}
      BY <2>3 DEF WriteData, Advance
    <3> QED BY <1>0, <3>1
  <2>4. CASE WriteNothing \/ WriteFails
    <3>1. pc' \in {"exit", back}
      BY <2>4 DEF WriteNothing, WriteFails, Exit
    <3> QED BY <1>0, <3>1
  <2>5. CASE Close \/ End
    BY <2>5 DEF Close, End, StartOut, Exit
  <2> QED BY <2>1, <2>2, <2>3, <2>4, <2>5
<1>4. Active
  BY DEF ConvertNone, Def, BlockToss, BlockShort, BlockRecord, UnblockRecord, UnblockShort,
         WriteHole, WriteData, WriteNothing, WriteFails, Close, End, Active
<1>5. (pc' = "close" \/ Closed') => pc = "close" \/ Closed
  <2>1. CASE ConvertNone \/ Def \/ BlockToss \/ BlockShort \/ BlockRecord \/ UnblockRecord \/ UnblockShort
    BY <2>1 DEF ConvertNone, Def, BlockToss, BlockShort, BlockRecord, UnblockRecord, UnblockShort,
           Emit, StartOut, Closed, Succeeded
  <2>2. CASE WriteHole \/ (\E nw \in 1 .. cnt : WriteData(nw))
    <3>1. pc = "out" /\ pc' \in {"out", back} /\ back' = back
      <4>1. CASE WriteHole
        BY <4>1 DEF WriteHole, Advance
      <4>2. CASE \E nw \in 1 .. cnt : WriteData(nw)
        BY <4>2 DEF WriteData, Advance
      <4> QED BY <2>2, <4>1, <4>2
    <3> QED BY <1>0, <3>1 DEF Closed, Succeeded
  <2>3. CASE WriteNothing
    <3>1. pc = "out" /\ pc' = back /\ back' = back
      BY <2>3 DEF WriteNothing
    <3> QED BY <1>0, <3>1 DEF Closed, Succeeded
  <2>4. CASE WriteFails
    <3>1. pc = "out" /\ pc' = "exit" /\ code' \in {1, 2}
      BY <2>4 DEF WriteFails, Exit
    <3> QED BY <3>1 DEF Closed, Succeeded
  <2>5. CASE Close \/ End
    BY <2>5 DEF Close, End, Closed
  <2> QED BY <2>1, <2>2, <2>3, <2>4, <2>5
<1> QED BY <1>1, <1>2, <1>3, <1>4, <1>5, SameInput

LEMMA NextInput == IInv /\ CountInv /\ InputInv /\ [Next]_vars => InputInv'
<1> SUFFICES ASSUME IInv, CountInv, InputInv, [Next]_vars PROVE InputInv'
  OBVIOUS
<1>1. CASE Copy
  BY <1>1, SetupInput, ReadDataInput, ReadOtherInput, CopyInput, Zenon DEF Copy
<1>2. CASE UNCHANGED vars
  <2>1. UNCHANGED <<cmd, pc, inpos, rbuf, fed, st, n, cnt, back, code>>
    BY <1>2 DEF vars
  <2>2. /\ Start' = Start /\ Recovering' = Recovering /\ (\A o : Origin(o)' = Origin(o))
        /\ \A c : Has(c)' = Has(c)
    BY <2>1, SameInputLine, SameLine
  <2>3. CountReached' = CountReached /\ AtEnd' = AtEnd /\ Active' = Active /\ Closed' = Closed
        /\ Succeeded' = Succeeded
    BY <2>1 DEF CountReached, AtEnd, Active, Closed, Succeeded
  <2> QED BY <2>1, <2>2, <2>3 DEF InputInv, PlaceInv, Faithful, Over, Recovered
<1> QED BY <1>1, <1>2 DEF Next, Terminating

\* At every moment what dd_in() has handed on is the input from skip= on, in its order, and the
\* read offset is behind it, errors and padding included.
THEOREM InputInvariance == Spec => [](IInv /\ CountInv /\ InputInv)
<1>1. Init => IInv /\ CountInv /\ InputInv
  BY InitInv, InitCount, InitInput
<1>2. (IInv /\ CountInv /\ InputInv) /\ [Next]_vars => (IInv /\ CountInv /\ InputInv)'
  BY NextInv, NextCount, NextInput
<1> QED BY <1>1, <1>2, PTL DEF Spec

\* conv=noerror,sync: what can be read is at its own offset, what cannot is padding.
THEOREM RecoveredInPlace == Spec => []RecoveryAligned
<1>1. IInv /\ CountInv /\ InputInv => RecoveryAligned
  <2> SUFFICES ASSUME IInv, InputInv, Recovering, NEW i \in DOMAIN fed
               PROVE  fed[i] = Origin(cmd.skip * cmd.ibs + i - 1)
    BY DEF RecoveryAligned, Recovering, Origin
  <2>1. fed \in Seq(Bytes)
    BY DEF IInv, TypeOK
  <2>2. i \in 1 .. Len(fed)
    BY <2>1
  <2> QED BY <2>2 DEF InputInv, Recovered, Start
<1> QED BY <1>1, InputInvariance, PTL

LEMMA DropFacts ==
  ASSUME NEW B, NEW s \in Seq(B), NEW k \in Nat, NEW d, d = Drop(s, k)
  PROVE  /\ d \in Seq(B) /\ Len(d) = (IF k <= Len(s) THEN Len(s) - k ELSE 0)
         /\ \A i \in 1 .. Len(d) : d[i] = s[k + i]
<1>1. CASE k <= Len(s)
  <2>1. PICK a, b : a = k + 1 /\ b = Len(s)
    OBVIOUS
  <2>2. a \in Nat /\ b \in Nat /\ \A i \in a .. b : s[i] \in B
    BY <2>1
  <2>3. d = [i \in 1 .. (b - a) + 1 |-> s[(i + a) - 1]]
    BY <2>1 DEF Drop
  <2>4. PICK c : c = b - a + 1
    OBVIOUS
  <2>5. c \in Nat /\ c = Len(s) - k
    BY <1>1, <2>1, <2>2, <2>4
  <2>6. d = [i \in 1 .. c |-> s[(i + a) - 1]] /\ \A i \in 1 .. c : (i + a) - 1 \in a .. b /\ (i + a) - 1 = k + i
    BY <2>1, <2>2, <2>3, <2>4, <2>5
  <2>7. \A i \in 1 .. c : s[(i + a) - 1] \in B
    BY <2>2, <2>6
  <2>8. d \in Seq(B) /\ Len(d) = c
    BY <2>5, <2>6, <2>7
  <2> QED BY <1>1, <2>5, <2>6, <2>8
<1>2. CASE k > Len(s)
  <2>1. d = <<>>
    BY <1>2 DEF Drop
  <2> QED BY <1>2, <2>1
<1> QED BY <1>1, <1>2

\* iflag=fullblock makes count= exact, however short the reads are.
THEOREM FullblockCountsExactly == Spec => []FullblockExact
<1>1. IInv /\ CountInv /\ InputInv => FullblockExact
  <2> SUFFICES ASSUME IInv, CountInv, InputInv, Succeeded, Has("IFULLBLOCK"), cmd.bad = {}, cmd.cpy_cnt > 0
               PROVE  Len(fed) = Smaller(cmd.cpy_cnt * cmd.ibs, Len(Drop(cmd.src, cmd.skip * cmd.ibs)))
    BY DEF FullblockExact
  <2>1. PICK f, b, c, a, p, s, l :
          /\ f = Len(fed) /\ b = cmd.ibs /\ c = cmd.cpy_cnt /\ a = st.in_full /\ p = st.in_part
          /\ s = Start /\ l = Len(cmd.src)
    OBVIOUS
  <2>2. f \in Nat /\ b \in Nat /\ a \in Nat /\ p \in Nat /\ s \in Nat /\ l \in Nat
    BY <2>1, BufNumbers, LineNumbers, StatNumbers, InputNumbers
  <2>3. c \in Nat /\ c > 0
    <3>1. cmd.cpy_cnt \in Nat \cup {-1}
      BY DEF IInv, TypeOK, Command
    <3> QED BY <2>1, <3>1
  <2>4. ~Has("SYNC")
    BY DEF Has, ddflags, IInv, TypeOK, Legal
  <2>5. Closed
    BY DEF Closed
  <2>6. rbuf = <<>> /\ (CountReached \/ AtEnd)
    BY <2>5 DEF CountInv, Emptied, InputInv, Over
  <2>7. /\ inpos = s + f /\ (f > 0 => inpos <= l)
        /\ inpos >= l \/ (p = 0 /\ f = a * b)
    <3>1. /\ inpos = Start + Len(fed) + Len(rbuf)
          /\ Len(fed) + Len(rbuf) > 0 => inpos <= Len(cmd.src)
          /\ AtEnd \/ (st.in_part = 0 /\ Len(fed) = st.in_full * cmd.ibs)
      BY <2>4 DEF InputInv, Faithful
    <3>2. Len(rbuf) = 0 /\ s + f + 0 = s + f /\ f + 0 = f
      BY <2>2, <2>6
    <3> QED BY <2>1, <3>1, <3>2 DEF AtEnd
  <2>8. Has("COUNT") /\ Allowed = c
    <3>1. cmd.cpy_cnt # 0 <=> Has("COUNT")
      BY DEF IInv, TypeOK, Legal, Has, ddflags
    <3>2. c # 0 /\ c # -1
      BY <2>3
    <3> QED BY <2>1, <3>1, <3>2 DEF Allowed
  <2>9. a + p <= c /\ f <= (a + p) * b
    <3>1. a + p <= c /\ f <= a * b + p * (b - 1)
      BY <2>1, <2>8 DEF CountInv, CountedIn
    <3>2. (a + p) * b = a * b + p * b /\ p * (b - 1) = p * b - p /\ a * b \in Nat /\ p * b \in Nat
      BY <2>2
    <3> QED BY <2>2, <3>1, <3>2
  <2>10. (a + p) * b <= c * b /\ c * b \in Nat
    <3>1. PICK d \in Nat : c = (a + p) + d
      <4>1. c - (a + p) \in Nat /\ c = (a + p) + (c - (a + p))
        BY <2>2, <2>3, <2>9
      <4> QED BY <4>1
    <3>2. c * b = (a + p) * b + d * b /\ d * b \in Nat /\ (a + p) * b \in Nat
      BY <2>2, <3>1
    <3>3. PICK u, v, w : u = c * b /\ v = (a + p) * b /\ w = d * b
      OBVIOUS
    <3> QED BY <3>2, <3>3
  <2>11. PICK e : e = Len(Drop(cmd.src, s))
    OBVIOUS
  <2>12. e = (IF s <= l THEN l - s ELSE 0)
    BY <2>1, <2>2, <2>11, InputNumbers, DropFacts
  <2>13. CASE inpos >= l
    <3>1. e = f
      BY <2>2, <2>7, <2>12, <2>13
    <3>2. f <= c * b
      <4>1. PICK u, v : u = c * b /\ v = (a + p) * b
        OBVIOUS
      <4>2. u \in Nat /\ v \in Nat
        BY <2>2, <2>10, <4>1
      <4> QED BY <2>2, <2>9, <2>10, <4>1, <4>2
    <3> QED BY <2>1, <2>2, <2>10, <2>11, <3>1, <3>2 DEF Smaller, Start
  <2>14. CASE ~(inpos >= l)
    <3>1. p = 0 /\ f = a * b /\ CountReached
      BY <2>1, <2>6, <2>7, <2>14 DEF AtEnd
    <3>2. a + p >= c
      BY <2>1, <2>3, <3>1 DEF CountReached
    <3>3. a = c
      BY <2>2, <2>3, <2>9, <3>1, <3>2
    <3>4. f < e
      BY <2>2, <2>7, <2>12, <2>14
    <3> QED BY <2>1, <2>2, <2>11, <3>1, <3>3, <3>4 DEF Smaller, Start
  <2> QED BY <2>13, <2>14
<1> QED BY <1>1, InputInvariance, PTL

----------------------------------------------------------------------------
(***************************************************************************)
(* The output: what has been sent is what was written, behind it what is   *)
(* buffered.                                                               *)
(***************************************************************************)

\* d is what file f shows from offset b up to p, and a hole of q bytes.
Shows(f, p, b, q, d) ==
  /\ d \in Seq(Bytes) /\ Len(d) = (p - b) + q
  /\ \A i \in 1 .. Len(d) : d[i] = IF b + i <= Len(f) /\ i <= p - b THEN f[b + i] ELSE NUL

Shown(f, p, b, q) ==
  [i \in 1 .. (p - b) + q |-> IF b + i <= Len(f) /\ i <= p - b THEN f[b + i] ELSE NUL]

LEMMA ShownFacts ==
  ASSUME NEW f \in Seq(Bytes), NEW p \in Nat, NEW b \in Nat, NEW q \in Nat, b <= p,
         NEW d, d = Shown(f, p, b, q)
  PROVE  Shows(f, p, b, q, d)
<1>1. PICK k : k = (p - b) + q
  OBVIOUS
<1>2. k \in Nat
  BY <1>1
<1>3. d = [i \in 1 .. k |-> IF b + i <= Len(f) /\ i <= p - b THEN f[b + i] ELSE NUL]
  BY <1>1 DEF Shown
<1>4. ASSUME NEW i \in 1 .. k PROVE (IF b + i <= Len(f) /\ i <= p - b THEN f[b + i] ELSE NUL) \in Bytes
  <2>1. CASE b + i <= Len(f)
    <3>1. b + i \in 1 .. Len(f)
      BY <1>2, <2>1
    <3> QED BY <3>1 DEF Bytes
  <2>2. CASE ~(b + i <= Len(f))
    BY <2>2 DEF Bytes
  <2> QED BY <2>1, <2>2
<1>5. d \in Seq(Bytes) /\ Len(d) = k
  <2>1. PICK B : B = Bytes
    OBVIOUS
  <2>2. ByIndex(B, k, d)
    BY <1>3, <1>4, <2>1 DEF ByIndex
  <2>3. d \in Seq(B) /\ Len(d) = k
    BY <1>2, <2>2, IndexedSeq, Zenon
  <2> QED BY <2>1, <2>3
<1>6. \A i \in 1 .. k : d[i] = IF b + i <= Len(f) /\ i <= p - b THEN f[b + i] ELSE NUL
  BY <1>3
<1> QED BY <1>1, <1>5, <1>6 DEF Shows

\* A hole grows by the bytes of z, which are NUL.
LEMMA ShowsHole ==
  ASSUME NEW f \in Seq(Bytes), NEW p \in Nat, NEW b \in Nat, NEW q \in Nat, b <= p,
         NEW d, Shows(f, p, b, q, d), NEW z \in Seq(Bytes), \A i \in 1 .. Len(z) : z[i] = NUL,
         NEW e, Shows(f, p, b, q + Len(z), e)
  PROVE  Joined(d, z, e)
<1>1. PICK l, m, k : l = Len(d) /\ m = Len(z) /\ k = p - b
  OBVIOUS
<1>2. /\ d \in Seq(Bytes) /\ e \in Seq(Bytes) /\ l = k + q /\ Len(e) = l + m
      /\ l \in Nat /\ m \in Nat /\ k \in Nat
  <2>1. m \in Nat /\ k \in Nat
    BY <1>1
  <2> QED BY <1>1, <2>1 DEF Shows
<1>3. \A i \in 1 .. l : d[i] = e[i]
  BY <1>1, <1>2 DEF Shows
<1>4. ASSUME NEW i \in 1 .. m PROVE e[l + i] = z[i]
  <2>1. l + i \in 1 .. l + m /\ ~(l + i <= k)
    BY <1>2
  <2>2. e[l + i] = NUL
    BY <1>1, <1>2, <2>1 DEF Shows
  <2> QED BY <1>1, <2>2
<1> QED BY <1>1, <1>2, <1>3, <1>4, JoinedIs

\* The bytes of s are written behind the hole.
LEMMA ShowsWrite ==
  ASSUME NEW f \in Seq(Bytes), NEW p \in Nat, NEW b \in Nat, NEW q \in Nat, b <= p,
         NEW d, Shows(f, p, b, q, d), q > 0 => Len(f) <= p,
         NEW s \in Seq(Bytes), NEW o, o = p + q, NEW g, WriteResult(f, o, s, g),
         NEW r, r = o + Len(s), NEW e, Shows(g, r, b, 0, e)
  PROVE  Joined(d, s, e)
<1>1. PICK l, m, k : l = Len(d) /\ m = Len(s) /\ k = p - b
  OBVIOUS
<1>2. /\ d \in Seq(Bytes) /\ e \in Seq(Bytes) /\ l = k + q /\ Len(e) = l + m
      /\ l \in Nat /\ m \in Nat /\ k \in Nat /\ o = b + l /\ r = o + m /\ r - b = l + m /\ o \in Nat
  <2>1. m \in Nat /\ k \in Nat
    BY <1>1
  <2>2. l = k + q
    BY <1>1 DEF Shows
  <2>3. l \in Nat /\ o = b + l /\ r = o + m /\ o \in Nat /\ r - b = l + m
    BY <1>1, <2>1, <2>2
  <2>4. Len(e) = (r - b) + 0
    BY DEF Shows
  <2> QED BY <1>1, <2>1, <2>2, <2>3, <2>4 DEF Shows
<1>3. /\ Len(g) \in Nat /\ Len(f) \in Nat /\ Len(g) >= o + m /\ Len(g) >= Len(f)
      /\ \A i \in 1 .. Len(g) : g[i] = IF i \in o + 1 .. o + m THEN s[i - o]
                                       ELSE IF i <= Len(f) THEN f[i] ELSE NUL
  <2>1. g \in Seq(Bytes) /\ Len(g) = (IF Len(f) > o + m THEN Len(f) ELSE o + m)
    BY <1>1 DEF WriteResult
  <2>2. Len(g) \in Nat /\ Len(f) \in Nat
    BY <2>1
  <2> QED BY <1>1, <1>2, <2>1, <2>2 DEF WriteResult
<1>4. \A i \in 1 .. l + m : e[i] = g[b + i]
  <2> SUFFICES ASSUME NEW i \in 1 .. l + m PROVE e[i] = g[b + i]
    OBVIOUS
  <2>1. i \in 1 .. Len(e) /\ b + i <= Len(g) /\ i <= r - b
    BY <1>2, <1>3
  <2> QED BY <2>1 DEF Shows
<1>5. ASSUME NEW i \in 1 .. l PROVE e[i] = d[i]
  <2>1. i \in 1 .. l + m /\ b + i \in 1 .. Len(g) /\ b + i \notin o + 1 .. o + m /\ i \in 1 .. Len(d)
    BY <1>1, <1>2, <1>3
  <2>2. e[i] = (IF b + i <= Len(f) THEN f[b + i] ELSE NUL)
    BY <1>3, <1>4, <2>1
  <2>3. d[i] = (IF b + i <= Len(f) /\ i <= p - b THEN f[b + i] ELSE NUL)
    BY <2>1 DEF Shows
  <2>4. ~(i <= p - b) => ~(b + i <= Len(f))
    BY <1>1, <1>2, <1>3
  <2> QED BY <2>2, <2>3, <2>4
<1>6. ASSUME NEW i \in 1 .. m PROVE e[l + i] = s[i]
  <2>1. /\ l + i \in 1 .. l + m /\ b + (l + i) \in 1 .. Len(g) /\ b + (l + i) \in o + 1 .. o + m
        /\ (b + (l + i)) - o = i
    BY <1>2, <1>3
  <2> QED BY <1>3, <1>4, <2>1
<1> QED BY <1>1, <1>2, <1>5, <1>6, JoinedIs

\* Seeking over the hole shows nothing else.
LEMMA ShowsSeek ==
  ASSUME NEW f \in Seq(Bytes), NEW p \in Nat, NEW b \in Nat, NEW q \in Nat, b <= p,
         NEW d, Shows(f, p, b, q, d), q > 0 => Len(f) <= p,
         NEW r, r = p + q, NEW e, Shows(f, r, b, 0, e)
  PROVE  d = e
<1>1. PICK l, k : l = Len(d) /\ k = p - b
  OBVIOUS
<1>2. /\ d \in Seq(Bytes) /\ e \in Seq(Bytes) /\ l = k + q /\ Len(e) = l
      /\ l \in Nat /\ k \in Nat /\ r - b = l /\ Len(f) \in Nat
  <2>1. k \in Nat /\ r - b = k + q
    BY <1>1
  <2>2. l = k + q /\ Len(e) = (r - b) + 0
    BY <1>1 DEF Shows
  <2> QED BY <2>1, <2>2 DEF Shows
<1>3. ASSUME NEW i \in 1 .. Len(d) PROVE d[i] = e[i]
  <2>1. i \in 1 .. Len(e) /\ i <= r - b
    BY <1>1, <1>2
  <2>2. e[i] = (IF b + i <= Len(f) THEN f[b + i] ELSE NUL)
    BY <2>1 DEF Shows
  <2>3. d[i] = (IF b + i <= Len(f) /\ i <= p - b THEN f[b + i] ELSE NUL)
    BY DEF Shows
  <2>4. ~(i <= p - b) => ~(b + i <= Len(f))
    BY <1>1, <1>2
  <2> QED BY <2>2, <2>3, <2>4
<1>4. Len(d) = Len(e)
  BY <1>1, <1>2
<1> QED BY <1>2, <1>3, <1>4, SeqEqual, Zenon

\* Nor does an ftruncate() to where the copy ends.
LEMMA ShowsCut ==
  ASSUME NEW f \in Seq(Bytes), NEW p \in Nat, NEW b \in Nat, b <= p,
         NEW d, Shows(f, p, b, 0, d), NEW g, g = Truncated(f, p), NEW e, Shows(g, p, b, 0, e)
  PROVE  d = e
<1>1. PICK l : l = p - b
  OBVIOUS
<1>2. /\ d \in Seq(Bytes) /\ e \in Seq(Bytes) /\ Len(d) = l /\ Len(e) = l /\ l \in Nat
  <2>1. l \in Nat
    BY <1>1
  <2> QED BY <1>1, <2>1 DEF Shows
<1>3. Len(g) = p /\ \A i \in 1 .. p : g[i] = IF i <= Len(f) THEN f[i] ELSE NUL
  BY TruncatedFacts
<1>4. ASSUME NEW i \in 1 .. Len(d) PROVE d[i] = e[i]
  <2>1. i \in 1 .. Len(e) /\ i <= p - b /\ b + i \in 1 .. p
    BY <1>1, <1>2
  <2>2. d[i] = (IF b + i <= Len(f) THEN f[b + i] ELSE NUL)
    BY <2>1 DEF Shows
  <2>3. e[i] = (IF b + i <= Len(g) /\ i <= p - b THEN g[b + i] ELSE NUL)
    BY <2>1 DEF Shows
  <2>4. g[b + i] = (IF b + i <= Len(f) THEN f[b + i] ELSE NUL) /\ b + i <= Len(g)
    BY <1>3, <2>1
  <2> QED BY <2>1, <2>2, <2>3, <2>4
<1>5. Len(d) = Len(e)
  BY <1>2
<1> QED BY <1>2, <1>4, <1>5, SeqEqual, Zenon

LEMMA ShownNothing ==
  ASSUME NEW f, NEW p \in Nat, NEW b \in Nat, NEW q \in Nat, (p - b) + q <= 0
  PROVE  Shown(f, p, b, q) = <<>>
<1>1. PICK k : k = (p - b) + q
  OBVIOUS
<1>2. 1 .. k = {} /\ 1 .. 0 = {}
  BY <1>1
<1>3. Shown(f, p, b, q) = [i \in 1 .. k |-> IF b + i <= Len(f) /\ i <= p - b THEN f[b + i] ELSE NUL]
  BY <1>1 DEF Shown
<1> QED BY <1>2, <1>3

\* The file is empty where open() truncates it.
Opened == pc \in {"skip", "seek"} /\ OpenTruncates => file = <<>>

\* There is nothing to write only when the copy ends in a hole.
Forced == pc = "out" /\ cnt = 0 => back = "end"

Seeked == seek_offset > 0 => pc \in {"end", "exit"} /\ seek_offset = pos

\* Nothing lies where a hole will be.
HolesBehind ==
  HolesAreNUL /\ Has("SPARSE") /\ ~cmd.outpipe /\ (Active \/ Succeeded) => Len(file) <= pos

\* The file reaches as far as the offset, but for the hole at its end.
Reached ==
  Active \/ Succeeded =>
    \/ cmd.outpipe
    \/ pos = Base
    \/ pos <= Len(file)
    \/ pc = "end" /\ seek_offset > 0

WrittenInv == Opened /\ Forced /\ Seeked /\ HolesBehind /\ Reached

LEMMA InitWritten == Init => WrittenInv
<1> SUFFICES ASSUME Init PROVE WrittenInv
  OBVIOUS
<1>1. pc = "open" /\ seek_offset = 0
  BY DEF Init
<1> QED BY <1>1 DEF WrittenInv, Opened, Forced, Seeked, HolesBehind, Reached, Active, Succeeded

LEMMA SetupWritten ==
  IInv /\ CountInv /\ WrittenInv /\ (Open \/ SkipRead \/ SkipEnd \/ Seek) => WrittenInv'
<1> SUFFICES ASSUME IInv, CountInv, WrittenInv, Open \/ SkipRead \/ SkipEnd \/ Seek PROVE WrittenInv'
  OBVIOUS
<1>1. cmd' = cmd /\ seek_offset' = seek_offset /\ pc \in {"open", "skip", "seek"}
  BY DEF Open, SkipRead, SkipEnd, Seek, writer
<1>2. seek_offset = 0
  BY <1>1 DEF CountInv, Untouched
<1>3. Base' = Base /\ HolesAreNUL' = HolesAreNUL /\ (\A c : Has(c)' = Has(c)) /\ OpenTruncates' = OpenTruncates
  BY <1>1, SameLine DEF OpenTruncates
<1>4. CASE Open \/ SkipRead \/ SkipEnd
  <2>1. /\ pc' \in {"skip", "seek"} \/ (pc' = "exit" /\ code' = 1)
        /\ \/ pc = "open" /\ file' = IF OpenTruncates THEN <<>> ELSE file
           \/ pc = "skip" /\ file' = file
    BY <1>4 DEF Open, SkipRead, SkipEnd, Exit, output
  <2> QED BY <1>1, <1>2, <1>3, <2>1
          DEF WrittenInv, Opened, Forced, Seeked, HolesBehind, Reached, Active, Succeeded
<1>5. CASE Seek
  <2>1. CASE cmd.outpipe /\ cmd.seek > 0
    <3>1. pc' = "exit" /\ code' = 1
      BY <1>5, <2>1 DEF Seek, Exit
    <3> QED BY <1>2, <1>1, <3>1 DEF WrittenInv, Opened, Forced, Seeked, HolesBehind, Reached, Active, Succeeded
  <2>2. CASE ~(cmd.outpipe /\ cmd.seek > 0)
    <3>1. PICK k : k = cmd.seek * cmd.obs
      OBVIOUS
    <3>2. /\ pc = "seek" /\ pc' = "loop" /\ pos' = k
          /\ file' = IF Has("OF") /\ Has("SEEK") /\ ~Has("NOTRUNC") /\ ~cmd.outpipe
                     THEN Truncated(file, k) ELSE file
      BY <1>5, <2>2, <3>1 DEF Seek
    <3>3. k \in Nat /\ file \in Seq(Bytes)
      <4>1. cmd \in Command /\ Legal(cmd) /\ file \in Seq(Bytes)
        BY DEF IInv, TypeOK
      <4> QED BY <3>1, <4>1, CommandFacts
    <3>4. cmd.outpipe \/ pos' = Base
      BY <3>1, <3>2 DEF Base
    <3>5. Reached'
      BY <1>1, <1>3, <3>4 DEF Reached
    <3>6. ASSUME HolesAreNUL, Has("SPARSE"), ~cmd.outpipe PROVE Len(file') <= pos'
      <4>1. Has("OF") /\ ~Has("NOTRUNC")
        BY <3>6 DEF HolesAreNUL
      <4>2. CASE Has("SEEK")
        <5>1. PICK g : g = Truncated(file, k)
          OBVIOUS
        <5>2. Len(g) = k
          BY <3>3, <5>1, TruncatedFacts
        <5> QED BY <3>2, <3>3, <3>6, <4>1, <4>2, <5>1, <5>2
      <4>3. CASE ~Has("SEEK")
        <5>1. file' = <<>>
          BY <3>2, <4>1, <4>3 DEF WrittenInv, Opened, OpenTruncates
        <5> QED BY <3>2, <3>3, <5>1
      <4> QED BY <4>2, <4>3
    <3>7. HolesBehind'
      BY <1>1, <1>3, <3>6 DEF HolesBehind
    <3> QED BY <1>1, <1>2, <3>2, <3>5, <3>7 DEF WrittenInv, Opened, Forced, Seeked
  <2> QED BY <2>1, <2>2
<1> QED BY <1>4, <1>5

\* A step that writes nothing.
LEMMA SameWritten ==
  ASSUME IInv, WrittenInv, UNCHANGED <<cmd, file, pos, seek_offset>>, Active, pc # "end",
         pc' \notin {"skip", "seek"}, Succeeded' => FALSE, pc' = "out" => cnt' > 0 \/ back' = "end"
  PROVE  WrittenInv'
<1>1. Base' = Base /\ HolesAreNUL' = HolesAreNUL /\ (\A c : Has(c)' = Has(c))
  BY SameLine
<1>2. ~(seek_offset > 0)
  BY DEF Active, WrittenInv, Seeked
<1> QED BY <1>1, <1>2 DEF WrittenInv, Opened, Forced, Seeked, HolesBehind, Reached

LEMMA CopyWritten ==
  IInv /\ CountInv /\ KeptInv /\ WrittenInv
    /\ (\/ Limit \/ (\E k \in 1 .. cmd.ibs : ReadData(k)) \/ ReadEnd \/ ReadError
        \/ ConvertNone \/ Def \/ BlockToss \/ BlockShort \/ BlockRecord \/ UnblockRecord \/ UnblockShort
        \/ Close)
    => WrittenInv'
<1> SUFFICES ASSUME IInv, CountInv, KeptInv, WrittenInv,
                    \/ Limit \/ (\E k \in 1 .. cmd.ibs : ReadData(k)) \/ ReadEnd \/ ReadError
                    \/ ConvertNone \/ Def \/ BlockToss \/ BlockShort \/ BlockRecord
                    \/ UnblockRecord \/ UnblockShort \/ Close
             PROVE  WrittenInv'
  OBVIOUS
<1>0. cmd.obs \in Nat /\ cmd.obs > 0
  BY LineNumbers
<1>1. CASE Limit \/ (\E k \in 1 .. cmd.ibs : ReadData(k)) \/ ReadEnd \/ ReadError
  <2>1. UNCHANGED <<cmd, file, pos, seek_offset>> /\ pc \in {"loop", "fill"}
    BY <1>1 DEF Limit, ReadData, ReadEnd, ReadError, Reading, writer, output
  <2>2. pc' \in {"loop", "close", "conv", "fill"} \/ (pc' = "exit" /\ code' = 1)
    <3>1. \A r : Accept(r) => pc' = "conv"
      BY DEF Accept
    <3>2. CASE Limit
      BY <3>2 DEF Limit
    <3>3. CASE \E k \in 1 .. cmd.ibs : ReadData(k)
      BY <3>1, <3>3 DEF ReadData
    <3>4. CASE ReadEnd
      BY <3>1, <3>4 DEF ReadEnd
    <3>5. CASE ReadError
      BY <3>1, <3>5 DEF ReadError, Exit
    <3> QED BY <1>1, <3>2, <3>3, <3>4, <3>5
  <2>3. Active /\ pc # "end" /\ (Succeeded' => FALSE)
    BY <2>1, <2>2 DEF Active, Succeeded
  <2> QED BY <2>1, <2>2, <2>3, SameWritten
<1>2. CASE ConvertNone
  <2>1. /\ UNCHANGED <<cmd, file, pos, seek_offset>> /\ pc = "conv" /\ pc' = "out" /\ cnt' = Len(outbuf')
        /\ outbuf' = inbuf /\ Unbuffered
    BY <1>2 DEF ConvertNone, StartOut, output
  <2>2. cnt' > 0
    <3>1. inbuf # <<>> /\ inbuf \in Seq(Bytes)
      BY <2>1, Facts DEF KeptInv, WorkInv
    <3>2. Len(inbuf) > 0
      BY <3>1
    <3> QED BY <2>1, <3>2
  <2> QED BY <2>1, <2>2, SameWritten DEF Active, Succeeded
<1>3. CASE Def \/ BlockRecord \/ UnblockRecord
  <2>1. PICK r, rest, k : Emit(r, rest, k) /\ k \in {"loop", "conv"}
    BY <1>3 DEF Def, BlockRecord, UnblockRecord
  <2>2. UNCHANGED <<cmd, file, pos>> /\ pc = "conv"
    BY <1>3 DEF Def, BlockRecord, UnblockRecord, output
  <2>3. seek_offset' = seek_offset /\ (pc' = k \/ (pc' = "out" /\ cnt' = cmd.obs))
    BY <2>1 DEF Emit, StartOut, writer
  <2> QED BY <1>0, <2>1, <2>2, <2>3, SameWritten DEF Active, Succeeded
<1>4. CASE BlockToss \/ BlockShort \/ UnblockShort
  <2>1. UNCHANGED <<cmd, file, pos, seek_offset>> /\ pc = "conv" /\ pc' \in {"conv", "loop"}
    BY <1>4 DEF BlockToss, BlockShort, UnblockShort, writer, output
  <2> QED BY <2>1, SameWritten DEF Active, Succeeded
<1>5. CASE Close
  <2>1. UNCHANGED <<cmd, file, pos, seek_offset>> /\ pc = "close"
        /\ (pc' = "end" \/ (pc' = "out" /\ back' = "end"))
    BY <1>5 DEF Close, StartOut, writer, output
  <2> QED BY <2>1, SameWritten DEF Active, Succeeded
<1> QED BY <1>1, <1>2, <1>3, <1>4, <1>5

LEMMA WriteWritten ==
  IInv /\ CountInv /\ KeptInv /\ WrittenInv
    /\ (WriteHole \/ (\E nw \in 1 .. cnt : WriteData(nw)) \/ WriteNothing \/ WriteFails) => WrittenInv'
<1> SUFFICES ASSUME IInv, CountInv, KeptInv, WrittenInv,
                    WriteHole \/ (\E nw \in 1 .. cnt : WriteData(nw)) \/ WriteNothing \/ WriteFails
             PROVE  WrittenInv'
  OBVIOUS
<1>1. cmd' = cmd /\ pc = "out" /\ back \in {"loop", "conv", "end"} /\ cmd.obs \in Nat /\ cmd.obs > 0
      /\ pos \in Nat /\ pending \in Nat /\ cnt \in Nat /\ file \in Seq(Bytes)
  BY LineNumbers, Offsets DEF WriteHole, WriteData, WriteNothing, WriteFails, Advance, IInv, TypeOK
<1>2. Base' = Base /\ HolesAreNUL' = HolesAreNUL /\ (\A c : Has(c)' = Has(c))
  BY <1>1, SameLine
<1>3. ~(seek_offset > 0) /\ Active
  BY <1>1 DEF WrittenInv, Seeked, Active
<1>4. ASSUME NEW nw \in 1 .. cnt, NEW k, Advance(nw, k)
      PROVE  (pc' = "out" /\ cnt' > 0) \/ (pc' = back /\ back' = back)
  BY <1>1, <1>4 DEF Advance
<1>5. CASE WriteHole
  <2>1. Advance(cnt, seek_offset) /\ UNCHANGED <<file, pos>> /\ cnt \in 1 .. cnt
    BY <1>1, <1>5 DEF WriteHole, Sparse, output
  <2>2. seek_offset' = seek_offset
    BY <2>1 DEF Advance
  <2> QED BY <1>1, <1>3, <1>4, <2>1, <2>2, SameWritten DEF Succeeded
<1>6. ASSUME NEW nw \in 1 .. cnt, WriteData(nw) PROVE WrittenInv'
  <2>1. PICK p, s, f, g : p = pos + pending /\ s = Take(outbuf, nw) /\ f = file /\ g = file'
    OBVIOUS
  <2>2. /\ g = Written(f, p, s) /\ pos' = p + nw /\ Advance(nw, 0) /\ seek_offset' = 0
    BY <1>6, <2>1 DEF WriteData, WriteOffset, Advance
  <2>3. f \in Seq(Bytes) /\ p \in Nat /\ s \in Seq(Bytes) /\ Len(s) = nw /\ nw \in Nat /\ p >= pos
    <3>1. nw \in Nat /\ nw <= cnt /\ cnt <= Len(outbuf)
      BY <1>1, Sizes DEF IInv, OutInv
    <3>2. nw <= Len(outbuf) /\ outbuf \in Seq(Bytes)
      BY <3>1, Sizes, Facts
    <3>3. s \in Seq(Bytes) /\ Len(s) = nw
      BY <2>1, <3>1, <3>2, TakeDrop
    <3> QED BY <1>1, <2>1, <3>1, <3>3
  <2>4. Len(g) = (IF Len(f) > p + nw THEN Len(f) ELSE p + nw) /\ Len(f) \in Nat
    <3>1. WriteResult(f, p, s, g)
      BY <2>2, <2>3, WrittenFacts, Zenon
    <3> QED BY <2>3, <3>1 DEF WriteResult
  <2>5. pos' <= Len(g) /\ (Len(f) <= pos => Len(g) <= pos')
    BY <1>1, <2>2, <2>3, <2>4
  <2>6. Reached'
    BY <2>1, <2>5 DEF Reached
  <2>7. HolesBehind'
    BY <1>1, <1>2, <1>3, <2>1, <2>5 DEF WrittenInv, HolesBehind
  <2>8. Opened' /\ Forced' /\ Seeked'
    BY <1>1, <1>4, <2>2 DEF Opened, Forced, Seeked
  <2> QED BY <2>6, <2>7, <2>8 DEF WrittenInv
<1>7. CASE WriteNothing
  <2>1. /\ cnt = 0 /\ pos' = pos + pending /\ seek_offset' = pos' /\ file' = file /\ pc' = back /\ back' = back
    BY <1>7 DEF WriteNothing, WriteOffset
  <2>2. back = "end"
    BY <1>1, <2>1 DEF WrittenInv, Forced
  <2>3. pending > 0
    BY <1>1, <2>1, Facts DEF IInv, OutInv, KeptInv, WorkInv
  <2>4. HolesBehind'
    BY <1>1, <1>2, <1>3, <2>1 DEF WrittenInv, HolesBehind
  <2>5. pos' > 0
    BY <1>1, <2>1, <2>3
  <2> QED BY <2>1, <2>2, <2>4, <2>5 DEF WrittenInv, Opened, Forced, Seeked, Reached
<1>8. CASE WriteFails
  <2>1. UNCHANGED <<file, pos, seek_offset>> /\ pc' = "exit" /\ code' \in {1, 2}
    BY <1>8 DEF WriteFails, Exit, writer, output
  <2> QED BY <1>1, <1>3, <2>1, SameWritten DEF Succeeded
<1> QED BY <1>5, <1>6, <1>7, <1>8

LEMMA EndWritten == IInv /\ CountInv /\ WrittenInv /\ End => WrittenInv'
<1> SUFFICES ASSUME IInv, CountInv, WrittenInv, End PROVE WrittenInv'
  OBVIOUS
<1>1. /\ pc = "end" /\ pc' = "exit" /\ UNCHANGED <<cmd, pos, seek_offset>>
      /\ file' = IF EndsInHole THEN Truncated(file, seek_offset) ELSE file
  BY DEF End, Exit, writer
<1>2. Base' = Base /\ HolesAreNUL' = HolesAreNUL /\ (\A c : Has(c)' = Has(c))
  BY <1>1, SameLine
<1>3. pos \in Nat /\ seek_offset \in Nat /\ file \in Seq(Bytes) /\ Active
  BY <1>1 DEF IInv, TypeOK, Active
<1>4. CASE EndsInHole
  <2>1. seek_offset > 0 /\ seek_offset = pos
    BY <1>4 DEF EndsInHole, WrittenInv, Seeked
  <2>2. PICK g : g = Truncated(file, seek_offset)
    OBVIOUS
  <2>3. Len(g) = pos /\ file' = g
    BY <1>1, <1>3, <1>4, <2>1, <2>2, TruncatedFacts
  <2>4. Len(file') <= pos' /\ pos' <= Len(file')
    BY <1>1, <1>3, <2>3
  <2> QED BY <1>1, <2>1, <2>4 DEF WrittenInv, Opened, Forced, Seeked, HolesBehind, Reached
<1>5. CASE ~EndsInHole
  <2>1. file' = file /\ (seek_offset > 0 => cmd.outpipe)
    BY <1>1, <1>5 DEF EndsInHole
  <2>2. HolesBehind' /\ Reached'
    BY <1>1, <1>2, <1>3, <2>1 DEF WrittenInv, HolesBehind, Reached
  <2> QED BY <1>1, <2>2 DEF WrittenInv, Opened, Forced, Seeked
<1> QED BY <1>4, <1>5

LEMMA NextWritten == IInv /\ CountInv /\ KeptInv /\ WrittenInv /\ [Next]_vars => WrittenInv'
<1> SUFFICES ASSUME IInv, CountInv, KeptInv, WrittenInv, [Next]_vars PROVE WrittenInv'
  OBVIOUS
<1>1. CASE Copy
  BY <1>1, SetupWritten, CopyWritten, WriteWritten, EndWritten, Zenon DEF Copy
<1>2. CASE UNCHANGED vars
  <2>1. UNCHANGED <<cmd, pc, cnt, back, file, pos, seek_offset, code>>
    BY <1>2 DEF vars
  <2>2. Base' = Base /\ HolesAreNUL' = HolesAreNUL /\ (\A c : Has(c)' = Has(c)) /\ OpenTruncates' = OpenTruncates
    BY <2>1, SameLine DEF OpenTruncates
  <2>3. Active' = Active /\ Succeeded' = Succeeded
    BY <2>1 DEF Active, Succeeded
  <2> QED BY <2>1, <2>2, <2>3 DEF WrittenInv, Opened, Forced, Seeked, HolesBehind, Reached
<1> QED BY <1>1, <1>2 DEF Next, Terminating

\* What has been converted: it is in the output, or on its way there.
Sent == Delivered \o outbuf

LEMMA SentFacts ==
  ASSUME IInv, CountInv, Active \/ Succeeded, NEW d, d = Delivered
  PROVE  Shows(file, pos, Base, pending, d) /\ d \in Seq(Bytes) /\ Joined(d, outbuf, Sent) /\ Sent \in Seq(Bytes)
<1>1. file \in Seq(Bytes) /\ pos \in Nat /\ Base \in Nat /\ pending \in Nat /\ outbuf \in Seq(Bytes)
  BY LineNumbers, Offsets DEF IInv, TypeOK
<1>2. Base <= pos
  BY <1>1 DEF CountInv, CountedOut
<1>3. d = Shown(file, pos, Base, pending)
  BY DEF Delivered, Shown
<1>4. Shows(file, pos, Base, pending, d)
  BY <1>1, <1>2, <1>3, ShownFacts, Zenon
<1>5. d \in Seq(Bytes)
  BY <1>4 DEF Shows
<1>6. Joined(d, outbuf, Sent)
  BY DEF Joined, Sent
<1>7. JoinFacts(d, outbuf, Sent)
  BY <1>1, <1>5, <1>6, JoinedFacts, Zenon
<1> QED BY <1>4, <1>5, <1>6, <1>7 DEF JoinFacts

\* Before the copy, there is nothing.
LEMMA NothingSent == IInv /\ CountInv /\ pc \in {"open", "skip", "seek"} => Sent = <<>> /\ Delivered = <<>>
<1> SUFFICES ASSUME IInv, CountInv, pc \in {"open", "skip", "seek"} PROVE Sent = <<>> /\ Delivered = <<>>
  OBVIOUS
<1>1. pos = 0 /\ pending = 0 /\ outbuf = <<>>
  BY DEF CountInv, Untouched
<1>2. Base \in Nat
  BY LineNumbers
<1>3. Delivered = Shown(file, pos, Base, pending)
  BY DEF Delivered, Shown
<1>4. (pos - Base) + pending <= 0
  BY <1>1, <1>2
<1>5. Delivered = <<>>
  BY <1>1, <1>2, <1>3, <1>4, ShownNothing
<1> QED BY <1>1, <1>5 DEF Sent

LEMMA SetupSent ==
  IInv /\ CountInv /\ (Open \/ SkipRead \/ SkipEnd \/ Seek) => Sent' = <<>> /\ Delivered' = <<>>
<1> SUFFICES ASSUME IInv, CountInv, Open \/ SkipRead \/ SkipEnd \/ Seek PROVE Sent' = <<>> /\ Delivered' = <<>>
  OBVIOUS
<1>1. pos = 0 /\ pending = 0 /\ outbuf = <<>> /\ cmd' = cmd /\ outbuf' = outbuf /\ pending' = pending
  BY DEF CountInv, Untouched, Open, SkipRead, SkipEnd, Seek, writer
<1>2. Base \in Nat /\ Base' = Base /\ pos' \in Nat
  <2>1. pos' \in Nat
    BY NextInv DEF Next, Copy, IInv, TypeOK
  <2> QED BY <1>1, <2>1, LineNumbers, SameLine
<1>3. pos' <= Base
  <2>1. pos' = pos \/ (pos' = cmd.seek * cmd.obs /\ ~(cmd.outpipe /\ cmd.seek > 0))
    BY DEF Open, SkipRead, SkipEnd, Seek, output
  <2>2. cmd.seek * cmd.obs <= Base \/ (cmd.outpipe /\ cmd.seek > 0)
    <3>1. CASE cmd.outpipe /\ ~(cmd.seek > 0)
      <4>1. cmd.seek \in Nat /\ cmd.obs \in Nat
        BY DEF IInv, TypeOK, Command
      <4>2. cmd.seek = 0 /\ 0 * cmd.obs = 0
        BY <3>1, <4>1
      <4> QED BY <1>2, <4>2
    <3>2. CASE ~cmd.outpipe
      <4>1. Base = cmd.seek * cmd.obs
        BY <3>2 DEF Base
      <4> QED BY <1>2, <4>1
    <3> QED BY <3>1, <3>2
  <2> QED BY <1>1, <1>2, <2>1, <2>2
<1>4. Delivered' = Shown(file', pos', Base, pending')
  BY <1>2 DEF Delivered, Shown
<1>5. (pos' - Base) + pending' <= 0 /\ pending' \in Nat
  <2>1. PICK a, b, c : a = pos' /\ b = Base /\ c = pending'
    OBVIOUS
  <2>2. a \in Nat /\ b \in Nat /\ a <= b /\ c = 0
    BY <1>1, <1>2, <1>3, <2>1
  <2>3. (a - b) + c <= 0 /\ c \in Nat
    BY <2>2
  <2> QED BY <2>1, <2>3
<1>6. Delivered' = <<>>
  BY <1>2, <1>4, <1>5, ShownNothing
<1> QED BY <1>1, <1>6 DEF Sent

LEMMA SameDelivered ==
  ASSUME UNCHANGED <<cmd, file, pos, pending>> PROVE Delivered' = Delivered
<1>1. Base' = Base
  BY SameLine
<1> QED BY <1>1 DEF Delivered

\* dd_out() and the exit only move what has been converted from the buffer to the output.
LEMMA WriteSent ==
  ASSUME IInv, CountInv, KeptInv, WrittenInv, HolesAreNUL,
         WriteHole \/ (\E nw \in 1 .. cnt : WriteData(nw)) \/ WriteNothing \/ WriteFails \/ End
  PROVE  Sent' = Sent
<1>0. [Next]_vars
  BY DEF Next, Copy
<1>1. IInv' /\ CountInv'
  BY <1>0, NextInv, NextCount
<1>2. cmd' = cmd /\ pc \in {"out", "end"}
  BY DEF WriteHole, WriteData, WriteNothing, WriteFails, Advance, End
<1>3. Base' = Base /\ Base \in Nat /\ pos \in Nat /\ pending \in Nat /\ Base <= pos /\ Active
      /\ file \in Seq(Bytes) /\ outbuf \in Seq(Bytes)
  BY <1>2, SameLine, LineNumbers, Offsets DEF CountInv, CountedOut, Active, IInv, TypeOK
<1>4. PICK b, p, q, f, d, o, e, r :
        /\ b = Base /\ p = pos /\ q = pending /\ f = file /\ d = Delivered /\ o = outbuf
        /\ e = Delivered' /\ r = outbuf'
  OBVIOUS
<1>5. Shows(f, p, b, q, d) /\ d \in Seq(Bytes) /\ Joined(d, o, Sent)
  BY <1>3, <1>4, SentFacts, Zenon
<1>6. pos' \in Nat /\ pending' \in Nat /\ file' \in Seq(Bytes) /\ r \in Seq(Bytes)
  BY <1>1, <1>4 DEF IInv, TypeOK
<1>7. b <= pos' => Shows(file', pos', b, pending', e)
  <2>1. e = Shown(file', pos', b, pending')
    BY <1>3, <1>4 DEF Delivered, Shown
  <2> QED BY <1>3, <1>4, <1>6, <2>1, ShownFacts, Zenon
<1>8. Joined(e, r, Sent')
  BY <1>4 DEF Joined, Sent
<1>9. ASSUME NEW t \in Seq(Bytes), Joined(t, r, o), Joined(d, t, e) PROVE Sent' = Sent
  <2>1. Joined(d, o, Sent')
    BY <1>5, <1>6, <1>8, <1>9, JoinAssoc, Zenon
  <2> QED BY <1>5, <2>1 DEF Joined
<1>10. q > 0 /\ ~cmd.outpipe => Len(f) <= p
  BY <1>3, <1>4 DEF KeptInv, WorkInv, WrittenInv, HolesBehind
<1>11. pc = "out" => cnt \in Nat /\ cnt <= Len(o)
  BY <1>4, Sizes, Facts DEF IInv, OutInv
<1>12. CASE WriteHole
  <2>1. /\ \A i \in 1 .. cnt : o[i] = NUL
        /\ r = Drop(o, cnt) /\ pending' = q + cnt /\ file' = f /\ pos' = p /\ pc = "out"
    BY <1>4, <1>12 DEF WriteHole, Sparse, Advance, output
  <2>2. PICK z : z = Take(o, cnt)
    OBVIOUS
  <2>3. /\ z \in Seq(Bytes) /\ Len(z) = cnt /\ Joined(z, r, o)
        /\ \A i \in 1 .. cnt : z[i] = o[i]
    BY <1>3, <1>4, <1>11, <2>1, <2>2, SplitAt
  <2>4. Shows(f, p, b, q + Len(z), e)
    BY <1>3, <1>4, <1>7, <2>1, <2>3
  <2>5. \A i \in 1 .. Len(z) : z[i] = NUL
    BY <2>1, <2>3
  <2>6. Joined(d, z, e)
    BY <1>3, <1>4, <1>5, <2>3, <2>4, <2>5, ShowsHole
  <2> QED BY <1>9, <2>3, <2>6
<1>13. ASSUME NEW nw \in 1 .. cnt, WriteData(nw) PROVE Sent' = Sent
  <2>1. PICK z, k, g : z = Take(o, nw) /\ k = p + q /\ g = file'
    OBVIOUS
  <2>2. /\ g = Written(f, k, z) /\ pos' = k + nw /\ pending' = 0 /\ r = Drop(o, nw)
        /\ pc = "out" /\ (q > 0 => ~cmd.outpipe)
    BY <1>4, <1>13, <2>1 DEF WriteData, WriteOffset, Advance
  <2>3. nw \in Nat /\ nw <= Len(o)
    <3>1. PICK l : l = Len(o)
      OBVIOUS
    <3>2. l \in Nat /\ cnt \in Nat /\ cnt <= l
      BY <1>3, <1>4, <1>11, <2>2, <3>1
    <3>3. nw \in Nat /\ nw <= l
      BY <3>2
    <3> QED BY <3>1, <3>3
  <2>4. z \in Seq(Bytes) /\ Len(z) = nw /\ Joined(z, r, o)
    BY <1>3, <1>4, <2>1, <2>2, <2>3, SplitAt
  <2>5. k \in Nat /\ b <= k + nw /\ q \in Nat
    BY <1>3, <1>4, <2>1, <2>3
  <2>6. WriteResult(f, k, z, g)
    BY <1>3, <1>4, <2>2, <2>4, <2>5, WrittenFacts, Zenon
  <2>7. PICK x : x = k + Len(z)
    OBVIOUS
  <2>8. Shows(g, x, b, 0, e)
    BY <1>7, <2>1, <2>2, <2>4, <2>5, <2>7
  <2>9. Joined(d, z, e)
    BY <1>3, <1>4, <1>5, <1>10, <2>1, <2>2, <2>4, <2>6, <2>7, <2>8, ShowsWrite
  <2> QED BY <1>9, <2>4, <2>9
<1>14. CASE WriteNothing
  <2>1. pos' = p + q /\ pending' = 0 /\ file' = f /\ r = o /\ ~cmd.outpipe
    BY <1>4, <1>14 DEF WriteNothing, WriteOffset
  <2>2. PICK x : x = p + q
    OBVIOUS
  <2>3. Shows(f, x, b, 0, e)
    BY <1>3, <1>4, <1>7, <2>1, <2>2
  <2>4. d = e
    BY <1>3, <1>4, <1>5, <1>10, <2>1, <2>2, <2>3, ShowsSeek
  <2> QED BY <1>4, <2>1, <2>4 DEF Sent
<1>15. CASE WriteFails
  <2>1. UNCHANGED <<cmd, file, pos, pending, outbuf>>
    BY <1>15 DEF WriteFails, writer, output
  <2>2. Delivered' = Delivered
    BY <2>1, SameDelivered
  <2> QED BY <2>1, <2>2 DEF Sent
<1>16. CASE End
  <2>1. pc = "end" /\ pos' = p /\ pending' = q /\ r = o /\ file' = IF EndsInHole THEN Truncated(f, seek_offset) ELSE f
    BY <1>4, <1>16 DEF End, writer
  <2>2. q = 0 /\ (EndsInHole => seek_offset = p)
    BY <1>4, <2>1 DEF CountInv, Emptied, WrittenInv, Seeked, EndsInHole
  <2>3. d = e
    <3>1. CASE EndsInHole
      <4>1. PICK g : g = file'
        OBVIOUS
      <4>2. g = Truncated(f, p) /\ Shows(g, p, b, 0, e) /\ Shows(f, p, b, 0, d)
        BY <1>3, <1>4, <1>5, <1>7, <2>1, <2>2, <3>1, <4>1
      <4> QED BY <1>3, <1>4, <4>2, ShowsCut
    <3>2. CASE ~EndsInHole
      <4>1. UNCHANGED <<cmd, file, pos, pending>>
        BY <1>2, <1>4, <2>1, <3>2
      <4> QED BY <1>4, <4>1, SameDelivered
    <3> QED BY <3>1, <3>2
  <2> QED BY <1>4, <2>1, <2>3 DEF Sent
<1> QED BY <1>12, <1>13, <1>14, <1>15, <1>16

----------------------------------------------------------------------------
(***************************************************************************)
(* What a step can do to the bytes on their way.                           *)
(***************************************************************************)

\* dd_close() has not been called.
Going == pc # "exit" /\ ~Closed

\* The conversion is there, but for osync's padding and for the record a map leaves out.
Sendable ==
  HolesAreNUL /\ (Has("OSYNC") => Going) /\ (Going \/ ~(Has("UCASE") /\ UnfinishedRecord))

\* What a step can do to the conversion.  A step of setup(): there is nothing yet.
Settles ==
  /\ fed' = <<>> /\ inbuf' = <<>> /\ outbuf' = <<>> /\ Sent' = <<>> /\ ~intrunc' /\ st'.trunc = 0
  /\ ~Closed' /\ pc' \in {"skip", "seek", "loop", "exit"}

\* dd_in() takes in the bytes of r.
Takes(r) ==
  /\ r \in Seq(Bytes) /\ Joined(fed, r, fed')
  /\ Joined(inbuf, IF Has("BLOCK") THEN r ELSE Translate(r), inbuf')
  /\ Sent' = Sent /\ intrunc' = intrunc /\ st'.trunc = st.trunc
  /\ pc \in {"loop", "fill"} /\ pc' = "conv"

\* Nothing is taken in or converted.
Quiet ==
  /\ UNCHANGED <<fed, inbuf, intrunc>> /\ st'.trunc = st.trunc
  /\ HolesAreNUL => Sent' = Sent
  /\ Going' => Going
  /\ Closed' => Closed
  /\ Records /\ pc' \in {"loop", "fill", "close"} =>
       pc \in {"loop", "fill", "close"} \/ BlockShort \/ UnblockShort

LEMMA SetupSettles ==
  IInv /\ CountInv /\ (Open \/ SkipRead \/ SkipEnd \/ Seek) => Settles
<1> SUFFICES ASSUME IInv, CountInv, Open \/ SkipRead \/ SkipEnd \/ Seek PROVE Settles
  OBVIOUS
<1>1. fed = <<>> /\ inbuf = <<>> /\ outbuf = <<>> /\ ~intrunc /\ st = NoStats
  BY DEF CountInv, Untouched, Open, SkipRead, SkipEnd, Seek
<1>2. UNCHANGED <<fed, inbuf, outbuf, intrunc, st>>
  BY DEF Open, SkipRead, SkipEnd, Seek
<1>3. pc' \in {"skip", "seek", "loop"} \/ (pc' = "exit" /\ code' = 1)
  BY DEF Open, SkipRead, SkipEnd, Seek, Exit
<1>4. Sent' = <<>>
  BY SetupSent
<1>5. st'.trunc = 0
  BY <1>1, <1>2 DEF NoStats
<1> QED BY <1>1, <1>2, <1>3, <1>4, <1>5 DEF Settles, Closed, Succeeded

LEMMA AcceptTakes ==
  ASSUME IInv, pc \in {"loop", "fill"}, UNCHANGED <<cmd, outbuf, output, writer, intrunc>>,
         NEW r \in Seq(Bytes), Accept(r)
  PROVE  \E x : Takes(x)
<1>1. PICK r2 : Given(r, r2)
  BY DEF Given
<1>2. r2 \in Seq(Bytes)
  BY <1>1, SwappedLen DEF Given
<1>3. /\ fed' = fed \o r2 /\ inbuf' = inbuf \o (IF Has("BLOCK") THEN r2 ELSE Translate(r2)) /\ pc' = "conv"
      /\ \E a, b, c : st' = [st EXCEPT !.in_full = a, !.in_part = b, !.swab = c]
  BY <1>1 DEF Accept, Given
<1>4. st'.trunc = st.trunc
  <2>1. st \in [DOMAIN NoStats -> Nat]
    BY DEF IInv, TypeOK
  <2> QED BY <1>3, <2>1 DEF NoStats
<1>5. Delivered' = Delivered
  BY SameDelivered DEF output, writer
<1>6. Sent' = Sent
  BY <1>5 DEF Sent
<1>7. Takes(r2)
  BY <1>2, <1>3, <1>4, <1>6 DEF Takes, Joined
<1> QED BY <1>7

LEMMA ReadTakes ==
  IInv /\ CountInv /\ (Limit \/ (\E k \in 1 .. cmd.ibs : ReadData(k)) \/ ReadEnd \/ ReadError)
    => Quiet \/ \E x : Takes(x)
<1> SUFFICES ASSUME IInv, CountInv,
                    Limit \/ (\E k \in 1 .. cmd.ibs : ReadData(k)) \/ ReadEnd \/ ReadError
             PROVE  Quiet \/ \E x : Takes(x)
  OBVIOUS
<1>1. /\ UNCHANGED <<cmd, outbuf, output, writer, intrunc>> /\ pc \in {"loop", "fill"}
  BY DEF Limit, ReadData, ReadEnd, ReadError, Reading
<1>2. Sent' = Sent
  <2>1. Delivered' = Delivered
    BY <1>1, SameDelivered DEF output, writer
  <2> QED BY <1>1, <2>1 DEF Sent
<1>3. ASSUME UNCHANGED <<fed, inbuf, st>>, pc' \in {"loop", "fill", "close"} \/ (pc' = "exit" /\ code' = 1)
      PROVE  Quiet
  BY <1>1, <1>2, <1>3 DEF Quiet, Going, Closed, Succeeded
<1>4. CASE Limit
  <2>1. pc' = "close" /\ UNCHANGED <<fed, inbuf, st>>
    BY <1>4 DEF Limit
  <2> QED BY <1>3, <2>1
<1>5. ASSUME NEW k \in 1 .. cmd.ibs, ReadData(k) PROVE Quiet \/ \E x : Takes(x)
  <2>1. PICK m, r : Fetched(k, m, r)
    BY DEF Fetched
  <2>2. /\ r \in Seq(Bytes)
        /\ IF Has("SYNC") THEN Accept(Padded(r, cmd.ibs))
           ELSE IF GoOn(r) THEN rbuf' = r /\ pc' = "fill" /\ UNCHANGED <<inbuf, st, fed>>
           ELSE Accept(r)
    BY <1>5, <2>1, ReadFacts, Zenon DEF ReadBlock
  <2>3. CASE pc' = "fill" /\ UNCHANGED <<inbuf, st, fed>>
    BY <1>3, <2>3
  <2>4. CASE Accept(r)
    BY <1>1, <2>2, <2>4, AcceptTakes
  <2>5. CASE Accept(Padded(r, cmd.ibs))
    <3>1. PICK p : p = Padded(r, cmd.ibs)
      OBVIOUS
    <3>2. cmd \in Command /\ Legal(cmd) /\ cmd.ibs \in Nat
      BY Facts
    <3>3. p \in Seq(Bytes)
      BY <2>2, <3>1, <3>2, PaddedLen
    <3> QED BY <1>1, <2>5, <3>1, <3>3, AcceptTakes
  <2> QED BY <2>2, <2>3, <2>4, <2>5
<1>6. CASE ReadEnd
  <2>1. CASE rbuf = <<>>
    <3>1. pc' = "close" /\ UNCHANGED <<fed, inbuf, st>>
      BY <1>6, <2>1 DEF ReadEnd
    <3> QED BY <1>3, <3>1
  <2>2. CASE rbuf # <<>>
    <3>1. Accept(rbuf) /\ rbuf \in Seq(Bytes)
      BY <1>6, <2>2, Facts DEF ReadEnd
    <3> QED BY <1>1, <3>1, AcceptTakes
  <2> QED BY <2>1, <2>2
<1>7. CASE ReadError
  <2>1. CASE Has("NOERROR") /\ Has("SYNC")
    <3>1. PICK r, c, k : r = Fill(c, k) /\ c = PadByte /\ k = cmd.ibs
      OBVIOUS
    <3>0. c \in Bytes /\ k \in Int
      BY <3>1, LineNumbers DEF PadByte, Bytes
    <3>2. r \in Seq(Bytes)
      BY <3>0, <3>1, FillLen, Zenon
    <3>3. Accept(r)
      BY <1>7, <2>1, <3>1 DEF ReadError
    <3> QED BY <1>1, <3>2, <3>3, AcceptTakes
  <2>2. CASE ~(Has("NOERROR") /\ Has("SYNC"))
    <3>1. UNCHANGED <<fed, inbuf, st>> /\ (pc' = "loop" \/ (pc' = "exit" /\ code' = 1))
      BY <1>7, <2>2 DEF ReadError, Exit
    <3> QED BY <1>3, <3>1
  <2> QED BY <2>1, <2>2
<1> QED BY <1>4, <1>5, <1>6, <1>7

LEMMA WriteQuiet ==
  IInv /\ CountInv /\ KeptInv /\ WrittenInv
    /\ (WriteHole \/ (\E nw \in 1 .. cnt : WriteData(nw)) \/ WriteNothing \/ WriteFails \/ End) => Quiet
<1> SUFFICES ASSUME IInv, CountInv, KeptInv, WrittenInv,
                    WriteHole \/ (\E nw \in 1 .. cnt : WriteData(nw)) \/ WriteNothing \/ WriteFails \/ End
             PROVE  Quiet
  OBVIOUS
<1>1. HolesAreNUL => Sent' = Sent
  BY WriteSent
<1>2. UNCHANGED <<fed, inbuf, intrunc>> /\ pc \in {"out", "end"} /\ back \in {"loop", "conv", "end"}
  BY DEF WriteHole, WriteData, WriteNothing, WriteFails, Advance, End, IInv, TypeOK
<1>3. ASSUME NEW nw, NEW k, Advance(nw, k), pc = "out"
      PROVE  st'.trunc = st.trunc /\ pc' \in {"out", back} /\ back' = back
  <2>1. pc' \in {"out", back} /\ back' = back /\ st' = Counted(nw)
    BY <1>3 DEF Advance
  <2>2. \E a, b, c : st' = [st EXCEPT !.bytes = a, !.out_full = b, !.out_part = c]
    BY <2>1 DEF Counted
  <2>3. st \in [DOMAIN NoStats -> Nat]
    BY DEF IInv, TypeOK
  <2> QED BY <2>1, <2>2, <2>3 DEF NoStats
<1>4. /\ st'.trunc = st.trunc
      /\ \/ pc = "out" /\ pc' \in {"out", back} /\ back' = back
         \/ pc = "out" /\ pc' = "exit" /\ code' # 0
         \/ pc = "end"
  <2>1. CASE WriteHole
    BY <1>3, <2>1 DEF WriteHole
  <2>2. CASE \E nw \in 1 .. cnt : WriteData(nw)
    BY <1>3, <2>2 DEF WriteData
  <2>3. CASE WriteNothing \/ WriteFails \/ End
    BY <2>3 DEF WriteNothing, WriteFails, End, Exit
  <2> QED BY <2>1, <2>2, <2>3
<1>5. pc = "out" /\ back = "loop" => ~Records
  BY DEF IInv, InInv
<1>6. pc = "end" => pc' = "exit"
  BY <1>2 DEF WriteHole, WriteData, WriteNothing, WriteFails, End, Exit
<1> QED BY <1>1, <1>2, <1>4, <1>5, <1>6 DEF Quiet, Going, Closed, Succeeded

\* Every step is of one of these kinds.
LEMMA Kinds ==
  IInv /\ CountInv /\ KeptInv /\ WrittenInv /\ [Next]_vars =>
    /\ cmd' = cmd
    /\ \/ Settles \/ Quiet \/ (\E x : Takes(x))
       \/ ConvertNone \/ Def \/ BlockToss \/ BlockRecord \/ UnblockRecord \/ Close
<1> SUFFICES ASSUME IInv, CountInv, KeptInv, WrittenInv, [Next]_vars
             PROVE  /\ cmd' = cmd
                    /\ \/ Settles \/ Quiet \/ (\E x : Takes(x))
                       \/ ConvertNone \/ Def \/ BlockToss \/ BlockRecord \/ UnblockRecord \/ Close
  OBVIOUS
<1>1. cmd' = cmd
  BY DEF Next, Terminating, Copy, vars, Open, SkipRead, SkipEnd, Seek, Limit, ReadData, ReadEnd, ReadError,
         ConvertNone, Def, BlockToss, BlockShort, BlockRecord, UnblockRecord, UnblockShort,
         WriteHole, WriteData, WriteNothing, WriteFails, Advance, Close, End
<1>2. CASE BlockShort \/ UnblockShort
  <2>1. UNCHANGED <<cmd, fed, inbuf, outbuf, intrunc, st, file, pos, pending>> /\ pc = "conv" /\ pc' = "loop"
    BY <1>2 DEF BlockShort, UnblockShort, writer, output
  <2>2. Sent' = Sent
    BY <2>1, SameDelivered DEF Sent
  <2> QED BY <1>1, <1>2, <2>1, <2>2 DEF Quiet, Going, Closed, Succeeded
<1>3. CASE UNCHANGED vars
  <2>1. UNCHANGED <<cmd, fed, inbuf, outbuf, intrunc, st, file, pos, pending, pc, back, code>>
    BY <1>3 DEF vars
  <2>2. Sent' = Sent
    BY <2>1, SameDelivered DEF Sent
  <2> QED BY <1>1, <2>1, <2>2 DEF Quiet, Going, Closed, Succeeded
<1>4. CASE Copy
  BY <1>1, <1>2, <1>4, SetupSettles, ReadTakes, WriteQuiet, Zenon DEF Copy
<1> QED BY <1>3, <1>4 DEF Next, Terminating

----------------------------------------------------------------------------
(***************************************************************************)
(* Lines(): what a byte, a part of a line and a whole line add to the      *)
(* lines.                                                                  *)
(***************************************************************************)

\* A byte comes behind lines d: in a line of its own, or in the last one.
Piece(b)        == IF b = NL THEN <<>> ELSE <<b>>
Longer(d, p)    == [d EXCEPT ![Len(d)] = d[Len(d)] \o p]
AddByte(d, c, b) == IF c THEN Append(d, Piece(b)) ELSE Longer(d, Piece(b))

\* Nothing, or a newline, is in front of what follows s.
Clean(s) == s = <<>> \/ s[Len(s)] = NL

Lengthened(d, p, e) ==
  /\ Len(e) = Len(d) /\ e[Len(d)] = d[Len(d)] \o p
  /\ \A j \in 1 .. Len(d) : j # Len(d) => e[j] = d[j]

LEMMA LongerFacts ==
  ASSUME NEW d \in Seq(Seq(Bytes)), d # <<>>, NEW p \in Seq(Bytes), NEW e, e = Longer(d, p)
  PROVE  e \in Seq(Seq(Bytes)) /\ e # <<>> /\ Lengthened(d, p, e)
<1>1. PICK E : E = Seq(Bytes)
  OBVIOUS
<1>2. PICK l : l = d[Len(d)] \o p
  OBVIOUS
<1>3. d \in Seq(E) /\ Len(d) \in 1 .. Len(d) /\ Len(d) \in Nat
  BY <1>1
<1>4. l \in E
  <2>1. d[Len(d)] \in Seq(Bytes)
    BY <1>1, <1>3
  <2> QED BY <1>1, <1>2, <2>1
<1>5. PICK i : i = Len(d)
  OBVIOUS
<1>6. e = [d EXCEPT ![i] = l] /\ i \in 1 .. Len(d)
  BY <1>2, <1>3, <1>5 DEF Longer
<1>7. /\ e \in Seq(E) /\ Len(e) = Len(d)
      /\ \A j \in 1 .. Len(d) : e[j] = IF j = i THEN l ELSE d[j]
  BY <1>3, <1>4, <1>6
<1>8. e[i] = l /\ e # <<>>
  BY <1>3, <1>5, <1>6, <1>7
<1>9. Lengthened(d, p, e)
  BY <1>1, <1>2, <1>5, <1>7, <1>8 DEF Lengthened
<1> QED BY <1>1, <1>7, <1>8, <1>9

LEMMA PieceType == \A b \in Bytes : Piece(b) \in Seq(Bytes)
  BY DEF Piece

LEMMA AddByteFacts ==
  ASSUME NEW d \in Seq(Seq(Bytes)), NEW c \in BOOLEAN, d = <<>> => c, NEW b \in Bytes,
         NEW e, e = AddByte(d, c, b)
  PROVE  e \in Seq(Seq(Bytes)) /\ e # <<>>
<1>1. PICK p \in Seq(Bytes) : p = Piece(b)
  BY PieceType
<1>2. CASE c
  <2>1. PICK E : E = Seq(Bytes)
    OBVIOUS
  <2>2. d \in Seq(E) /\ p \in E /\ e = Append(d, p)
    BY <1>1, <1>2, <2>1 DEF AddByte
  <2>3. e \in Seq(E) /\ e # <<>>
    BY <2>2
  <2> QED BY <2>1, <2>3
<1>3. CASE ~c
  <2>1. d # <<>> /\ e = Longer(d, p)
    BY <1>1, <1>3 DEF AddByte
  <2> QED BY <2>1, LongerFacts, Zenon
<1> QED BY <1>2, <1>3

\* The lines of the first k bytes of s, for each k.
LinesUpTo(s, g) ==
  /\ g[0] = <<>>
  /\ \A k \in 1 .. Len(s) : g[k] = AddByte(g[k - 1], k = 1 \/ s[k - 1] = NL, s[k])

LEMMA LinesRecursion ==
  ASSUME NEW s \in Seq(Bytes)
  PROVE  \E g \in [0 .. Len(s) -> Seq(Seq(Bytes))] :
           /\ LinesUpTo(s, g) /\ Lines(s) = g[Len(s)]
           /\ \A k \in 1 .. Len(s) : g[k] # <<>>
<1> DEFINE N == Len(s)
           B == Seq(Seq(Bytes))
           New(k) == k = 1 \/ s[k - 1] = NL
           Body(h) == [k \in 0 .. Len(s) |->
                         IF k = 0 THEN <<>>
                         ELSE LET new   == k = 1 \/ s[k - 1] = NL
                                  piece == IF s[k] = NL THEN <<>> ELSE <<s[k]>>
                              IN  IF new THEN Append(h[k - 1], piece)
                                  ELSE ReplaceAt(h[k - 1], Len(h[k - 1]), Last(h[k - 1]) \o piece)]
           F == [x \in B \X (1 .. N) |-> AddByte(x[1], New(x[2]) \/ x[1] = <<>>, s[x[2]])]
<1>1. N \in Nat /\ \A k \in 1 .. N : s[k] \in Bytes
  OBVIOUS
<1>2. F \in [B \X (1 .. N) -> B]
  <2> SUFFICES ASSUME NEW d \in B, NEW k \in 1 .. N
               PROVE  AddByte(d, New(k) \/ d = <<>>, s[k]) \in B
    OBVIOUS
  <2>1. PICK c, b, e : c = (New(k) \/ d = <<>>) /\ b = s[k] /\ e = AddByte(d, c, b)
    OBVIOUS
  <2>2. d \in Seq(Seq(Bytes)) /\ c \in BOOLEAN /\ (d = <<>> => c) /\ b \in Bytes
    BY <1>1, <2>1
  <2>3. e \in Seq(Seq(Bytes))
    BY <2>1, <2>2, AddByteFacts, Zenon
  <2> QED BY <2>1, <2>3
<1>3. PICK g \in [0 .. N -> B] : g[0] = <<>> /\ \A k \in 1 .. N : g[k] = F[<<g[k - 1], k>>]
  <2>1. PICK D, d, K, G : D = B /\ d = <<>> /\ K = N /\ G = F
    OBVIOUS
  <2>2. d \in D /\ K \in Nat /\ G \in [D \X (1 .. K) -> D]
    BY <1>1, <1>2, <2>1
  <2>3. Recurs(D, d, K, G)
    BY <2>2, Recursion, Zenon
  <2> HIDE DEF F, N, B
  <2> QED BY <2>1, <2>3, Zenon DEF Recurs
<1>4. \A k \in 1 .. N : k - 1 \in 0 .. N /\ k \in 0 .. N /\ k # 0
  BY <1>1
<1>5. \A k \in 1 .. N : g[k - 1] \in B /\ g[k] = AddByte(g[k - 1], New(k) \/ g[k - 1] = <<>>, s[k])
  <2> SUFFICES ASSUME NEW k \in 1 .. N
               PROVE  g[k - 1] \in B /\ g[k] = AddByte(g[k - 1], New(k) \/ g[k - 1] = <<>>, s[k])
    OBVIOUS
  <2>1. <<g[k - 1], k>> \in B \X (1 .. N)
    BY <1>4
  <2> HIDE DEF B, N, New
  <2> QED BY <1>3, <1>4, <2>1
<1> HIDE DEF F
<1>6. \A k \in 1 .. N : g[k] # <<>>
  <2> SUFFICES ASSUME NEW k \in 1 .. N PROVE g[k] # <<>>
    OBVIOUS
  <2>1. PICK d, c, b, e : d = g[k - 1] /\ c = (New(k) \/ d = <<>>) /\ b = s[k] /\ e = g[k]
    OBVIOUS
  <2>2. /\ d \in Seq(Seq(Bytes)) /\ c \in BOOLEAN /\ (d = <<>> => c) /\ b \in Bytes
        /\ e = AddByte(d, c, b)
    BY <1>1, <1>5, <2>1
  <2>3. e # <<>>
    BY <2>2, AddByteFacts, Zenon
  <2> QED BY <2>1, <2>3
<1>7. \A k \in 1 .. N : g[k] = AddByte(g[k - 1], New(k), s[k])
  <2> SUFFICES ASSUME NEW k \in 1 .. N PROVE g[k] = AddByte(g[k - 1], New(k), s[k])
    OBVIOUS
  <2>1. CASE k = 1
    BY <1>5, <2>1 DEF AddByte
  <2>2. CASE k # 1
    <3>1. k - 1 \in 1 .. N
      BY <1>1, <2>2
    <3>2. g[k - 1] # <<>>
      BY <1>6, <3>1
    <3> HIDE DEF New
    <3> QED BY <1>5, <3>2 DEF AddByte
  <2> QED BY <2>1, <2>2
<1>8. \A h : \A k \in 1 .. N : Body(h)[k] = AddByte(h[k - 1], New(k), s[k])
  <2> SUFFICES ASSUME NEW h, NEW k \in 1 .. N
               PROVE  Body(h)[k] = AddByte(h[k - 1], New(k), s[k])
    OBVIOUS
  <2>1. k \in 0 .. N /\ k # 0
    BY <1>4
  <2> QED BY <2>1 DEF AddByte, Piece, Longer, ReplaceAt, Last
<1>9. \A h : Body(h)[0] = <<>> /\ Body(h) = [k \in 0 .. N |-> Body(h)[k]]
  BY <1>1
<1> HIDE DEF Body, New, N, B
<1>10. g = Body(g)
  <2>1. \A k \in 0 .. N : g[k] = Body(g)[k]
    <3>1. \A k \in 0 .. N : k = 0 \/ k \in 1 .. N
      BY <1>1
    <3> QED BY <1>3, <1>7, <1>8, <1>9, <3>1
  <2>2. g = [k \in 0 .. N |-> g[k]]
    BY <1>3
  <2> QED BY <1>9, <2>1, <2>2
<1> DEFINE h == CHOOSE h : h = Body(h)
<1>11. h = Body(h)
  BY <1>10
<1>12. Lines(s) = h[N]
  BY Zenon DEF Lines, Body, N
<1> HIDE DEF h
<1>13. h[0] = <<>> /\ \A k \in 1 .. N : h[k] = AddByte(h[k - 1], New(k), s[k])
  BY <1>8, <1>9, <1>11
<1>14. \A k \in 0 .. N : h[k] = g[k]
  <2> DEFINE S == {k \in Nat : k <= N => h[k] = g[k]}
  <2>1. 0 \in S
    BY <1>3, <1>13
  <2>2. ASSUME NEW k \in Nat, k \in S PROVE k + 1 \in S
    <3> SUFFICES ASSUME k + 1 <= N PROVE h[k + 1] = g[k + 1]
      OBVIOUS
    <3>1. h[k] = g[k] /\ k + 1 \in 1 .. N /\ (k + 1) - 1 = k
      BY <1>1, <2>2
    <3> HIDE DEF S
    <3> QED BY <1>7, <1>13, <3>1
  <2>3. \A k \in Nat : k \in S
    <3> HIDE DEF S
    <3> QED BY <2>1, <2>2, SetInduction
  <2> QED BY <2>3
<1>15. g[N] = h[N]
  BY <1>1, <1>14
<1>16. LinesUpTo(s, g)
  BY <1>3, <1>7 DEF LinesUpTo, N, New
<1> QED BY <1>3, <1>6, <1>12, <1>15, <1>16 DEF N, B


LEMMA LinesEmpty == Lines(<<>>) = <<>>
<1>1. <<>> \in Seq(Bytes) /\ Len(<<>>) = 0
  OBVIOUS
<1>2. PICK s : s = <<>>
  OBVIOUS
<1>3. s \in Seq(Bytes) /\ Len(s) = 0
  BY <1>1, <1>2
<1>4. PICK g \in [0 .. Len(s) -> Seq(Seq(Bytes))] : LinesUpTo(s, g) /\ Lines(s) = g[Len(s)]
  BY <1>3, LinesRecursion, Zenon
<1> QED BY <1>2, <1>3, <1>4 DEF LinesUpTo

\* A byte more.
LEMMA LinesSnoc ==
  ASSUME NEW s \in Seq(Bytes), NEW b \in Bytes
  PROVE  /\ Lines(s) \in Seq(Seq(Bytes)) /\ (s # <<>> => Lines(s) # <<>>)
         /\ Lines(Append(s, b)) = AddByte(Lines(s), Clean(s), b)
<1>1. PICK t, sz : t = Append(s, b) /\ sz = Len(s)
  OBVIOUS
<1>2. /\ t \in Seq(Bytes) /\ sz \in Nat /\ Len(t) = sz + 1 /\ t[sz + 1] = b
      /\ \A k \in 1 .. sz : t[k] = s[k]
  BY <1>1
<1>3. PICK g \in [0 .. Len(s) -> Seq(Seq(Bytes))] :
        /\ LinesUpTo(s, g) /\ Lines(s) = g[Len(s)]
        /\ \A k \in 1 .. Len(s) : g[k] # <<>>
  BY LinesRecursion, Zenon
<1>4. PICK h \in [0 .. Len(t) -> Seq(Seq(Bytes))] : LinesUpTo(t, h) /\ Lines(t) = h[Len(t)]
  BY <1>2, LinesRecursion, Zenon
<1>5. Lines(s) \in Seq(Seq(Bytes)) /\ (s # <<>> => Lines(s) # <<>>)
  <2>1. sz \in 0 .. sz /\ (s # <<>> => sz \in 1 .. sz)
    BY <1>1, <1>2
  <2> QED BY <1>1, <1>3, <2>1
<1>6. \A k \in 0 .. sz : h[k] = g[k]
  <2> DEFINE S == {k \in Nat : k <= sz => h[k] = g[k]}
  <2>1. 0 \in S
    BY <1>3, <1>4 DEF LinesUpTo
  <2>2. ASSUME NEW k \in Nat, k \in S PROVE k + 1 \in S
    <3> SUFFICES ASSUME k + 1 <= sz PROVE h[k + 1] = g[k + 1]
      OBVIOUS
    <3>1. PICK m : m = k + 1
      OBVIOUS
    <3>2. /\ h[k] = g[k] /\ m \in 1 .. Len(s) /\ m \in 1 .. Len(t) /\ m - 1 = k
          /\ t[m] = s[m] /\ (m # 1 => t[m - 1] = s[m - 1])
      BY <1>1, <1>2, <2>2, <3>1
    <3>3. g[m] = AddByte(g[m - 1], m = 1 \/ s[m - 1] = NL, s[m])
      BY <1>3, <3>2 DEF LinesUpTo
    <3>4. h[m] = AddByte(h[m - 1], m = 1 \/ t[m - 1] = NL, t[m])
      BY <1>4, <3>2 DEF LinesUpTo
    <3>5. (m = 1 \/ s[m - 1] = NL) = (m = 1 \/ t[m - 1] = NL)
      BY <3>2
    <3> QED BY <3>1, <3>2, <3>3, <3>4, <3>5
  <2>3. \A k \in Nat : k \in S
    <3> HIDE DEF S
    <3> QED BY <2>1, <2>2, SetInduction
  <2> QED BY <1>2, <2>3
<1>7. h[sz] = Lines(s)
  BY <1>1, <1>2, <1>3, <1>6
<1>8. h[sz + 1] = AddByte(h[sz], sz + 1 = 1 \/ t[sz] = NL, b)
  <2>1. sz + 1 \in 1 .. Len(t) /\ (sz + 1) - 1 = sz
    BY <1>2
  <2> QED BY <1>2, <1>4, <2>1 DEF LinesUpTo
<1>9. (sz + 1 = 1 \/ t[sz] = NL) = Clean(s)
  <2>1. CASE s = <<>>
    BY <1>1, <2>1 DEF Clean
  <2>2. CASE s # <<>>
    <3>1. sz \in 1 .. sz /\ sz + 1 # 1
      BY <1>1, <1>2, <2>2
    <3>2. t[sz] = s[sz]
      BY <1>2, <3>1
    <3> QED BY <1>1, <2>2, <3>1, <3>2 DEF Clean
  <2> QED BY <2>1, <2>2
<1> QED BY <1>1, <1>2, <1>4, <1>5, <1>7, <1>8, <1>9

NoNL(x) == \A i \in 1 .. Len(x) : x[i] # NL

\* Bytes without a newline come behind lines d.
AddPart(d, c, x) == IF c THEN Append(d, x) ELSE Longer(d, x)

\* z is x and b.
OneMore(x, b, z) == z = Append(x, b)

LEMMA AddPartSnoc ==
  ASSUME NEW d \in Seq(Seq(Bytes)), NEW c \in BOOLEAN, d = <<>> => c, NEW x \in Seq(Bytes),
         NEW b \in Bytes, NEW z, OneMore(x, b, z), NEW e, e = AddPart(d, c, x)
  PROVE  /\ e \in Seq(Seq(Bytes)) /\ e # <<>>
         /\ b # NL => Longer(e, Piece(b)) = AddPart(d, c, z)
         /\ Longer(e, Piece(NL)) = e
<1>1. PICK E : E = Seq(Bytes)
  OBVIOUS
<1>2. d \in Seq(E) /\ x \in E
  BY <1>1
<1>3. e \in Seq(Seq(Bytes)) /\ e # <<>>
  <2>1. CASE c
    BY <1>1, <1>2, <2>1 DEF AddPart
  <2>2. CASE ~c
    <3>1. d # <<>> /\ e = Longer(d, x)
      BY <2>2 DEF AddPart
    <3> QED BY <3>1, LongerFacts, Zenon
  <2> QED BY <2>1, <2>2
<1>4. PICK m, l : /\ m = Len(e) /\ l = e[m]
                  /\ m \in Nat /\ m > 0 /\ l \in Seq(Bytes)
  <2>1. Len(e) \in 1 .. Len(e) /\ Len(e) \in Nat /\ Len(e) > 0
    BY <1>3
  <2>2. e[Len(e)] \in Seq(Bytes)
    BY <1>3, <2>1, ElementOfSeq, Zenon
  <2> QED BY <2>1, <2>2
<1>5. Longer(e, Piece(NL)) = e
  <2>1. l \o <<>> = l
    BY <1>4, ConcatEmptySeq, Zenon
  <2>2. [e EXCEPT ![m] = l] = e
    BY <1>3, <1>4
  <2> QED BY <1>4, <2>1, <2>2 DEF Longer, Piece
<1>6. ASSUME b # NL PROVE Longer(e, Piece(b)) = AddPart(d, c, z)
  <2>1. z = Append(x, b)
    BY DEF OneMore
  <2>2. z = x \o <<b>> /\ <<b>> \in Seq(Bytes) /\ z \in Seq(Bytes)
    BY <2>1
  <2>3. Longer(e, Piece(b)) = [e EXCEPT ![m] = l \o <<b>>]
    BY <1>4, <1>6 DEF Longer, Piece
  <2>4. CASE c
    <3>1. e = Append(d, x) /\ AddPart(d, c, z) = Append(d, z)
      BY <2>4 DEF AddPart
    <3>2. m = Len(d) + 1 /\ l = x
      BY <1>2, <1>4, <3>1
    <3>3. [e EXCEPT ![m] = z] = Append(d, z)
      <4>1. PICK w : w = Append(d, z)
        OBVIOUS
      <4>2. z \in E /\ w \in Seq(E) /\ Len(w) = Len(d) + 1 /\ w[Len(d) + 1] = z
            /\ \A j \in 1 .. Len(d) : w[j] = d[j]
        BY <1>1, <1>2, <2>2, <4>1
      <4>3. Len(d) \in Nat /\ e \in Seq(E) /\ Len(e) = Len(d) + 1 /\ \A j \in 1 .. Len(d) : e[j] = d[j]
        BY <1>1, <1>2, <3>1
      <4>4. PICK v : v = [e EXCEPT ![m] = z]
        OBVIOUS
      <4>5. v \in Seq(E) /\ Len(v) = Len(d) + 1 /\ v[m] = z
            /\ \A j \in 1 .. Len(d) : v[j] = d[j]
        BY <3>2, <4>2, <4>3, <4>4
      <4>6. ASSUME NEW j \in 1 .. Len(v) PROVE v[j] = w[j]
        <5>1. j \in 1 .. Len(d) \/ j = Len(d) + 1
          BY <4>3, <4>5
        <5> QED BY <3>2, <4>2, <4>5, <5>1
      <4>7. v = w
        <5>1. Len(v) = Len(w)
          BY <4>2, <4>5
        <5> QED BY <4>2, <4>5, <4>6, <5>1, SeqEqual, Zenon
      <4> QED BY <4>1, <4>4, <4>7
    <3> QED BY <2>1, <2>2, <2>3, <3>1, <3>2, <3>3
  <2>5. CASE ~c
    <3>1. e = Longer(d, x) /\ AddPart(d, c, z) = Longer(d, z) /\ d # <<>>
      BY <2>5 DEF AddPart
    <3>2. PICK o : o = d[Len(d)]
      OBVIOUS
    <3>3. o \in Seq(Bytes)
      <4>1. Len(d) \in 1 .. Len(d)
        BY <3>1
      <4> QED BY <3>2, <4>1, ElementOfSeq, Zenon
    <3>4. m = Len(d) /\ l = o \o x
      <4>1. Lengthened(d, x, e)
        BY <3>1, LongerFacts, Zenon
      <4> QED BY <1>4, <3>2, <4>1 DEF Lengthened
    <3>5. l \o <<b>> = o \o z
      <4>1. PICK y, B : y = <<b>> /\ B = Bytes
        OBVIOUS
      <4>2. o \in Seq(B) /\ x \in Seq(B) /\ y \in Seq(B) /\ l = o \o x /\ z = x \o y
        <5>1. o \in Seq(B) /\ x \in Seq(B) /\ l = o \o x
          BY <3>3, <3>4, <4>1
        <5>2. y \in Seq(B)
          BY <4>1
        <5>3. z = x \o y
          BY <2>2, <4>1
        <5> QED BY <5>1, <5>2, <5>3
      <4>3. l \o y = o \o z
        <5>1. o \in Seq(B) /\ x \in Seq(B) /\ y \in Seq(B)
          BY <4>2
        <5>2. (o \o x) \o y = o \o (x \o y)
          BY <5>1, Assoc
        <5> QED BY <4>2, <5>2, Zenon
      <4> QED BY <4>1, <4>3
    <3>6. PICK p : p = o \o z
      OBVIOUS
    <3>7. e = [d EXCEPT ![m] = l] /\ Longer(d, z) = [d EXCEPT ![m] = p]
      BY <3>1, <3>2, <3>4, <3>6 DEF Longer
    <3>8. [e EXCEPT ![m] = p] = [d EXCEPT ![m] = p]
      BY <3>7
    <3> QED BY <2>1, <2>3, <3>1, <3>5, <3>6, <3>7, <3>8
  <2> QED BY <2>4, <2>5
<1> QED BY <1>3, <1>5, <1>6

\* Bytes without a newline: another line, or more of the last one.
LEMMA LinesOfPart ==
  ASSUME NEW s \in Seq(Bytes), NEW x \in Seq(Bytes), x # <<>>, NoNL(x), NEW t, t = s \o x
  PROVE  Lines(t) = AddPart(Lines(s), Clean(s), x) /\ ~Clean(t)
<1> DEFINE Fine(y) == y # <<>> /\ NoNL(y) =>
                        Lines(s \o y) = AddPart(Lines(s), Clean(s), y) /\ ~Clean(s \o y)
           Q == {y \in Seq(Bytes) : Fine(y)}
<1>1. <<>> \in Q
  OBVIOUS
<1>2. ASSUME NEW y \in Seq(Bytes), NEW b \in Bytes, y \in Q PROVE Append(y, b) \in Q
  <2> SUFFICES ASSUME NoNL(Append(y, b)) PROVE Fine(Append(y, b))
    BY DEF Q
  <2>1. PICK z, u, v : z = Append(y, b) /\ u = s \o y /\ v = s \o z
    OBVIOUS
  <2>2. /\ z \in Seq(Bytes) /\ Len(z) = Len(y) + 1 /\ Len(y) \in Nat /\ z[Len(y) + 1] = b
        /\ \A i \in 1 .. Len(y) : z[i] = y[i]
    BY <2>1
  <2>3. b # NL /\ NoNL(y)
    <3>1. \A i \in 1 .. Len(y) : i \in 1 .. Len(z)
      BY <2>2
    <3>2. Len(y) + 1 \in 1 .. Len(z)
      BY <2>2
    <3> QED BY <2>1, <2>2, <3>1, <3>2 DEF NoNL
  <2>4. u \in Seq(Bytes) /\ v = Append(u, b)
    BY <2>1
  <2>5. ~Clean(v)
    <3>1. Len(v) = Len(u) + 1 /\ Len(u) \in Nat /\ v \in Seq(Bytes)
      BY <2>4
    <3>2. v[Len(u) + 1] = b
      BY <2>4, <3>1
    <3> QED BY <2>3, <3>1, <3>2 DEF Clean
  <2>6. Lines(v) = AddByte(Lines(u), Clean(u), b)
    BY <2>4, LinesSnoc
  <2>7. PICK d, c : d = Lines(s) /\ c = Clean(s)
    OBVIOUS
  <2>8. d \in Seq(Seq(Bytes)) /\ c \in BOOLEAN /\ (d = <<>> => c)
    BY <2>7, LinesSnoc DEF Clean
  <2>9. Lines(v) = AddPart(d, c, z)
    <3>1. CASE y = <<>>
      <4>1. u = s /\ z = <<b>>
        BY <2>1, <3>1
      <4> QED BY <2>3, <2>6, <2>7, <4>1 DEF AddByte, AddPart, Piece
    <3>2. CASE y # <<>>
      <4>1. Lines(u) = AddPart(d, c, y) /\ ~Clean(u)
        BY <1>2, <2>1, <2>3, <2>7, <3>2
      <4>2. PICK e : e = AddPart(d, c, y)
        OBVIOUS
      <4>3. Longer(e, Piece(b)) = AddPart(d, c, z)
        <5>1. OneMore(y, b, z)
          BY <2>1 DEF OneMore
        <5> QED BY <2>3, <2>8, <4>2, <5>1, AddPartSnoc
      <4>4. Lines(v) = Longer(Lines(u), Piece(b))
        BY <2>6, <4>1 DEF AddByte
      <4> QED BY <4>1, <4>2, <4>3, <4>4
    <3> QED BY <3>1, <3>2
  <2> QED BY <2>1, <2>5, <2>7, <2>9
<1>3. \A y \in Seq(Bytes) : y \in Q
  <2> HIDE DEF Q
  <2> QED BY <1>1, <1>2, SnocInduction
<1>4. Fine(x)
  BY <1>3
<1> QED BY <1>4

\* The same with the newline that ends the line.
LEMMA LinesOfLine ==
  ASSUME NEW s \in Seq(Bytes), NEW x \in Seq(Bytes), NoNL(x), NEW t, t = s \o Append(x, NL)
  PROVE  Lines(t) = AddPart(Lines(s), Clean(s), x) /\ Clean(t)
<1>1. PICK u : u = s \o x
  OBVIOUS
<1>2. NL \in Bytes /\ u \in Seq(Bytes) /\ t = Append(u, NL) /\ t \in Seq(Bytes)
  BY <1>1 DEF Bytes
<1>3. Clean(t)
  BY <1>2 DEF Clean
<1>4. Lines(t) = AddByte(Lines(u), Clean(u), NL)
  BY <1>2, LinesSnoc
<1>5. PICK d, c : d = Lines(s) /\ c = Clean(s)
  OBVIOUS
<1>6. d \in Seq(Seq(Bytes)) /\ c \in BOOLEAN /\ (d = <<>> => c)
  BY <1>2, <1>5, LinesSnoc DEF Clean
<1>7. CASE x = <<>>
  <2>1. u = s
    BY <1>1, <1>7
  <2>2. AddByte(d, c, NL) = AddPart(d, c, x)
    BY <1>7 DEF AddByte, AddPart, Piece
  <2> QED BY <1>3, <1>4, <1>5, <2>1, <2>2
<1>8. CASE x # <<>>
  <2>1. Lines(u) = AddPart(d, c, x) /\ ~Clean(u)
    BY <1>1, <1>5, <1>8, LinesOfPart
  <2>2. PICK e : e = AddPart(d, c, x)
    OBVIOUS
  <2>3. Longer(e, Piece(NL)) = e
    <3>1. PICK z : OneMore(x, NL, z)
      BY DEF OneMore
    <3>2. NL \in Bytes
      BY <1>2
    <3> QED BY <1>6, <2>2, <3>1, <3>2, AddPartSnoc
  <2>4. Lines(t) = Longer(Lines(u), Piece(NL))
    BY <1>4, <2>1 DEF AddByte
  <2> QED BY <1>3, <1>4, <1>5, <2>1, <2>2, <2>3, <2>4
<1> QED BY <1>7, <1>8

\* e are lines d and what may come behind them: the last line can grow, if no
\* newline ends it.
Extends(d, c, e) ==
  /\ Len(d) <= Len(e)
  /\ \A j \in 1 .. Len(d) : IF c \/ j < Len(d) THEN e[j] = d[j]
                            ELSE \E y \in Seq(Bytes) : e[j] = d[j] \o y

LEMMA LinesExtend ==
  ASSUME NEW s \in Seq(Bytes), NEW x \in Seq(Bytes), NEW t, t = s \o x
  PROVE  Extends(Lines(s), Clean(s), Lines(t))
<1> DEFINE More(y) == /\ Extends(Lines(s), Clean(s), Lines(s \o y))
                      /\ y # <<>> /\ Clean(s) => Len(Lines(s \o y)) > Len(Lines(s))
           Q == {y \in Seq(Bytes) : More(y)}
<1>1. PICK d, c : d = Lines(s) /\ c = Clean(s)
  OBVIOUS
<1>2. /\ d \in Seq(Seq(Bytes)) /\ c \in BOOLEAN /\ (d = <<>> => c) /\ Len(d) \in Nat
      /\ \A j \in 1 .. Len(d) : d[j] \in Seq(Bytes)
  <2>1. NL \in Bytes
    BY DEF Bytes
  <2>2. d \in Seq(Seq(Bytes)) /\ c \in BOOLEAN /\ (d = <<>> => c)
    BY <1>1, <2>1, LinesSnoc DEF Clean
  <2> QED BY <2>2, ElementOfSeq
<1>3. <<>> \in Q
  <2>1. s \o <<>> = s
    OBVIOUS
  <2>2. Extends(d, c, d)
    <3>1. ASSUME NEW j \in 1 .. Len(d) PROVE \E y \in Seq(Bytes) : d[j] = d[j] \o y
      <4>1. PICK l : l = d[j]
        OBVIOUS
      <4>2. l \in Seq(Bytes)
        BY <1>2, <4>1
      <4>3. l = l \o <<>> /\ <<>> \in Seq(Bytes)
        BY <4>2
      <4> QED BY <4>1, <4>3
    <3>2. Len(d) <= Len(d)
      BY <1>2
    <3> QED BY <3>1, <3>2 DEF Extends
  <2> QED BY <1>1, <2>1, <2>2
<1>4. ASSUME NEW y \in Seq(Bytes), NEW b \in Bytes, y \in Q PROVE Append(y, b) \in Q
  <2>1. PICK z, u, v : z = Append(y, b) /\ u = s \o y /\ v = s \o z
    OBVIOUS
  <2>2. u \in Seq(Bytes) /\ v = Append(u, b) /\ z \in Seq(Bytes) /\ z # <<>>
    <3>1. u \in Seq(Bytes) /\ v = Append(u, b)
      BY <2>1
    <3>2. z \in Seq(Bytes) /\ Len(z) = Len(y) + 1 /\ Len(y) \in Nat
      BY <2>1
    <3> QED BY <3>1, <3>2
  <2>3. PICK e, f, k, p : /\ e = Lines(u) /\ f = Lines(v) /\ k = Clean(u) /\ p = Piece(b)
    OBVIOUS
  <2>4. f = AddByte(e, k, b) /\ e \in Seq(Seq(Bytes)) /\ k \in BOOLEAN /\ (e = <<>> => k)
        /\ p \in Seq(Bytes) /\ Len(e) \in Nat
    <3>1. f = AddByte(e, k, b) /\ e \in Seq(Seq(Bytes)) /\ k \in BOOLEAN /\ (e = <<>> => k)
      BY <2>2, <2>3, LinesSnoc DEF Clean
    <3> QED BY <2>3, <3>1, PieceType
  <2>5. Extends(d, c, e) /\ (y # <<>> /\ c => Len(e) > Len(d))
    BY <1>1, <1>4, <2>1, <2>3
  <2>6. CASE k
    <3>1. f = Append(e, p)
      BY <2>3, <2>4, <2>6 DEF AddByte
    <3>2. PICK E : E = Seq(Bytes)
      OBVIOUS
    <3>3. Len(f) = Len(e) + 1 /\ \A j \in 1 .. Len(e) : f[j] = e[j]
      BY <2>4, <3>1, <3>2
    <3>4. Len(d) <= Len(f) /\ Len(f) > Len(d) /\ \A j \in 1 .. Len(d) : j \in 1 .. Len(e)
      BY <1>2, <2>4, <2>5, <3>3 DEF Extends
    <3>5. Extends(d, c, f)
      BY <2>5, <3>3, <3>4 DEF Extends
    <3> QED BY <1>1, <2>1, <2>2, <2>3, <3>4, <3>5
  <2>7. CASE ~k
    <3>1. f = Longer(e, p) /\ e # <<>>
      BY <2>3, <2>4, <2>7 DEF AddByte
    <3>2. /\ Len(f) = Len(e) /\ f[Len(e)] = e[Len(e)] \o p
          /\ \A j \in 1 .. Len(e) : j # Len(e) => f[j] = e[j]
      <4>1. Lengthened(e, p, f)
        BY <2>4, <3>1, LongerFacts, Zenon
      <4> QED BY <4>1 DEF Lengthened
    <3>3. y = <<>> => ~c
      <4>1. y = <<>> => u = s
        BY <2>1
      <4> QED BY <1>1, <2>3, <2>7, <4>1
    <3>4. c => Len(f) > Len(d)
      BY <2>5, <3>2, <3>3
    <3>5. Len(d) <= Len(e)
      BY <2>5 DEF Extends
    <3>6. ASSUME NEW j \in 1 .. Len(d), c \/ j < Len(d) PROVE f[j] = d[j]
      <4>1. j # Len(e) /\ j \in 1 .. Len(e)
        BY <1>2, <2>4, <3>2, <3>4, <3>5, <3>6
      <4>2. e[j] = d[j]
        BY <2>5, <3>6 DEF Extends
      <4> QED BY <3>2, <4>1, <4>2
    <3>7. ASSUME NEW j \in 1 .. Len(d), ~(c \/ j < Len(d))
          PROVE  \E w \in Seq(Bytes) : f[j] = d[j] \o w
      <4>1. PICK w \in Seq(Bytes) : e[j] = d[j] \o w
        BY <2>5, <3>7 DEF Extends
      <4>2. CASE j = Len(e)
        <5>1. PICK l, q, r : l = d[j] /\ q = l \o w /\ r = w \o p
          OBVIOUS
        <5>2. l \in Seq(Bytes)
          BY <1>2, <5>1
        <5>3. q \o p = l \o r
          <6>1. PICK g : g = q \o p
            OBVIOUS
          <6>2. Joined(l, w, q) /\ Joined(w, p, r) /\ Joined(q, p, g)
            BY <5>1, <6>1 DEF Joined
          <6>3. Joined(l, r, g)
            BY <2>4, <5>2, <6>2, JoinAssoc, Zenon
          <6> QED BY <6>1, <6>3 DEF Joined
        <5>4. r \in Seq(Bytes)
          BY <2>4, <5>1
        <5> QED BY <3>2, <4>1, <4>2, <5>1, <5>3, <5>4
      <4>3. CASE j # Len(e)
        <5>1. j \in 1 .. Len(e)
          BY <1>2, <2>4, <3>5
        <5> QED BY <3>2, <4>1, <4>3, <5>1
      <4> QED BY <4>2, <4>3
    <3>8. Extends(d, c, f)
      <4>1. Len(d) <= Len(f)
        BY <3>2, <3>5
      <4> QED BY <3>6, <3>7, <4>1 DEF Extends
    <3> QED BY <1>1, <2>1, <2>2, <2>3, <3>4, <3>8
  <2> QED BY <2>6, <2>7
<1>5. \A y \in Seq(Bytes) : y \in Q
  <2> HIDE DEF Q
  <2> QED BY <1>3, <1>4, SnocInduction
<1>6. More(x)
  BY <1>5
<1> QED BY <1>6

----------------------------------------------------------------------------
(***************************************************************************)
(* The records counted as truncated.                                       *)
(***************************************************************************)

\* y is the line in front of the first newline of s, x that line with its
\* newline, r what follows.
FirstLine(s, y, x, r) ==
  /\ y \in Seq(Bytes) /\ x \in Seq(Bytes) /\ r \in Seq(Bytes)
  /\ NoNL(y) /\ x = Append(y, NL) /\ Joined(x, r, s)
  /\ Len(y) + 1 = NewlineIn(s) /\ y = Take(s, NewlineIn(s) - 1) /\ r = Drop(s, NewlineIn(s))

LEMMA NewlineFirst ==
  ASSUME NEW s \in Seq(Bytes), Contains(s, NL), NEW j, j = NewlineIn(s)
  PROVE  /\ j \in Nat /\ 1 <= j /\ j <= Len(s) /\ s[j] = NL
         /\ \A i \in 1 .. j - 1 : s[i] # NL
<1> DEFINE I == {i \in 1 .. Len(s) : s[i] = NL}
<1>1. I # {} /\ Len(s) \in Nat /\ I \in SUBSET (1 .. Len(s))
  BY DEF Contains
<1>2. j = Min(I)
  BY <1>1 DEF NewlineIn, SelectInSeq
<1>3. Min(I) \in I
  BY <1>1, MinMaxIn
<1>4. PICK x \in I : \A y \in I : ~(y < x)
  <2>1. PICK x \in I : \A y \in I : ~(<<y, x>> \in OpToRel(<, Nat))
    <3>1. I \in SUBSET Nat
      BY <1>1
    <3> HIDE DEF I
    <3> QED BY <1>1, <3>1, WFMin, NatLessThanWellFounded, Zenon
  <2>2. ASSUME NEW y \in I PROVE ~(y < x)
    <3>1. y \in Nat /\ x \in Nat
      BY <1>1
    <3> QED BY <2>1, <3>1 DEF OpToRel
  <2> QED BY <2>2
<1>5. \A y \in I : x <= y
  BY <1>4
<1>6. \A y \in I : Min(I) <= y
  BY <1>4, <1>5 DEF Min
<1>7. ASSUME NEW i \in 1 .. j - 1 PROVE s[i] # NL
  <2>1. i \in 1 .. Len(s) /\ ~(j <= i)
    BY <1>1, <1>2, <1>3
  <2>2. i \notin I
    BY <1>2, <1>6, <2>1
  <2> QED BY <2>1, <2>2
<1> QED BY <1>1, <1>2, <1>3, <1>7

LEMMA NoNewline ==
  ASSUME NEW s \in Seq(Bytes), ~Contains(s, NL)
  PROVE  NoNL(s) /\ Drop(s, NewlineIn(s)) = <<>> /\ NewlineIn(s) = Len(s) + 1
<1>1. NoNL(s)
  BY DEF NoNL, Contains
<1>2. NewlineIn(s) = Len(s) + 1
  BY DEF NewlineIn
<1>3. PICK k : k = Len(s) + 1
  OBVIOUS
<1>4. k \in Nat /\ k > Len(s)
  BY <1>3
<1>5. Drop(s, k) \in Seq(Bytes) /\ Len(Drop(s, k)) = 0
  BY <1>4, TakeDrop
<1>6. Drop(s, k) = <<>>
  BY <1>5
<1> QED BY <1>1, <1>2, <1>3, <1>6

LEMMA CutLine ==
  ASSUME NEW s \in Seq(Bytes), Contains(s, NL)
  PROVE  \E y, x, r : FirstLine(s, y, x, r)
<1>1. PICK j, y, x, r : j = NewlineIn(s) /\ y = Take(s, j - 1) /\ x = Take(s, j) /\ r = Drop(s, j)
  OBVIOUS
<1>2. /\ j \in Nat /\ 1 <= j /\ j <= Len(s) /\ s[j] = NL
      /\ \A i \in 1 .. j - 1 : s[i] # NL
  BY <1>1, NewlineFirst
<1>3. PICK k : k = j - 1
  OBVIOUS
<1>4. k \in Nat /\ k + 1 = j /\ k <= Len(s)
  BY <1>2, <1>3
<1>5. y = Take(s, k)
  BY <1>1, <1>3
<1>6. /\ y \in Seq(Bytes) /\ Len(y) = k
      /\ \A i \in 1 .. k : y[i] = s[i]
  <2>1. PICK z : z = Drop(s, k)
    OBVIOUS
  <2> QED BY <1>4, <1>5, <2>1, SplitAt
<1>7. /\ x \in Seq(Bytes) /\ r \in Seq(Bytes) /\ Len(x) = j
      /\ \A i \in 1 .. j : x[i] = s[i]
      /\ Joined(x, r, s)
  <2>1. Split(s, j, x, r)
    BY <1>1, <1>2, SplitFacts
  <2> QED BY <2>1 DEF Split
<1>8. NoNL(y)
  BY <1>2, <1>3, <1>6 DEF NoNL
<1>9. x = Append(y, NL)
  <2>1. PICK z, B : z = Append(y, NL) /\ B = Bytes
    OBVIOUS
  <2>2. NL \in B
    BY <2>1 DEF Bytes
  <2>3. z \in Seq(B) /\ Len(z) = k + 1 /\ z[k + 1] = NL /\ \A i \in 1 .. k : z[i] = y[i]
    BY <1>6, <2>1, <2>2
  <2>4. ASSUME NEW i \in 1 .. Len(x) PROVE x[i] = z[i]
    <3>1. CASE i = j
      BY <1>2, <1>4, <1>7, <2>3, <3>1
    <3>2. CASE i # j
      <4>1. i \in 1 .. k /\ i \in 1 .. j
        BY <1>2, <1>4, <1>7, <3>2
      <4> QED BY <1>6, <1>7, <2>3, <4>1
    <3> QED BY <3>1, <3>2
  <2>5. Len(x) = Len(z)
    BY <1>4, <1>7, <2>3
  <2>6. x \in Seq(B)
    BY <1>7, <2>1
  <2> QED BY <2>1, <2>3, <2>4, <2>5, <2>6, SeqEqual, Zenon
<1>10. FirstLine(s, y, x, r)
  BY <1>1, <1>4, <1>6, <1>7, <1>8, <1>9 DEF FirstLine
<1> QED BY <1>10

----------------------------------------------------------------------------
\* T are k of the lines d, with every line that is longer than w.
Marks(d, T, k, w) ==
  /\ T \in SUBSET (1 .. Len(d)) /\ IsFiniteSet(T) /\ Cardinality(T) = k
  /\ \A j \in 1 .. Len(d) : Len(d[j]) > w => j \in T

\* Those of T are as long as w, but perhaps for the last one.
AllLong(d, T, w, u) == \A j \in T : Len(d[j]) >= w \/ (u /\ j = Len(d))

\* Another line y comes; it can be marked, and must be if it is longer than w.
MarkedMore(d, y, w, T, k, e, U) ==
  /\ Len(e) = Len(d) + 1
  /\ Len(y) <= w => Marks(e, T, k, w) /\ AllLong(e, T, w, FALSE)
  /\ Marks(e, U, k + 1, w) /\ Len(e) \in U
  /\ Len(y) >= w => AllLong(e, U, w, FALSE)
  /\ AllLong(e, U, w, TRUE)

LEMMA MarkAppend ==
  ASSUME NEW d \in Seq(Seq(Bytes)), NEW y \in Seq(Bytes), NEW w \in Nat, NEW T, NEW k \in Nat,
         Marks(d, T, k, w), AllLong(d, T, w, FALSE), NEW e, e = Append(d, y),
         NEW U, U = T \cup {Len(e)}
  PROVE  MarkedMore(d, y, w, T, k, e, U)
<1>1. PICK E, m : E = Seq(Bytes) /\ m = Len(d)
  OBVIOUS
<1>2. m \in Nat /\ e \in Seq(E) /\ Len(e) = m + 1 /\ e[m + 1] = y /\ \A j \in 1 .. m : e[j] = d[j]
  BY <1>1
<1>3. /\ T \in SUBSET (1 .. m) /\ IsFiniteSet(T) /\ Cardinality(T) = k
      /\ \A j \in 1 .. m : Len(d[j]) > w => j \in T
      /\ \A j \in T : Len(d[j]) >= w
  BY <1>1 DEF Marks, AllLong
<1>4. \A j \in 1 .. m + 1 : j \in 1 .. m \/ j = m + 1
  BY <1>2
<1>5. m + 1 \notin T /\ U = T \cup {m + 1} /\ T \in SUBSET (1 .. m + 1) /\ U \in SUBSET (1 .. m + 1)
  <2>1. m + 1 \notin 1 .. m /\ m + 1 \in 1 .. m + 1 /\ \A j \in 1 .. m : j \in 1 .. m + 1
    BY <1>2
  <2> QED BY <1>2, <1>3, <2>1
<1>6. IsFiniteSet(U) /\ Cardinality(U) = k + 1
  <2>1. PICK o : o = m + 1
    OBVIOUS
  <2>2. IsFiniteSet(T \cup {o}) /\ (Cardinality(T \cup {o}) = IF o \in T THEN Cardinality(T) ELSE Cardinality(T) + 1)
    BY <1>3, FS_AddElement, Zenon
  <2> QED BY <1>3, <1>5, <2>1, <2>2
<1>7. ASSUME Len(y) <= w PROVE Marks(e, T, k, w) /\ AllLong(e, T, w, FALSE)
  <2>1. ~(Len(y) > w)
    BY <1>7
  <2>2. \A j \in 1 .. m + 1 : Len(e[j]) > w => j \in T
    BY <1>2, <1>3, <1>4, <2>1
  <2> QED BY <1>2, <1>3, <1>5, <2>2 DEF Marks, AllLong
<1>8. Marks(e, U, k + 1, w) /\ Len(e) \in U
  <2>1. \A j \in 1 .. m + 1 : Len(e[j]) > w => j \in U
    BY <1>2, <1>3, <1>4, <1>5
  <2> QED BY <1>2, <1>5, <1>6, <2>1 DEF Marks
<1>9. AllLong(e, U, w, TRUE) /\ (Len(y) >= w => AllLong(e, U, w, FALSE))
  BY <1>2, <1>3, <1>5 DEF AllLong
<1> QED BY <1>1, <1>2, <1>7, <1>8, <1>9 DEF MarkedMore

LEMMA MarkLonger ==
  ASSUME NEW d \in Seq(Seq(Bytes)), NEW y \in Seq(Bytes), NEW w \in Nat, NEW T, NEW k \in Nat,
         Marks(d, T, k, w), AllLong(d, T, w, FALSE), Len(d) \in T, NEW e, e = Longer(d, y)
  PROVE  Marks(e, T, k, w) /\ AllLong(e, T, w, FALSE) /\ Len(e) \in T
<1>1. d # <<>>
  BY DEF Marks
<1>2. e \in Seq(Seq(Bytes)) /\ Lengthened(d, y, e)
  BY <1>1, LongerFacts, Zenon
<1>3. PICK m : m = Len(d)
  OBVIOUS
<1>4. /\ Len(e) = m /\ e[m] = d[m] \o y /\ m \in T
      /\ \A j \in 1 .. m : j # m => e[j] = d[j]
  BY <1>2, <1>3 DEF Lengthened
<1>5. /\ T \in SUBSET (1 .. m) /\ IsFiniteSet(T) /\ Cardinality(T) = k
      /\ \A j \in 1 .. m : Len(d[j]) > w => j \in T
      /\ \A j \in T : Len(d[j]) >= w
  BY <1>3 DEF Marks, AllLong
<1>6. Len(e[m]) >= w
  <2>1. PICK l : l = d[m]
    OBVIOUS
  <2>2. l \in Seq(Bytes)
    BY <1>3, <1>4, <1>5, <2>1, ElementOfSeq, Zenon
  <2>3. Len(l \o y) = Len(l) + Len(y) /\ Len(l) \in Nat /\ Len(y) \in Nat
    BY <2>2
  <2>4. Len(l) >= w
    BY <1>4, <1>5, <2>1
  <2> QED BY <1>4, <2>1, <2>3, <2>4
<1>7. \A j \in 1 .. m : Len(e[j]) > w => j \in T
  BY <1>4, <1>5
<1>8. \A j \in T : Len(e[j]) >= w
  BY <1>4, <1>5, <1>6
<1> QED BY <1>4, <1>5, <1>7, <1>8 DEF Marks, AllLong

----------------------------------------------------------------------------
LEMMA LinesType ==
  ASSUME NEW s \in Seq(Bytes)
  PROVE  Lines(s) \in Seq(Seq(Bytes)) /\ (Lines(s) = <<>> => s = <<>>)
<1>1. NL \in Bytes
  BY DEF Bytes
<1> QED BY <1>1, LinesSnoc

\* The conversion takes x of what is left.
LEMMA JoinMove ==
  ASSUME NEW c \in Seq(Bytes), NEW i, NEW f, Joined(c, i, f),
         NEW x \in Seq(Bytes), NEW r \in Seq(Bytes), Joined(x, r, i),
         NEW e, Joined(c, x, e)
  PROVE  e \in Seq(Bytes) /\ Joined(e, r, f)
<1>1. PICK w : Joined(e, r, w)
  BY DEF Joined
<1>2. Joined(c, i, w)
  BY <1>1, JoinAssoc, Zenon
<1>3. w = f
  BY <1>2 DEF Joined
<1>4. e \in Seq(Bytes)
  BY JoinedFacts, Zenon DEF JoinFacts
<1> QED BY <1>1, <1>3, <1>4

LEMMA JoinEmpty ==
  ASSUME NEW c \in Seq(Bytes), NEW f
  PROVE  /\ Joined(c, <<>>, f) <=> f = c
         /\ Joined(<<>>, c, f) <=> f = c
<1>1. c \o <<>> = c /\ <<>> \o c = c
  BY ConcatEmptySeq, Zenon
<1> QED BY <1>1 DEF Joined

\* The lines that count as truncated, of those the conversion has taken: c.
TruncOK(c, T) ==
  /\ c \in Seq(Bytes) /\ Joined(c, inbuf, fed)
  /\ Marks(Lines(c), T, st.trunc, cmd.cbs)
  /\ AllLong(Lines(c), T, cmd.cbs, Closed /\ UnfinishedRecord)
  /\ Going => (intrunc <=> ~Clean(c))
  /\ Going /\ intrunc => Len(Lines(c)) \in T
  /\ pc \in {"loop", "fill", "close"} => IF intrunc THEN inbuf = <<>> ELSE NoNL(inbuf)

TruncInv == Has("BLOCK") /\ (Going \/ Closed) => \E c, T : TruncOK(c, T)

LEMMA InitTrunc == Init => TruncInv
<1> SUFFICES ASSUME Init, Has("BLOCK") PROVE \E c, T : TruncOK(c, T)
  BY DEF TruncInv
<1>1. pc = "open" /\ inbuf = <<>> /\ fed = <<>> /\ st.trunc = 0 /\ intrunc = FALSE /\ back = "loop"
  BY DEF Init, NoStats
<1>2. <<>> \in Seq(Bytes) /\ Len(<<>>) = 0 /\ 1 .. 0 = {}
  OBVIOUS
<1>3. Marks(<<>>, {}, 0, cmd.cbs) /\ AllLong(<<>>, {}, cmd.cbs, Closed /\ UnfinishedRecord)
  BY <1>2, FS_EmptySet DEF Marks, AllLong
<1>4. Joined(<<>>, <<>>, <<>>)
  BY <1>2, JoinEmpty
<1>5. TruncOK(<<>>, {})
  BY <1>1, <1>2, <1>3, <1>4, LinesEmpty DEF TruncOK, Clean
<1> QED BY <1>5

LEMMA SettlesTrunc == cmd' = cmd /\ Settles => TruncInv'
<1> SUFFICES ASSUME cmd' = cmd, Settles PROVE \E c, T : TruncOK(c, T)'
  BY DEF TruncInv
<1>1. inbuf' = <<>> /\ fed' = <<>> /\ st'.trunc = 0 /\ ~intrunc' /\ ~Closed'
  BY DEF Settles
<1>2. <<>> \in Seq(Bytes) /\ Len(<<>>) = 0 /\ 1 .. 0 = {}
  OBVIOUS
<1>3. \A w, u : Marks(<<>>, {}, 0, w) /\ AllLong(<<>>, {}, w, u)
  BY <1>2, FS_EmptySet DEF Marks, AllLong
<1>4. Joined(<<>>, <<>>, <<>>) /\ NoNL(<<>>) /\ Clean(<<>>)
  BY <1>2, JoinEmpty DEF NoNL, Clean
<1>5. TruncOK(<<>>, {})'
  BY <1>1, <1>2, <1>3, <1>4, LinesEmpty DEF TruncOK
<1> QED BY <1>5

LEMMA QuietTrunc == IInv /\ cmd' = cmd /\ TruncInv /\ (Quiet \/ \E x : Takes(x)) => TruncInv'
<1> SUFFICES ASSUME IInv, cmd' = cmd, TruncInv, Quiet \/ \E x : Takes(x), Has("BLOCK")', (Going \/ Closed)'
             PROVE  \E c, T : TruncOK(c, T)'
  BY DEF TruncInv
<1>1. Has("BLOCK") /\ (\A c : Has(c)' = Has(c)) /\ Records
  BY SameLine DEF Records
<1>2. Going => ~Closed
  BY DEF Going
<1>3. CASE Quiet
  <2>1. /\ Going' => Going
        /\ Closed' => Closed
    BY <1>3 DEF Quiet
  <2>2. PICK c, T : TruncOK(c, T)
    BY <1>1, <2>1 DEF TruncInv
  <2>3. fed' = fed /\ inbuf' = inbuf /\ intrunc' = intrunc /\ st'.trunc = st.trunc
    BY <1>3 DEF Quiet
  <2>4. UnfinishedRecord' = UnfinishedRecord
    BY <1>1, <2>3 DEF UnfinishedRecord
  <2>5. (Closed /\ UnfinishedRecord)' = (Closed /\ UnfinishedRecord)
    BY <1>2, <2>1, <2>4 DEF Going
  <2>6. pc' \in {"loop", "fill", "close"} => IF intrunc THEN inbuf = <<>> ELSE NoNL(inbuf)
    <3>1. CASE pc \in {"loop", "fill", "close"}
      BY <2>2, <3>1 DEF TruncOK
    <3>2. CASE BlockShort
      <4>1. ~intrunc /\ ~Contains(inbuf, NL)
        BY <3>2 DEF BlockShort
      <4> QED BY <4>1 DEF NoNL, Contains
    <3>3. ~UnblockShort
      BY <1>1, Facts DEF UnblockShort
    <3> QED BY <1>1, <1>3, <3>1, <3>2, <3>3 DEF Quiet
  <2>7. TruncOK(c, T)'
    BY <2>1, <2>2, <2>3, <2>5, <2>6 DEF TruncOK
  <2> QED BY <2>7
<1>4. ASSUME NEW x, Takes(x) PROVE \E c, T : TruncOK(c, T)'
  <2>1. /\ x \in Seq(Bytes) /\ Joined(fed, x, fed') /\ Joined(inbuf, x, inbuf')
        /\ intrunc' = intrunc /\ st'.trunc = st.trunc /\ pc \in {"loop", "fill"} /\ pc' = "conv"
    BY <1>1, <1>4 DEF Takes
  <2>2. Going /\ Going' /\ ~Closed /\ ~Closed'
    BY <2>1 DEF Going, Closed, Succeeded
  <2>3. PICK c, T : TruncOK(c, T)
    BY <1>1, <2>2 DEF TruncInv
  <2>4. Joined(c, inbuf', fed')
    <3>1. c \in Seq(Bytes) /\ Joined(c, inbuf, fed)
      BY <2>3 DEF TruncOK
    <3>2. inbuf \in Seq(Bytes)
      BY DEF IInv, TypeOK
    <3> QED BY <2>1, <3>1, <3>2, JoinAssoc, Zenon
  <2>5. TruncOK(c, T)'
    BY <2>1, <2>2, <2>3, <2>4 DEF TruncOK
  <2> QED BY <2>5
<1> QED BY <1>3, <1>4

LEMMA TossTrunc == IInv /\ TruncInv /\ BlockToss => TruncInv'
<1> SUFFICES ASSUME IInv, TruncInv, BlockToss PROVE \E c, T : TruncOK(c, T)'
  BY DEF TruncInv
<1>1. /\ pc = "conv" /\ Has("BLOCK") /\ intrunc /\ inbuf' = Drop(inbuf, NewlineIn(inbuf))
      /\ IF Contains(inbuf, NL) THEN intrunc' = FALSE /\ pc' = pc ELSE pc' = "loop" /\ intrunc' = intrunc
      /\ UNCHANGED <<cmd, st, fed>>
  BY DEF BlockToss
<1>2. Going /\ ~Closed /\ ~Closed' /\ pc' \in {"loop", "conv"}
  BY <1>1 DEF Going, Closed, Succeeded
<1>3. PICK c, T : TruncOK(c, T)
  BY <1>1, <1>2 DEF TruncInv
<1>4. PICK d, k, w : d = Lines(c) /\ k = st.trunc /\ w = cmd.cbs
  OBVIOUS
<1>5. /\ c \in Seq(Bytes) /\ Joined(c, inbuf, fed) /\ ~Clean(c) /\ Len(d) \in T
      /\ Marks(d, T, k, w) /\ AllLong(d, T, w, FALSE)
  BY <1>1, <1>2, <1>3, <1>4 DEF TruncOK
<1>6. d \in Seq(Seq(Bytes)) /\ inbuf \in Seq(Bytes) /\ fed \in Seq(Bytes) /\ k \in Nat /\ w \in Nat
  BY <1>4, <1>5, LinesType, LineNumbers, StatNumbers DEF IInv, TypeOK
<1>7. ASSUME NEW y \in Seq(Bytes), NEW e, e = Longer(d, y)
      PROVE  Marks(e, T, k, w) /\ AllLong(e, T, w, FALSE) /\ Len(e) \in T
  BY <1>5, <1>6, <1>7, MarkLonger
<1>8. CASE Contains(inbuf, NL)
  <2>1. PICK y, x, r : FirstLine(inbuf, y, x, r)
    BY <1>6, <1>8, CutLine
  <2>2. /\ y \in Seq(Bytes) /\ x \in Seq(Bytes) /\ r \in Seq(Bytes) /\ NoNL(y) /\ x = Append(y, NL)
        /\ Joined(x, r, inbuf) /\ inbuf' = r
    BY <1>1, <2>1 DEF FirstLine
  <2>3. PICK e : Joined(c, x, e)
    BY DEF Joined
  <2>4. e \in Seq(Bytes) /\ Joined(e, r, fed)
    <3>1. PICK i, f : i = inbuf /\ f = fed
      OBVIOUS
    <3>2. c \in Seq(Bytes) /\ Joined(c, i, f) /\ Joined(x, r, i)
      BY <1>5, <2>2, <3>1
    <3>3. e \in Seq(Bytes) /\ Joined(e, r, f)
      BY <2>2, <2>3, <3>2, JoinMove, Zenon
    <3> QED BY <3>1, <3>3
  <2>5. Lines(e) = Longer(d, y) /\ Clean(e)
    <3>1. e = c \o Append(y, NL)
      BY <2>2, <2>3 DEF Joined
    <3>2. Lines(e) = AddPart(Lines(c), Clean(c), y) /\ Clean(e)
      BY <1>5, <2>2, <3>1, LinesOfLine
    <3> QED BY <1>4, <1>5, <3>2 DEF AddPart
  <2>6. TruncOK(e, T)'
    BY <1>1, <1>2, <1>4, <1>7, <1>8, <2>2, <2>4, <2>5 DEF TruncOK
  <2> QED BY <2>6
<1>9. CASE ~Contains(inbuf, NL)
  <2>1. NoNL(inbuf) /\ inbuf' = <<>>
    BY <1>1, <1>6, <1>9, NoNewline
  <2>2. Joined(fed, <<>>, fed)
    BY <1>6, JoinEmpty
  <2>3. ~Clean(fed) /\ Marks(Lines(fed), T, k, w) /\ AllLong(Lines(fed), T, w, FALSE) /\ Len(Lines(fed)) \in T
    <3>1. CASE inbuf = <<>>
      <4>1. fed = c
        BY <1>5, <3>1, JoinEmpty
      <4> QED BY <1>4, <1>5, <4>1
    <3>2. CASE inbuf # <<>>
      <4>1. fed = c \o inbuf
        BY <1>5 DEF Joined
      <4>2. Lines(fed) = AddPart(Lines(c), Clean(c), inbuf) /\ ~Clean(fed)
        BY <1>5, <1>6, <2>1, <3>2, <4>1, LinesOfPart
      <4> QED BY <1>4, <1>5, <1>6, <1>7, <4>2 DEF AddPart
    <3> QED BY <3>1, <3>2
  <2>4. TruncOK(fed, T)'
    BY <1>1, <1>2, <1>4, <1>6, <1>9, <2>1, <2>2, <2>3 DEF TruncOK
  <2> QED BY <2>4
<1> QED BY <1>8, <1>9

LEMMA RecordTrunc == IInv /\ TruncInv /\ BlockRecord => TruncInv'
<1> SUFFICES ASSUME IInv, TruncInv, BlockRecord PROVE \E c, T : TruncOK(c, T)'
  BY DEF TruncInv
<1>1. PICK len, j, full :
        /\ j = NewlineIn(inbuf) /\ len = Smaller(j - 1, cmd.cbs) /\ full = (len = cmd.cbs)
        /\ pc = "conv" /\ Has("BLOCK") /\ ~intrunc /\ (Len(inbuf) >= cmd.cbs \/ Contains(inbuf, NL))
        /\ inbuf' = Drop(inbuf, j) /\ intrunc' = (full /\ ~Contains(inbuf, NL))
        /\ st' = [st EXCEPT !.trunc = IF full /\ (intrunc' \/ j > len + 1) THEN @ + 1 ELSE @]
        /\ UNCHANGED <<cmd, fed>> /\ (pc' = "conv" \/ (pc' = "out" /\ back' = "conv"))
  BY DEF BlockRecord, Emit, StartOut
<1>2. Going /\ ~Closed /\ ~Closed'
  BY <1>1 DEF Going, Closed, Succeeded
<1>3. PICK c, T : TruncOK(c, T)
  BY <1>1, <1>2 DEF TruncInv
<1>4. PICK d, k, w : d = Lines(c) /\ k = st.trunc /\ w = cmd.cbs
  OBVIOUS
<1>5. /\ c \in Seq(Bytes) /\ Joined(c, inbuf, fed) /\ Clean(c)
      /\ Marks(d, T, k, w) /\ AllLong(d, T, w, FALSE)
  BY <1>1, <1>2, <1>3, <1>4 DEF TruncOK
<1>6. d \in Seq(Seq(Bytes)) /\ inbuf \in Seq(Bytes) /\ fed \in Seq(Bytes) /\ k \in Nat /\ w \in Nat
  BY <1>4, <1>5, LinesType, LineNumbers, StatNumbers DEF IInv, TypeOK
<1>7. w > 0
  BY <1>1, <1>4, <1>6, Facts DEF Records
<1>8. st'.trunc = IF full /\ (intrunc' \/ j > len + 1) THEN k + 1 ELSE k
  <2>1. st \in [DOMAIN NoStats -> Nat]
    BY DEF IInv, TypeOK
  <2> QED BY <1>1, <1>4, <2>1 DEF NoStats
<1>9. CASE Contains(inbuf, NL)
  <2>1. PICK y, x, r : FirstLine(inbuf, y, x, r)
    BY <1>6, <1>9, CutLine
  <2>2. /\ y \in Seq(Bytes) /\ x \in Seq(Bytes) /\ r \in Seq(Bytes) /\ NoNL(y) /\ x = Append(y, NL)
        /\ Joined(x, r, inbuf) /\ inbuf' = r /\ j = Len(y) + 1
    BY <1>1, <2>1 DEF FirstLine
  <2>3. PICK e : Joined(c, x, e)
    BY DEF Joined
  <2>4. e \in Seq(Bytes) /\ Joined(e, r, fed)
    <3>1. PICK i, f : i = inbuf /\ f = fed
      OBVIOUS
    <3>2. c \in Seq(Bytes) /\ Joined(c, i, f) /\ Joined(x, r, i)
      BY <1>5, <2>2, <3>1
    <3>3. e \in Seq(Bytes) /\ Joined(e, r, f)
      BY <2>2, <2>3, <3>2, JoinMove, Zenon
    <3> QED BY <3>1, <3>3
  <2>5. Lines(e) = Append(d, y) /\ Clean(e)
    <3>1. e = c \o Append(y, NL)
      BY <2>2, <2>3 DEF Joined
    <3>2. Lines(e) = AddPart(Lines(c), Clean(c), y) /\ Clean(e)
      BY <1>5, <2>2, <3>1, LinesOfLine
    <3> QED BY <1>4, <1>5, <3>2 DEF AddPart
  <2>6. st'.trunc = (IF Len(y) > w THEN k + 1 ELSE k) /\ intrunc' = FALSE
    <3>1. PICK l : l = Len(y) /\ l \in Nat
      BY <2>2
    <3>2. intrunc' = FALSE
      BY <1>1, <1>9
    <3>3. j - 1 = l /\ j = l + 1
      BY <2>2, <3>1
    <3>4. len = IF l < w THEN l ELSE w
      BY <1>1, <1>4, <3>3 DEF Smaller
    <3>5. full /\ j > len + 1 <=> l > w
      <4>1. full <=> len = w
        BY <1>1, <1>4
      <4>2. CASE l < w
        BY <1>6, <3>1, <3>4, <4>1, <4>2
      <4>3. CASE ~(l < w)
        <5>1. len = w /\ full
          BY <3>4, <4>1, <4>3
        <5>2. j > w + 1 <=> l > w
          BY <1>6, <3>1, <3>3
        <5> QED BY <5>1, <5>2
      <4> QED BY <4>2, <4>3
    <3> QED BY <1>8, <3>1, <3>2, <3>5
  <2>7. PICK U : U = T \cup {Len(Lines(e))}
    OBVIOUS
  <2>8. /\ Len(y) <= w => Marks(Lines(e), T, k, w) /\ AllLong(Lines(e), T, w, FALSE)
        /\ Marks(Lines(e), U, k + 1, w)
        /\ Len(y) >= w => AllLong(Lines(e), U, w, FALSE)
    <3>1. PICK g : g = Lines(e)
      OBVIOUS
    <3>2. MarkedMore(d, y, w, T, k, g, U)
      BY <1>5, <1>6, <2>2, <2>5, <2>7, <3>1, MarkAppend, Zenon
    <3> QED BY <3>1, <3>2 DEF MarkedMore
  <2>9. CASE Len(y) > w
    <3>0. Len(y) >= w
      BY <1>6, <2>2, <2>9
    <3>1. TruncOK(e, U)'
      BY <3>0, <1>1, <1>2, <1>4, <1>6, <2>2, <2>4, <2>5, <2>6, <2>8, <2>9 DEF TruncOK
    <3> QED BY <3>1
  <2>10. CASE ~(Len(y) > w)
    <3>0. Len(y) <= w
      BY <1>6, <2>2, <2>10
    <3>1. TruncOK(e, T)'
      BY <1>1, <1>2, <1>4, <1>6, <2>2, <2>4, <2>5, <2>6, <2>8, <2>10, <3>0 DEF TruncOK
    <3> QED BY <3>1
  <2> QED BY <2>9, <2>10
<1>10. CASE ~Contains(inbuf, NL)
  <2>1. NoNL(inbuf) /\ inbuf' = <<>> /\ j = Len(inbuf) + 1 /\ Len(inbuf) >= w /\ Len(inbuf) \in Nat
    BY <1>1, <1>4, <1>6, <1>10, NoNewline
  <2>2. inbuf # <<>> /\ full
    <3>1. j - 1 = Len(inbuf)
      BY <2>1
    <3>2. len = w
      BY <1>1, <1>4, <1>6, <2>1, <3>1 DEF Smaller
    <3>3. full
      BY <1>1, <1>4, <3>2
    <3>4. inbuf # <<>>
      BY <1>6, <1>7, <2>1
    <3> QED BY <3>3, <3>4
  <2>3. Joined(fed, <<>>, fed)
    BY <1>6, JoinEmpty
  <2>4. Lines(fed) = Append(d, inbuf) /\ ~Clean(fed)
    <3>1. fed = c \o inbuf
      BY <1>5 DEF Joined
    <3>2. Lines(fed) = AddPart(Lines(c), Clean(c), inbuf) /\ ~Clean(fed)
      BY <1>5, <1>6, <2>1, <2>2, <3>1, LinesOfPart
    <3> QED BY <1>4, <1>5, <3>2 DEF AddPart
  <2>5. PICK U, g : U = T \cup {Len(g)} /\ g = Lines(fed)
    OBVIOUS
  <2>6. Marks(g, U, k + 1, w) /\ AllLong(g, U, w, FALSE) /\ Len(g) \in U
    <3>1. MarkedMore(d, inbuf, w, T, k, g, U)
      BY <1>5, <1>6, <2>4, <2>5, MarkAppend, Zenon
    <3> QED BY <2>1, <3>1 DEF MarkedMore
  <2>7. st'.trunc = k + 1 /\ intrunc' = TRUE
    BY <1>1, <1>8, <1>10, <2>2
  <2>8. TruncOK(fed, U)'
    BY <1>1, <1>2, <1>4, <1>6, <2>1, <2>3, <2>4, <2>5, <2>6, <2>7 DEF TruncOK
  <2> QED BY <2>8
<1> QED BY <1>9, <1>10

LEMMA CloseTrunc == IInv /\ TruncInv /\ Close => TruncInv'
<1> SUFFICES ASSUME IInv, TruncInv, Close, Has("BLOCK")' PROVE \E c, T : TruncOK(c, T)'
  BY DEF TruncInv
<1>0. cmd' = cmd /\ Has("BLOCK")
  <2>1. cmd' = cmd
    BY DEF Close
  <2> QED BY <2>1, SameLine
<1>1. /\ pc = "close" /\ inbuf' = <<>>
      /\ st' = [st EXCEPT !.trunc = IF Has("BLOCK") /\ inbuf # <<>> THEN @ + 1 ELSE @]
      /\ UNCHANGED <<cmd, fed, intrunc>> /\ (pc' = "end" \/ (pc' = "out" /\ back' = "end"))
  BY DEF Close, StartOut
<1>2. Going /\ ~Closed /\ Closed' /\ ~Going'
  BY <1>0, <1>1 DEF Going, Closed, Succeeded
<1>3. PICK c, T : TruncOK(c, T)
  BY <1>0, <1>2 DEF TruncInv
<1>4. PICK d, k, w : d = Lines(c) /\ k = st.trunc /\ w = cmd.cbs
  OBVIOUS
<1>5. /\ c \in Seq(Bytes) /\ Joined(c, inbuf, fed) /\ (intrunc <=> ~Clean(c))
      /\ Marks(d, T, k, w) /\ AllLong(d, T, w, FALSE)
      /\ IF intrunc THEN inbuf = <<>> ELSE NoNL(inbuf)
  BY <1>1, <1>2, <1>3, <1>4 DEF TruncOK
<1>6. d \in Seq(Seq(Bytes)) /\ inbuf \in Seq(Bytes) /\ fed \in Seq(Bytes) /\ k \in Nat /\ w \in Nat
  BY <1>4, <1>5, LinesType, LineNumbers, StatNumbers DEF IInv, TypeOK
<1>7. st'.trunc = IF inbuf # <<>> THEN k + 1 ELSE k
  <2>1. st \in [DOMAIN NoStats -> Nat]
    BY DEF IInv, TypeOK
  <2> QED BY <1>0, <1>1, <1>4, <2>1 DEF NoStats
<1>8. Joined(fed, <<>>, fed)
  BY <1>6, JoinEmpty
<1>9. CASE inbuf = <<>>
  <2>1. fed = c
    BY <1>5, <1>9, JoinEmpty
  <2>2. AllLong(d, T, w, UnfinishedRecord')
    BY <1>5 DEF AllLong
  <2>3. TruncOK(fed, T)'
    BY <1>1, <1>2, <1>4, <1>5, <1>6, <1>7, <1>8, <1>9, <2>1, <2>2 DEF TruncOK
  <2> QED BY <2>3
<1>10. CASE inbuf # <<>>
  <2>1. NoNL(inbuf) /\ Clean(c)
    BY <1>5, <1>10
  <2>2. Lines(fed) = Append(d, inbuf) /\ ~Clean(fed)
    <3>1. fed = c \o inbuf
      BY <1>5 DEF Joined
    <3>2. Lines(fed) = AddPart(Lines(c), Clean(c), inbuf) /\ ~Clean(fed)
      BY <1>5, <1>6, <1>10, <2>1, <3>1, LinesOfPart
    <3> QED BY <1>4, <2>1, <3>2 DEF AddPart
  <2>3. PICK U, g : U = T \cup {Len(g)} /\ g = Lines(fed)
    OBVIOUS
  <2>4. Marks(g, U, k + 1, w) /\ AllLong(g, U, w, TRUE) /\ Len(g) = Len(d) + 1 /\ Len(d) \in Nat
    <3>1. MarkedMore(d, inbuf, w, T, k, g, U)
      BY <1>5, <1>6, <2>2, <2>3, MarkAppend, Zenon
    <3>2. Len(d) \in Nat
      BY <1>6, LenProperties, Zenon
    <3> QED BY <3>1, <3>2 DEF MarkedMore
  <2>5. UnfinishedRecord'
    <3>1. fed # <<>> /\ fed[Len(fed)] # NL
      BY <2>2 DEF Clean
    <3>2. g[Len(g)] = inbuf
      BY <1>6, <2>2, <2>3, <2>4
    <3>3. Len(inbuf) < cmd.cbs
      BY <1>0, <1>1 DEF IInv, InInv, Records
    <3>4. Has("BLOCK")'
      BY <1>1, SameLine
    <3> QED BY <1>1, <2>3, <3>1, <3>2, <3>3, <3>4 DEF UnfinishedRecord
  <2>6. TruncOK(fed, U)'
    BY <1>1, <1>2, <1>4, <1>6, <1>7, <1>8, <1>10, <2>3, <2>4, <2>5 DEF TruncOK
  <2> QED BY <2>6
<1> QED BY <1>9, <1>10

LEMMA NextTrunc ==
  IInv /\ CountInv /\ KeptInv /\ WrittenInv /\ TruncInv /\ [Next]_vars => TruncInv'
<1> SUFFICES ASSUME IInv, CountInv, KeptInv, WrittenInv, TruncInv, [Next]_vars PROVE TruncInv'
  OBVIOUS
<1>1. /\ cmd' = cmd
      /\ \/ Settles \/ Quiet \/ (\E x : Takes(x))
         \/ ConvertNone \/ Def \/ BlockToss \/ BlockRecord \/ UnblockRecord \/ Close
  BY Kinds
<1>2. ASSUME ConvertNone \/ Def \/ UnblockRecord PROVE TruncInv'
  <2>1. ~Has("BLOCK")
    BY <1>2, Facts DEF ConvertNone, Def, UnblockRecord, Records
  <2> QED BY <1>1, <2>1, SameLine DEF TruncInv
<1> QED BY <1>1, <1>2, SettlesTrunc, QuietTrunc, TossTrunc, RecordTrunc, CloseTrunc

\* TypeOK, the counts, what is written and the truncated lines, at every step.
THEOREM TruncInvariance == Spec => [](IInv /\ CountInv /\ KeptInv /\ WrittenInv /\ TruncInv)
<1>1. Init => IInv /\ CountInv /\ KeptInv /\ WrittenInv /\ TruncInv
  BY InitInv, InitCount, InitKept, InitWritten, InitTrunc
<1>2. IInv /\ CountInv /\ KeptInv /\ WrittenInv /\ TruncInv /\ [Next]_vars
        => (IInv /\ CountInv /\ KeptInv /\ WrittenInv /\ TruncInv)'
  BY NextInv, NextCount, NextKept, NextWritten, NextTrunc
<1> QED BY <1>1, <1>2, PTL DEF Spec

\* Members of D of two kinds, and one more.
LEMMA Between ==
  ASSUME NEW D, IsFiniteSet(D), NEW T \in SUBSET D, NEW L \in SUBSET T, NEW E \in SUBSET D,
         NEW F, NEW b \in {0, 1}, IsFiniteSet(F), Cardinality(F) <= b, T \subseteq (L \cup E) \cup F
  PROVE  Cardinality(T) \in Cardinality(L) .. Cardinality(L) + (Cardinality(E) + b)
<1>1. IsFiniteSet(T) /\ IsFiniteSet(L) /\ IsFiniteSet(E)
  BY FS_Subset
<1>2. PICK M : M = L \cup E
  OBVIOUS
<1>3. PICK N : N = M \cup F
  OBVIOUS
<1>4. /\ Cardinality(T) \in Nat /\ Cardinality(L) \in Nat /\ Cardinality(E) \in Nat
      /\ Cardinality(F) \in Nat
  BY <1>1, FS_CardinalityType
<1>5. IsFiniteSet(M) /\ Cardinality(M) \in Nat /\ Cardinality(M) <= Cardinality(L) + Cardinality(E)
  <2>1. PICK X : X = L \cap E
    OBVIOUS
  <2>2. IsFiniteSet(X)
    BY <1>1, <2>1, FS_Subset
  <2>3. Cardinality(X) \in Nat
    BY <2>2, FS_CardinalityType
  <2>4. IsFiniteSet(M) /\ Cardinality(M) = Cardinality(L) + Cardinality(E) - Cardinality(X)
    BY <1>1, <1>2, <2>1, FS_Union
  <2>5. Cardinality(M) \in Nat
    BY <2>4, FS_CardinalityType
  <2> QED BY <1>4, <2>3, <2>4, <2>5
<1>6. IsFiniteSet(N) /\ Cardinality(N) \in Nat /\ Cardinality(N) <= Cardinality(M) + Cardinality(F)
  <2>1. PICK X : X = M \cap F
    OBVIOUS
  <2>2. IsFiniteSet(X)
    BY <1>5, <2>1, FS_Subset
  <2>3. Cardinality(X) \in Nat
    BY <2>2, FS_CardinalityType
  <2>4. IsFiniteSet(N) /\ Cardinality(N) = Cardinality(M) + Cardinality(F) - Cardinality(X)
    BY <1>3, <1>5, <2>1, FS_Union
  <2>5. Cardinality(N) \in Nat
    BY <2>4, FS_CardinalityType
  <2> QED BY <1>4, <1>5, <2>3, <2>4, <2>5
<1>7. Cardinality(L) <= Cardinality(T)
  BY <1>1, FS_Subset
<1>8. Cardinality(T) <= Cardinality(N)
  <2>1. T \subseteq N
    BY <1>2, <1>3
  <2> QED BY <1>6, <2>1, FS_Subset
<1> QED BY <1>4, <1>5, <1>6, <1>7, <1>8

LEMMA TruncsRight == IInv /\ CountInv /\ TruncInv => TruncationsCounted
<1> SUFFICES ASSUME IInv, CountInv, TruncInv, Succeeded, Has("BLOCK") PROVE TruncationsCounted
  BY DEF TruncationsCounted
<1>1. Closed /\ inbuf = <<>>
  BY DEF Closed, CountInv, Emptied
<1>2. PICK c, T : TruncOK(c, T)
  BY <1>1 DEF TruncInv
<1>3. c = fed
  BY <1>1, <1>2, JoinEmpty DEF TruncOK
<1>4. PICK d, k, w : d = Lines(fed) /\ k = st.trunc /\ w = cmd.cbs
  OBVIOUS
<1>5. Marks(d, T, k, w) /\ AllLong(d, T, w, UnfinishedRecord) /\ fed \in Seq(Bytes)
  BY <1>1, <1>2, <1>3, <1>4 DEF TruncOK, AllLong
<1>6. d \in Seq(Seq(Bytes)) /\ w \in Nat
  BY <1>4, <1>5, LinesType, LineNumbers
<1>7. Len(d) \in Nat /\ DOMAIN d = 1 .. Len(d) /\ (\A j \in 1 .. Len(d) : d[j] \in Seq(Bytes))
  BY <1>6, LenProperties, ElementOfSeq, Zenon
<1> DEFINE D == DOMAIN d
           L == {j \in D : Len(d[j]) > w}
           E == {j \in D : Len(d[j]) = w}
           F == IF UnfinishedRecord THEN {Len(d)} ELSE {}
           b == IF UnfinishedRecord THEN 1 ELSE 0
<1>8. IsFiniteSet(D)
  BY <1>7, FS_Interval
<1>9. T \in SUBSET D /\ L \in SUBSET T /\ E \in SUBSET D /\ T \subseteq (L \cup E) \cup F
  <2>1. T \in SUBSET D /\ L \in SUBSET T
    BY <1>5, <1>7 DEF Marks
  <2>2. ASSUME NEW j \in T PROVE j \in (L \cup E) \cup F
    <3>1. j \in D /\ Len(d[j]) \in Nat
      BY <1>7, <2>1
    <3>2. Len(d[j]) >= w \/ (UnfinishedRecord /\ j = Len(d))
      BY <1>5 DEF AllLong
    <3> QED BY <1>6, <3>1, <3>2
  <2> QED BY <2>1, <2>2
<1>10. IsFiniteSet(F) /\ Cardinality(F) <= b /\ b \in {0, 1}
  <2>1. IsFiniteSet({}) /\ Cardinality({}) = 0
    BY FS_EmptySet
  <2>2. PICK l : l = Len(d)
    OBVIOUS
  <2>3. IsFiniteSet({l}) /\ Cardinality({l}) = 1
    BY FS_Singleton
  <2> QED BY <2>1, <2>2, <2>3
<1>11. Cardinality(T) \in Cardinality(L) .. Cardinality(L) + (Cardinality(E) + b)
  <2> HIDE DEF D, L, E, F, b
  <2> QED BY <1>8, <1>9, <1>10, Between
<1>12. Cardinality(T) = k
  BY <1>5 DEF Marks
<1> QED BY <1>4, <1>11, <1>12 DEF TruncationsCounted

\* The summary tells the truth: the bytes and blocks it counts are those that were read and
\* written; every record longer than cbs= is counted as truncated, and beyond those at most
\* records of exactly cbs= bytes and an unfinished one at the end (summary(), block(),
\* block_close()).
THEOREM SummaryIsTrue == Spec => []SummaryTrue
<1>1. IInv /\ CountInv /\ TruncInv => TruncationsCounted
  BY TruncsRight
<1> QED BY <1>1, TruncInvariance, HonestStatistics, PTL DEF SummaryTrue

----------------------------------------------------------------------------
(***************************************************************************)
(* conv=block: the records that lines are made of.                         *)
(***************************************************************************)

Translated(s, t) ==
  /\ t \in Seq(Bytes) /\ Len(t) = Len(s)
  /\ \A i \in 1 .. Len(s) : t[i] = Upper(s[i])

LEMMA TranslateFacts ==
  ASSUME NEW s \in Seq(Bytes), NEW t, t = Translate(s)
  PROVE  Translated(s, t)
<1>1. t \in Seq(Bytes) /\ Len(t) = Len(s)
  BY TranslateLen
<1>2. DOMAIN s = 1 .. Len(s)
  OBVIOUS
<1>3. \A i \in 1 .. Len(s) : t[i] = Upper(s[i])
  BY <1>2 DEF Translate
<1> QED BY <1>1, <1>3 DEF Translated

LEMMA TranslateJoined ==
  ASSUME NEW x \in Seq(Bytes), NEW y \in Seq(Bytes), NEW z, Joined(x, y, z)
  PROVE  Joined(Translate(x), Translate(y), Translate(z))
<1>1. PICK a, b, c : a = Translate(x) /\ b = Translate(y) /\ c = Translate(z)
  OBVIOUS
<1>2. /\ z \in Seq(Bytes) /\ Len(z) = Len(x) + Len(y) /\ Len(x) \in Nat /\ Len(y) \in Nat
      /\ \A k \in 1 .. Len(x) : z[k] = x[k]
      /\ \A k \in 1 .. Len(y) : z[Len(x) + k] = y[k]
  <2>1. JoinFacts(x, y, z)
    BY JoinedFacts, Zenon
  <2> QED BY <2>1 DEF JoinFacts
<1>3. Translated(x, a) /\ Translated(y, b) /\ Translated(z, c)
  BY <1>1, <1>2, TranslateFacts
<1>4. /\ a \in Seq(Bytes) /\ b \in Seq(Bytes) /\ c \in Seq(Bytes)
      /\ Len(a) = Len(x) /\ Len(b) = Len(y) /\ Len(c) = Len(x) + Len(y)
  BY <1>2, <1>3 DEF Translated
<1>5. \A k \in 1 .. Len(a) : c[k] = a[k]
  <2> SUFFICES ASSUME NEW k \in 1 .. Len(x) PROVE c[k] = a[k]
    BY <1>4
  <2>1. k \in 1 .. Len(z)
    BY <1>2
  <2> QED BY <1>2, <1>3, <2>1 DEF Translated
<1>6. \A k \in 1 .. Len(b) : c[Len(a) + k] = b[k]
  <2> SUFFICES ASSUME NEW k \in 1 .. Len(y) PROVE c[Len(x) + k] = b[k]
    BY <1>4
  <2>1. PICK m : m = Len(x) + k
    OBVIOUS
  <2>2. m \in 1 .. Len(z) /\ z[m] = y[k]
    BY <1>2, <2>1
  <2> QED BY <1>3, <2>1, <2>2 DEF Translated
<1>7. Joined(a, b, c)
  BY <1>4, <1>5, <1>6, JoinedIs
<1> QED BY <1>1, <1>7

\* A conversion without a map.
LEMMA TranslateSame ==
  ASSUME ~Has("UCASE"), NEW s \in Seq(Bytes)
  PROVE  Translate(s) = s
<1>1. \A b : Upper(b) = b
  BY DEF Upper
<1>2. s = [i \in DOMAIN s |-> s[i]]
  OBVIOUS
<1> QED BY <1>1, <1>2 DEF Translate

\* Sequences one after the other.
LEMMA FlattenConcat ==
  ASSUME NEW L, NEW p \in Seq(Seq(L)), NEW q \in Seq(Seq(L))
  PROVE  FlattenSeq(p) \in Seq(L) /\ FlattenSeq(q) \in Seq(L)
         /\ FlattenSeq(p \o q) = FlattenSeq(p) \o FlattenSeq(q)
<1> DEFINE E == Seq(L)
           Fine(s) == FlattenSeq(p \o s) = FlattenSeq(p) \o FlattenSeq(s)
           Q == {s \in Seq(E) : Fine(s)}
<1>1. \A s \in Seq(E) : FlattenSeq(s) \in Seq(L)
  <2>1. <<>> \in Seq(L)
    OBVIOUS
  <2> QED BY <2>1, FlattenSnoc
<1>2. <<>> \in Q
  <2>1. p \o <<>> = p /\ FlattenSeq(p) \o <<>> = FlattenSeq(p)
    <3>1. FlattenSeq(p) \in Seq(L)
      BY <1>1
    <3> QED BY <3>1, ConcatEmptySeq, Zenon
  <2>2. <<>> \in Seq(E)
    OBVIOUS
  <2> QED BY <2>1, <2>2, FlattenEmpty
<1>3. ASSUME NEW s \in Seq(E), NEW b \in E, s \in Q PROVE Append(s, b) \in Q
  <2>1. PICK t, u, v : t = Append(s, b) /\ u = p \o s /\ v = p \o t
    OBVIOUS
  <2>2. t \in Seq(E) /\ u \in Seq(E) /\ v = Append(u, b)
    <3>1. PICK F : F = E
      OBVIOUS
    <3>2. p \in Seq(F) /\ s \in Seq(F) /\ b \in F
      BY <3>1
    <3>3. t \in Seq(F) /\ u \in Seq(F) /\ v = Append(u, b)
      BY <2>1, <3>2
    <3> QED BY <3>1, <3>3
  <2>3. PICK fp, fs, ft, fu, fv :
          /\ fp = FlattenSeq(p) /\ fs = FlattenSeq(s) /\ ft = FlattenSeq(t)
          /\ fu = FlattenSeq(u) /\ fv = FlattenSeq(v)
    OBVIOUS
  <2>4. fp \in Seq(L) /\ fs \in Seq(L) /\ fu \in Seq(L) /\ b \in Seq(L)
    BY <1>1, <2>2, <2>3
  <2>5. ft = fs \o b /\ fv = fu \o b /\ fu = fp \o fs
    <3>1. ft = fs \o b
      BY <2>1, <2>3, FlattenSnoc
    <3>2. fv = fu \o b
      BY <2>2, <2>3, FlattenSnoc
    <3>3. fu = fp \o fs
      BY <1>3, <2>1, <2>3
    <3> QED BY <3>1, <3>2, <3>3
  <2>6. fv = fp \o ft
    BY <2>4, <2>5, Assoc
  <2> QED BY <2>1, <2>2, <2>3, <2>6
<1>4. \A s \in Seq(E) : s \in Q
  <2> HIDE DEF Q
  <2> QED BY <1>2, <1>3, SnocInduction
<1> QED BY <1>1, <1>4

----------------------------------------------------------------------------
\* b is the record that block() makes of the line l.
IsBlock(l, b) ==
  /\ b \in Seq(Bytes) /\ Len(b) = cmd.cbs
  /\ \A i \in 1 .. cmd.cbs : b[i] = IF i <= Len(l) THEN l[i] ELSE PadByte

LEMMA OneBlock ==
  ASSUME NEW l, NEW b, NEW e, IsBlock(l, b), IsBlock(l, e)
  PROVE  b = e
<1>1. b \in Seq(Bytes) /\ e \in Seq(Bytes) /\ Len(b) = Len(e) /\ \A i \in 1 .. Len(b) : b[i] = e[i]
  BY DEF IsBlock
<1> QED BY <1>1, SeqEqual, Zenon

BlockOf(l) == Take(Padded(l, cmd.cbs), cmd.cbs)

LEMMA BlockOfFacts ==
  ASSUME IInv, NEW l \in Seq(Bytes)
  PROVE  IsBlock(l, BlockOf(l))
<1>1. PICK w, m, p, b : w = cmd.cbs /\ m = Len(l) /\ p = Padded(l, w) /\ b = Take(p, w)
  OBVIOUS
<1>2. w \in Nat /\ m \in Nat
  BY <1>1, LineNumbers
<1>3. CASE m <= w
  <2>1. PadResult(l, w, p)
    BY <1>1, <1>2, <1>3, PaddedFacts
  <2>2. /\ p \in Seq(Bytes) /\ Len(p) = w
        /\ \A i \in 1 .. m : p[i] = l[i]
        /\ \A i \in 1 .. w : i > m => p[i] = PadByte
    BY <1>1, <2>1 DEF PadResult
  <2>3. b \in Seq(Bytes) /\ Len(b) = w /\ \A i \in 1 .. w : b[i] = p[i]
    <3>1. w <= Len(p)
      BY <1>2, <2>2
    <3>2. PICK z : z = Drop(p, w)
      OBVIOUS
    <3>3. Split(p, w, b, z)
      BY <1>1, <1>2, <2>2, <3>1, <3>2, SplitFacts
    <3> QED BY <3>3 DEF Split
  <2>4. ASSUME NEW i \in 1 .. w PROVE b[i] = IF i <= m THEN l[i] ELSE PadByte
    <3>1. i <= m => i \in 1 .. m
      BY <1>2
    <3>2. ~(i <= m) => i > m
      BY <1>2
    <3> QED BY <2>2, <2>3, <3>1, <3>2
  <2> QED BY <1>1, <2>3, <2>4 DEF IsBlock, BlockOf
<1>4. CASE ~(m <= w)
  <2>1. p = l
    <3>1. PICK k, c, q : k = w - m /\ c = PadByte /\ q = Fill(c, k)
      OBVIOUS
    <3>2. k \in Int /\ ~(k > 0) /\ c \in Bytes
      BY <1>2, <1>4, <3>1, Facts
    <3>3. q \in Seq(Bytes) /\ Len(q) = 0
      BY <3>1, <3>2, FillLen
    <3>4. q = <<>> /\ l \o <<>> = l
      BY <3>3, ConcatEmptySeq
    <3> QED BY <1>1, <3>1, <3>4 DEF Padded
  <2>2. b \in Seq(Bytes) /\ Len(b) = w /\ \A i \in 1 .. w : b[i] = p[i]
    <3>1. w <= Len(l)
      BY <1>1, <1>2, <1>4
    <3>2. PICK z : z = Drop(p, w)
      OBVIOUS
    <3>3. Split(l, w, b, z)
      BY <1>1, <1>2, <2>1, <3>1, <3>2, SplitFacts
    <3> QED BY <2>1, <3>3 DEF Split
  <2>3. \A i \in 1 .. w : i <= m
    BY <1>2, <1>4
  <2> QED BY <1>1, <2>1, <2>2, <2>3 DEF IsBlock, BlockOf
<1> QED BY <1>3, <1>4

\* Of a line that fills its record the rest is tossed.
LEMMA BlockOfLonger ==
  ASSUME IInv, NEW l \in Seq(Bytes), NEW y \in Seq(Bytes), Len(l) >= cmd.cbs
  PROVE  BlockOf(l \o y) = BlockOf(l)
<1>1. PICK w, m, g, b, e : /\ w = cmd.cbs /\ m = Len(l) /\ g = l \o y
                           /\ b = BlockOf(l) /\ e = BlockOf(g)
  OBVIOUS
<1>2. /\ g \in Seq(Bytes) /\ Len(g) = m + Len(y) /\ m \in Nat /\ Len(y) \in Nat
      /\ \A k \in 1 .. m : g[k] = l[k]
  <2>1. Joined(l, y, g)
    BY <1>1 DEF Joined
  <2>2. JoinFacts(l, y, g)
    BY <2>1, JoinedFacts, Zenon
  <2> QED BY <1>1, <2>2 DEF JoinFacts
<1>3. IsBlock(l, b) /\ IsBlock(g, e)
  BY <1>1, <1>2, BlockOfFacts
<1>4. w \in Nat /\ w <= m
  BY <1>1, LineNumbers
<1>5. \A i \in 1 .. w : i <= m /\ i <= Len(g) /\ g[i] = l[i]
  BY <1>2, <1>4
<1>6. IsBlock(l, e)
  BY <1>1, <1>3, <1>5 DEF IsBlock
<1> QED BY <1>1, <1>3, <1>6, OneBlock

BlocksOf(d) == [k \in DOMAIN d |-> BlockOf(d[k])]

LEMMA BlockedIs == \A s : Blocked(s) = FlattenSeq(BlocksOf(Lines(s)))
  BY DEF Blocked, BlocksOf, BlockOf

AreBlocks(d, p) ==
  /\ p \in Seq(Seq(Bytes)) /\ Len(p) = Len(d) /\ Len(d) \in Nat
  /\ \A k \in 1 .. Len(d) : p[k] = BlockOf(d[k])

LEMMA BlocksFacts ==
  ASSUME IInv, NEW d \in Seq(Seq(Bytes)), NEW p, p = BlocksOf(d)
  PROVE  AreBlocks(d, p)
<1>1. Len(d) \in Nat /\ DOMAIN d = 1 .. Len(d) /\ \A k \in 1 .. Len(d) : d[k] \in Seq(Bytes)
  BY LenProperties, ElementOfSeq, Zenon
<1>2. \A k \in 1 .. Len(d) : p[k] = BlockOf(d[k])
  BY <1>1 DEF BlocksOf
<1>3. \A k \in 1 .. Len(d) : p[k] \in Seq(Bytes)
  BY <1>1, <1>2, BlockOfFacts DEF IsBlock
<1>4. ByIndex(Seq(Bytes), Len(d), p)
  <2>1. p = [k \in 1 .. Len(d) |-> p[k]]
    BY <1>1 DEF BlocksOf
  <2> QED BY <1>3, <2>1 DEF ByIndex
<1>5. p \in Seq(Seq(Bytes)) /\ Len(p) = Len(d)
  BY <1>1, <1>4, IndexedSeq, Zenon
<1> QED BY <1>1, <1>2, <1>5 DEF AreBlocks

\* Another line gives another record.
LEMMA BlocksLine ==
  ASSUME IInv, NEW d \in Seq(Seq(Bytes)), NEW y \in Seq(Bytes), NEW e, e = Append(d, y)
  PROVE  /\ FlattenSeq(BlocksOf(d)) \in Seq(Bytes)
         /\ FlattenSeq(BlocksOf(e)) = FlattenSeq(BlocksOf(d)) \o BlockOf(y)
<1>1. PICK E, sz, p, q, b : /\ E = Seq(Bytes) /\ sz = Len(d) /\ p = BlocksOf(d) /\ q = BlocksOf(e)
                           /\ b = BlockOf(y)
  OBVIOUS
<1>2. /\ e \in Seq(E) /\ sz \in Nat /\ Len(e) = sz + 1 /\ e[sz + 1] = y
      /\ \A k \in 1 .. sz : e[k] = d[k]
  BY <1>1
<1>3. /\ p \in Seq(E) /\ Len(p) = sz /\ \A k \in 1 .. sz : p[k] = BlockOf(d[k])
  <2>1. AreBlocks(d, p)
    BY <1>1, BlocksFacts, Zenon
  <2> QED BY <1>1, <2>1 DEF AreBlocks
<1>4. /\ q \in Seq(E) /\ Len(q) = sz + 1 /\ \A k \in 1 .. sz + 1 : q[k] = BlockOf(e[k])
  <2>1. e \in Seq(Seq(Bytes))
    BY <1>1, <1>2
  <2>2. AreBlocks(e, q)
    BY <1>1, <2>1, BlocksFacts, Zenon
  <2> QED BY <1>1, <1>2, <2>2 DEF AreBlocks
<1>5. b \in E
  BY <1>1, BlockOfFacts DEF IsBlock
<1>6. PICK r : r = Append(p, b)
  OBVIOUS
<1>7. r \in Seq(E) /\ Len(r) = sz + 1 /\ r[sz + 1] = b /\ \A k \in 1 .. sz : r[k] = p[k]
  BY <1>2, <1>3, <1>5, <1>6
<1>8. ASSUME NEW k \in 1 .. Len(q) PROVE q[k] = r[k]
  <2>1. CASE k = sz + 1
    BY <1>1, <1>2, <1>4, <1>7, <2>1
  <2>2. CASE k # sz + 1
    <3>1. k \in 1 .. sz /\ k \in 1 .. sz + 1
      BY <1>2, <1>4, <2>2
    <3> QED BY <1>2, <1>3, <1>4, <1>7, <3>1
  <2> QED BY <2>1, <2>2
<1>9. q = r
  <2>1. Len(q) = Len(r)
    BY <1>4, <1>7
  <2> QED BY <1>4, <1>7, <1>8, <2>1, SeqEqual, Zenon
<1>10. FlattenSeq(p) \in Seq(Bytes) /\ FlattenSeq(r) = FlattenSeq(p) \o b
  BY <1>1, <1>3, <1>5, <1>6, FlattenSnoc
<1> QED BY <1>1, <1>9, <1>10

\* More of a line that fills its record changes nothing.
LEMMA BlocksLonger ==
  ASSUME IInv, NEW d \in Seq(Seq(Bytes)), d # <<>>, Len(d[Len(d)]) >= cmd.cbs,
         NEW y \in Seq(Bytes), NEW e, e = Longer(d, y)
  PROVE  BlocksOf(e) = BlocksOf(d) /\ Len(e[Len(e)]) >= cmd.cbs
<1>1. e \in Seq(Seq(Bytes)) /\ Lengthened(d, y, e)
  BY LongerFacts, Zenon
<1>2. PICK E, sz, p, q, l, g : /\ E = Seq(Bytes) /\ sz = Len(d) /\ p = BlocksOf(d) /\ q = BlocksOf(e)
                              /\ l = d[sz] /\ g = l \o y
  OBVIOUS
<1>3. /\ Len(e) = sz /\ e[sz] = g
      /\ \A j \in 1 .. sz : j # sz => e[j] = d[j]
  BY <1>1, <1>2 DEF Lengthened
<1>4. /\ p \in Seq(E) /\ Len(p) = sz /\ (\A k \in 1 .. sz : p[k] = BlockOf(d[k])) /\ sz \in Nat
  <2>1. AreBlocks(d, p)
    BY <1>2, BlocksFacts, Zenon
  <2> QED BY <1>2, <2>1 DEF AreBlocks
<1>5. /\ q \in Seq(E) /\ Len(q) = sz /\ \A k \in 1 .. sz : q[k] = BlockOf(e[k])
  <2>1. AreBlocks(e, q)
    BY <1>1, <1>2, BlocksFacts, Zenon
  <2> QED BY <1>2, <1>3, <2>1 DEF AreBlocks
<1>6. l \in Seq(Bytes) /\ Len(l) >= cmd.cbs
  <2>1. sz \in 1 .. sz
    BY <1>2, <1>4
  <2>2. l \in Seq(Bytes)
    BY <1>2, <2>1, ElementOfSeq, Zenon
  <2> QED BY <1>2, <2>2
<1>7. BlockOf(g) = BlockOf(l)
  BY <1>2, <1>6, BlockOfLonger
<1>8. ASSUME NEW k \in 1 .. Len(p) PROVE q[k] = p[k]
  <2>1. CASE k = sz
    BY <1>2, <1>3, <1>4, <1>5, <1>7, <2>1
  <2>2. CASE k # sz
    BY <1>3, <1>4, <1>5, <2>2
  <2> QED BY <2>1, <2>2
<1>9. q = p
  <2>1. Len(q) = Len(p)
    BY <1>4, <1>5
  <2> QED BY <1>4, <1>5, <1>8, <2>1, SeqEqual, Zenon
<1>10. Len(g) >= cmd.cbs
  <2>1. Len(g) = Len(l) + Len(y) /\ Len(l) \in Nat /\ Len(y) \in Nat
    BY <1>2, <1>6
  <2>2. cmd.cbs \in Nat
    BY LineNumbers
  <2> QED BY <1>6, <2>1, <2>2
<1> QED BY <1>2, <1>3, <1>9, <1>10

\* b begins with p.
LEMMA PrefixRest ==
  ASSUME NEW E, NEW p \in Seq(E), NEW b \in Seq(E), Len(p) <= Len(b),
         \A k \in 1 .. Len(p) : b[k] = p[k]
  PROVE  \E r \in Seq(E) : b = p \o r
<1>1. PICK m, sz, d : m = Len(p) /\ sz = Len(b) /\ d = sz - m
  OBVIOUS
<1>2. m \in Nat /\ sz \in Nat /\ d \in Nat /\ sz = m + d
  BY <1>1
<1>3. PICK r : r = [i \in 1 .. d |-> b[m + i]]
  OBVIOUS
<1>4. \A i \in 1 .. d : m + i \in 1 .. sz
  BY <1>2
<1>5. r \in Seq(E) /\ Len(r) = d
  <2>1. \A i \in 1 .. d : b[m + i] \in E
    BY <1>1, <1>4
  <2>2. ByIndex(E, d, r)
    BY <1>3, <2>1 DEF ByIndex
  <2> QED BY <1>2, <2>2, IndexedSeq, Zenon
<1>6. PICK z : z = p \o r
  OBVIOUS
<1>7. /\ z \in Seq(E) /\ Len(z) = m + d
      /\ \A k \in 1 .. m : z[k] = p[k]
      /\ \A k \in 1 .. d : z[m + k] = r[k]
  BY <1>1, <1>5, <1>6, Concat
<1>8. ASSUME NEW k \in 1 .. Len(b) PROVE b[k] = z[k]
  <2>1. CASE k <= m
    <3>1. k \in 1 .. m
      BY <1>2, <2>1
    <3> QED BY <1>1, <1>7, <3>1
  <2>2. CASE ~(k <= m)
    <3>1. PICK i \in 1 .. d : k = m + i
      <4>1. k - m \in 1 .. d /\ k = m + (k - m)
        BY <1>1, <1>2, <2>2
      <4> QED BY <4>1
    <3> QED BY <1>3, <1>7, <3>1
  <2> QED BY <2>1, <2>2
<1>9. b = z
  <2>1. Len(b) = Len(z)
    BY <1>1, <1>2, <1>7
  <2> QED BY <1>7, <1>8, <2>1, SeqEqual, Zenon
<1> QED BY <1>5, <1>6, <1>9

\* The records of lines d remain when more comes behind them.
LEMMA BlocksPrefix ==
  ASSUME IInv, NEW d \in Seq(Seq(Bytes)), NEW e \in Seq(Seq(Bytes)), NEW c \in BOOLEAN,
         Extends(d, c, e), c \/ (d # <<>> /\ Len(d[Len(d)]) >= cmd.cbs)
  PROVE  \E r \in Seq(Bytes) : FlattenSeq(BlocksOf(e)) = FlattenSeq(BlocksOf(d)) \o r
<1>1. PICK E, sz, p, q : E = Seq(Bytes) /\ sz = Len(d) /\ p = BlocksOf(d) /\ q = BlocksOf(e)
  OBVIOUS
<1>2. p \in Seq(E) /\ Len(p) = sz /\ (\A k \in 1 .. sz : p[k] = BlockOf(d[k])) /\ sz \in Nat
  <2>1. AreBlocks(d, p)
    BY <1>1, BlocksFacts, Zenon
  <2> QED BY <1>1, <2>1 DEF AreBlocks
<1>3. q \in Seq(E) /\ Len(q) = Len(e) /\ (\A k \in 1 .. Len(e) : q[k] = BlockOf(e[k])) /\ Len(e) \in Nat
  <2>1. AreBlocks(e, q)
    BY <1>1, BlocksFacts, Zenon
  <2> QED BY <1>1, <2>1 DEF AreBlocks
<1>4. sz <= Len(e)
  BY <1>1 DEF Extends
<1>5. ASSUME NEW k \in 1 .. Len(p) PROVE q[k] = p[k]
  <2>1. k \in 1 .. sz /\ k \in 1 .. Len(e)
    BY <1>2, <1>3, <1>4
  <2>2. CASE c \/ k < sz
    <3>1. e[k] = d[k]
      BY <1>1, <2>1, <2>2 DEF Extends
    <3> QED BY <1>2, <1>3, <2>1, <3>1
  <2>3. CASE ~(c \/ k < sz)
    <3>1. PICK y \in Seq(Bytes) : e[k] = d[k] \o y
      BY <1>1, <2>1, <2>3 DEF Extends
    <3>2. k = sz
      BY <1>2, <2>1, <2>3
    <3>3. PICK l : l = d[k]
      OBVIOUS
    <3>4. l \in Seq(Bytes) /\ Len(l) >= cmd.cbs
      <4>1. l \in Seq(Bytes)
        BY <1>1, <2>1, <3>3, ElementOfSeq, Zenon
      <4> QED BY <1>1, <2>3, <3>2, <3>3, <4>1
    <3>5. BlockOf(l \o y) = BlockOf(l)
      BY <3>4, BlockOfLonger
    <3> QED BY <1>2, <1>3, <2>1, <3>1, <3>3, <3>5
  <2> QED BY <2>2, <2>3
<1>6. PICK r \in Seq(E) : q = p \o r
  <2>1. Len(p) <= Len(q)
    BY <1>2, <1>3, <1>4
  <2> QED BY <1>2, <1>3, <1>5, <2>1, PrefixRest
<1>7. FlattenSeq(r) \in Seq(Bytes) /\ FlattenSeq(q) = FlattenSeq(p) \o FlattenSeq(r)
  BY <1>1, <1>2, <1>6, FlattenConcat
<1> QED BY <1>1, <1>7

----------------------------------------------------------------------------
(***************************************************************************)
(* conv=unblock: the lines that records are made of.                       *)
(***************************************************************************)

\* The lines unblock() makes of s.
RecordOf(s, k) == Append(Stripped(SubSeq(s, (k - 1) * cmd.cbs + 1, Smaller(k * cmd.cbs, Len(s)))), NL)
RecordsIn(s)   == (Len(s) + cmd.cbs - 1) \div cmd.cbs
RecordsOf(s)   == [k \in 1 .. RecordsIn(s) |-> RecordOf(s, k)]

LEMMA UnblockedIs == \A s : Unblocked(s) = FlattenSeq(RecordsOf(s))
  BY DEF Unblocked, RecordsOf, RecordsIn, RecordOf

LEMMA Euclid ==
  ASSUME NEW w \in Nat, w > 0
  PROVE  \A a \in Nat : \E q, r \in Nat : a = q * w + r /\ r < w
<1> DEFINE S == {a \in Nat : \E q, r \in Nat : a = q * w + r /\ r < w}
<1>1. 0 \in S
  <2>1. 0 = 0 * w + 0
    OBVIOUS
  <2> QED BY <2>1
<1>2. ASSUME NEW a \in Nat, a \in S PROVE a + 1 \in S
  <2>1. PICK q \in Nat, r \in Nat : a = q * w + r /\ r < w
    BY <1>2
  <2>2. CASE r + 1 < w
    <3>1. a + 1 = q * w + (r + 1) /\ r + 1 \in Nat
      BY <2>1
    <3> QED BY <2>2, <3>1
  <2>3. CASE ~(r + 1 < w)
    <3>1. r + 1 = w
      BY <2>1, <2>3
    <3>2. (q + 1) * w = q * w + w
      BY Z3
    <3>3. q * w \in Nat
      OBVIOUS
    <3>4. a + 1 = (q + 1) * w + 0 /\ q + 1 \in Nat
      BY <2>1, <3>1, <3>2, <3>3
    <3>5. PICK u : u = q + 1
      OBVIOUS
    <3>6. u \in Nat /\ a + 1 = u * w + 0 /\ 0 < w
      BY <3>4, <3>5
    <3> QED BY <3>6
  <2> QED BY <2>2, <2>3
<1>3. \A a \in Nat : a \in S
  <2> HIDE DEF S
  <2> QED BY <1>1, <1>2, SetInduction
<1> QED BY <1>3

\* The records of k bytes, behind j whole ones.
LEMMA CountRecords ==
  ASSUME NEW j \in Nat, NEW w \in Nat, w > 0, NEW l \in Nat, NEW m, m = ((j * w + l) + w - 1) \div w
  PROVE  /\ m \in Nat /\ m >= j
         /\ l = 0 => m = j
         /\ 0 < l /\ l <= w => m = j + 1
<1>1. PICK p : p = j * w /\ p \in Nat
  OBVIOUS
<1>2. PICK q \in Nat, r \in Nat : l + (w - 1) = q * w + r /\ r < w
  <2>1. l + (w - 1) \in Nat
    OBVIOUS
  <2> QED BY <2>1, Euclid
<1>3. (j + q) * w = p + q * w /\ q * w \in Nat
  <2>1. (j + q) * w = j * w + q * w
    BY Z3
  <2> QED BY <1>1, <2>1
<1>4. (p + l) + w - 1 = (j + q) * w + r
  BY <1>1, <1>2, <1>3
<1>5. m = j + q
  BY <1>1, <1>2, <1>4, SameBlock
<1>6. l = 0 => q = 0
  <2> SUFFICES ASSUME l = 0, q # 0 PROVE FALSE
    OBVIOUS
  <2>1. q * w >= w
    <3>1. q >= 1
      BY <1>2
    <3> QED BY <3>1, Z3
  <2> QED BY <1>2, <1>3, <2>1
<1>7. 0 < l /\ l <= w => q = 1
  <2> SUFFICES ASSUME 0 < l, l <= w, q # 1 PROVE FALSE
    OBVIOUS
  <2>1. CASE q = 0
    <3>1. q * w = 0
      BY <2>1
    <3> QED BY <1>2, <3>1
  <2>2. CASE q # 0
    <3>1. q >= 2
      BY <1>2, <2>2
    <3>2. q * w >= 2 * w
      BY <3>1, Z3
    <3> QED BY <1>2, <1>3, <3>2
  <2> QED BY <2>1, <2>2
<1> QED BY <1>5, <1>6, <1>7

\* The same part of two sequences that begin alike.
LEMMA SamePart ==
  ASSUME NEW s \in Seq(Bytes), NEW t \in Seq(Bytes), NEW a \in Nat, NEW b \in Nat, 1 <= a,
         b <= Len(s), b <= Len(t), \A i \in a .. b : t[i] = s[i]
  PROVE  SubSeq(t, a, b) = SubSeq(s, a, b)
<1>1. PICK x, y : x = SubSeq(s, a, b) /\ y = SubSeq(t, a, b)
  OBVIOUS
<1>2. CASE a <= b
  <2>1. /\ x \in Seq(Bytes) /\ Len(x) = b - a + 1
        /\ \A i \in 1 .. b - a + 1 : x[i] = s[a + i - 1]
    BY <1>1, <1>2
  <2>2. /\ y \in Seq(Bytes) /\ Len(y) = b - a + 1
        /\ \A i \in 1 .. b - a + 1 : y[i] = t[a + i - 1]
    BY <1>1, <1>2
  <2>3. ASSUME NEW i \in 1 .. Len(x) PROVE x[i] = y[i]
    <3>1. i \in 1 .. b - a + 1 /\ a + i - 1 \in a .. b
      BY <1>2, <2>1
    <3> QED BY <2>1, <2>2, <3>1
  <2>4. Len(x) = Len(y)
    BY <2>1, <2>2
  <2> QED BY <1>1, <2>1, <2>2, <2>3, <2>4, SeqEqual, Zenon
<1>3. CASE ~(a <= b)
  <2>1. x = <<>> /\ y = <<>>
    BY <1>1, <1>3
  <2> QED BY <1>1, <2>1
<1> QED BY <1>2, <1>3

\* All of what comes behind c.
LEMMA PartBehind ==
  ASSUME NEW c \in Seq(Bytes), NEW y \in Seq(Bytes), NEW t, Joined(c, y, t),
         NEW a, a = Len(c) + 1, NEW b, b = Len(c) + Len(y)
  PROVE  SubSeq(t, a, b) = y
<1>1. JoinFacts(c, y, t)
  BY JoinedFacts, Zenon
<1>2. PICK p, m, x : p = Len(c) /\ m = Len(y) /\ x = SubSeq(t, a, b)
  OBVIOUS
<1>3. /\ t \in Seq(Bytes) /\ Len(t) = p + m /\ p \in Nat /\ m \in Nat /\ a = p + 1 /\ b = p + m
      /\ \A k \in 1 .. m : t[p + k] = y[k]
  BY <1>1, <1>2 DEF JoinFacts
<1>4. /\ x \in Seq(Bytes) /\ Len(x) = m
      /\ \A i \in 1 .. m : x[i] = t[a + i - 1]
  <2>1. CASE m = 0
    <3>1. x = <<>>
      BY <1>2, <1>3, <2>1
    <3> QED BY <2>1, <3>1
  <2>2. CASE m # 0
    BY <1>2, <1>3, <2>2
  <2> QED BY <2>1, <2>2
<1>5. ASSUME NEW i \in 1 .. Len(x) PROVE x[i] = y[i]
  <2>1. i \in 1 .. m /\ a + i - 1 = p + i
    <3>1. Len(x) = m /\ a = p + 1 /\ p \in Nat /\ m \in Nat
      BY <1>3, <1>4
    <3>2. i \in 1 .. m
      BY <3>1
    <3> QED BY <3>1, <3>2
  <2> QED BY <1>3, <1>4, <2>1
<1> QED BY <1>2, <1>4, <1>5, SeqEqual, Zenon

AreRecords(s, p) ==
  /\ p \in Seq(Seq(Bytes)) /\ Len(p) = RecordsIn(s) /\ RecordsIn(s) \in Nat
  /\ \A k \in 1 .. RecordsIn(s) : p[k] = RecordOf(s, k)

LEMMA StrippedLine ==
  ASSUME NEW x \in Seq(Bytes)
  PROVE  Append(Stripped(x), NL) \in Seq(Bytes)
<1>1. Stripped(x) \in Seq(Bytes) /\ NL \in Bytes
  BY StrippedLen DEF Bytes
<1> QED BY <1>1

LEMMA RecordType ==
  ASSUME NEW s \in Seq(Bytes), NEW w \in Nat, w = cmd.cbs, NEW k \in Nat, k > 0
  PROVE  RecordOf(s, k) \in Seq(Bytes)
<1>1. PICK a, b, x : /\ a = (k - 1) * w + 1 /\ b = Smaller(k * w, Len(s))
                     /\ x = SubSeq(s, a, b)
  OBVIOUS
<1>2. a \in Nat /\ a >= 1
  <2>1. k - 1 \in Nat
    OBVIOUS
  <2>2. (k - 1) * w \in Nat
    BY <2>1
  <2> QED BY <1>1, <2>2
<1>3. b \in Nat /\ b <= Len(s)
  <2>1. k * w \in Nat /\ Len(s) \in Nat
    OBVIOUS
  <2> QED BY <1>1, <2>1 DEF Smaller
<1>4. x \in Seq(Bytes)
  <2>1. CASE a <= b
    BY <1>1, <1>2, <1>3, <2>1
  <2>2. CASE ~(a <= b)
    <3>1. x = <<>>
      BY <1>1, <1>2, <1>3, <2>2
    <3> QED BY <3>1
  <2> QED BY <2>1, <2>2
<1>5. RecordOf(s, k) = Append(Stripped(x), NL)
  BY <1>1 DEF RecordOf
<1> QED BY <1>4, <1>5, StrippedLine

LEMMA RecordsFacts ==
  ASSUME IInv, cmd.cbs > 0, NEW s \in Seq(Bytes), NEW p, p = RecordsOf(s)
  PROVE  AreRecords(s, p)
<1>1. PICK w, m, l : w = cmd.cbs /\ m = RecordsIn(s) /\ l = Len(s)
  OBVIOUS
<1>2. w \in Nat /\ w > 0 /\ l \in Nat
  BY <1>1, LineNumbers
<1>3. m \in Nat
  <2>1. 0 * w = 0
    BY <1>2
  <2>2. m = ((0 * w + l) + w - 1) \div w
    <3>1. (0 * w + l) + w - 1 = l + w - 1
      BY <1>2, <2>1
    <3> QED BY <1>1, <3>1 DEF RecordsIn
  <2> QED BY <1>2, <2>2, CountRecords
<1>4. \A k \in 1 .. m : RecordOf(s, k) \in Seq(Bytes)
  BY <1>1, <1>2, <1>3, RecordType
<1>5. p = [k \in 1 .. m |-> RecordOf(s, k)]
  BY <1>1 DEF RecordsOf
<1>6. ByIndex(Seq(Bytes), m, p)
  BY <1>4, <1>5 DEF ByIndex
<1>7. p \in Seq(Seq(Bytes)) /\ Len(p) = m
  BY <1>3, <1>6, IndexedSeq, Zenon
<1> QED BY <1>1, <1>3, <1>5, <1>7 DEF AreRecords

\* What comes behind whole records changes none of them.
LEMMA RecordStays ==
  ASSUME NEW w \in Nat, w = cmd.cbs, w > 0, NEW j \in Nat, NEW c \in Seq(Bytes), Len(c) = j * w,
         NEW y \in Seq(Bytes), NEW t, Joined(c, y, t), NEW k \in 1 .. j
  PROVE  RecordOf(t, k) = RecordOf(c, k)
<1>1. JoinFacts(c, y, t)
  BY JoinedFacts, Zenon
<1>2. PICK l, m : l = Len(c) /\ m = Len(t)
  OBVIOUS
<1>3. t \in Seq(Bytes) /\ m \in Nat /\ l \in Nat /\ l <= m /\ \A i \in 1 .. l : t[i] = c[i]
  <2>1. /\ t \in Seq(Bytes) /\ m = l + Len(y) /\ l \in Nat /\ Len(y) \in Nat
        /\ \A i \in 1 .. l : t[i] = c[i]
    BY <1>1, <1>2 DEF JoinFacts
  <2>2. m \in Nat /\ l <= m
    BY <2>1
  <2> QED BY <2>1, <2>2
<1>4. PICK u : u = k * w /\ u \in Nat /\ u <= l
  <2>1. k * w \in Nat
    OBVIOUS
  <2>2. k \in Nat /\ k <= j
    OBVIOUS
  <2>3. k * w <= j * w
    BY <2>2, Z3
  <2> QED BY <1>2, <2>1, <2>3
<1>5. Smaller(u, m) = u /\ Smaller(u, l) = u
  <2>1. u <= l /\ l <= m /\ u \in Nat /\ l \in Nat /\ m \in Nat
    BY <1>3, <1>4
  <2> QED BY <2>1 DEF Smaller
<1>6. PICK a : a = (k - 1) * w + 1 /\ a \in Nat /\ a >= 1
  <2>1. PICK i : i = k - 1 /\ i \in Nat
    OBVIOUS
  <2>2. i * w \in Nat
    BY <2>1
  <2> QED BY <2>1, <2>2
<1>7. \A i \in a .. u : t[i] = c[i]
  <2>1. \A i \in a .. u : i \in 1 .. l
    <3>1. a \in Nat /\ u \in Nat /\ l \in Nat /\ a >= 1 /\ u <= l
      BY <1>3, <1>4, <1>6
    <3> QED BY <3>1
  <2> QED BY <1>3, <2>1
<1>8. SubSeq(t, a, u) = SubSeq(c, a, u)
  <2>1. u <= Len(c) /\ u <= Len(t)
    <3>1. u <= l /\ u <= m
      <4>1. u <= l /\ l <= m /\ u \in Nat /\ l \in Nat /\ m \in Nat
        BY <1>3, <1>4
      <4> QED BY <4>1
    <3> QED BY <1>2, <3>1
  <2>2. t \in Seq(Bytes) /\ a \in Nat /\ u \in Nat /\ 1 <= a
    BY <1>3, <1>4, <1>6
  <2> QED BY <1>7, <2>1, <2>2, SamePart
<1>9. RecordOf(t, k) = Append(Stripped(SubSeq(t, a, u)), NL)
  BY <1>2, <1>4, <1>5, <1>6 DEF RecordOf
<1>10. RecordOf(c, k) = Append(Stripped(SubSeq(c, a, u)), NL)
  BY <1>2, <1>4, <1>5, <1>6 DEF RecordOf
<1> QED BY <1>8, <1>9, <1>10

\* What unblock() makes of t, which is c and y.
LinesMore(c, y, t) ==
  /\ Unblocked(c) \in Seq(Bytes)
  /\ \E r \in Seq(Bytes) : Unblocked(t) = Unblocked(c) \o r
  /\ y = <<>> => Unblocked(t) = Unblocked(c)
  /\ y # <<>> /\ Len(y) <= cmd.cbs => Unblocked(t) = Unblocked(c) \o Append(Stripped(y), NL)

\* The lines made of whole records remain when more comes behind them; one more record
\* gives one more line.
LEMMA UnblockedMore ==
  ASSUME IInv, cmd.cbs > 0, NEW j \in Nat, NEW c \in Seq(Bytes), Len(c) = j * cmd.cbs,
         NEW y \in Seq(Bytes), NEW t, Joined(c, y, t)
  PROVE  LinesMore(c, y, t)
<1>1. PICK w, m, p, q, l : /\ w = cmd.cbs /\ m = RecordsIn(t) /\ p = RecordsOf(c) /\ q = RecordsOf(t)
                           /\ l = Len(y)
  OBVIOUS
<1>2. w \in Nat /\ w > 0 /\ l \in Nat
  BY <1>1, LineNumbers
<1>3. JoinFacts(c, y, t)
  BY JoinedFacts, Zenon
<1>4. t \in Seq(Bytes) /\ Len(t) = j * w + l
  BY <1>1, <1>3 DEF JoinFacts
<1>5. m \in Nat /\ m >= j /\ (l = 0 => m = j) /\ (0 < l /\ l <= w => m = j + 1)
  <2>1. m = ((j * w + l) + w - 1) \div w
    BY <1>1, <1>4 DEF RecordsIn
  <2> QED BY <1>2, <2>1, CountRecords
<1>6. RecordsIn(c) = j
  <2>1. Len(c) = j * w + 0
    <3>1. j * w \in Nat
      BY <1>2
    <3> QED BY <1>1, <3>1
  <2>2. RecordsIn(c) = ((j * w + 0) + w - 1) \div w
    BY <1>1, <2>1 DEF RecordsIn
  <2> QED BY <1>2, <2>2, CountRecords
<1>7. p \in Seq(Seq(Bytes)) /\ Len(p) = j /\ \A k \in 1 .. j : p[k] = RecordOf(c, k)
  <2>1. AreRecords(c, p)
    BY <1>1, RecordsFacts, Zenon
  <2> QED BY <1>6, <2>1 DEF AreRecords
<1>8. q \in Seq(Seq(Bytes)) /\ Len(q) = m /\ \A k \in 1 .. m : q[k] = RecordOf(t, k)
  <2>1. AreRecords(t, q)
    BY <1>1, <1>4, RecordsFacts, Zenon
  <2> QED BY <1>1, <2>1 DEF AreRecords
<1>9. ASSUME NEW k \in 1 .. Len(p) PROVE q[k] = p[k]
  <2>1. k \in 1 .. j /\ k \in 1 .. m
    BY <1>5, <1>7
  <2>2. RecordOf(t, k) = RecordOf(c, k)
    <3>1. w = cmd.cbs /\ w \in Nat /\ w > 0 /\ Len(c) = j * w
      BY <1>1, <1>2
    <3> QED BY <2>1, <3>1, RecordStays
  <2> QED BY <1>7, <1>8, <2>1, <2>2
<1>10. PICK E : E = Seq(Bytes)
  OBVIOUS
<1>11. PICK r \in Seq(E) : q = p \o r
  <2>1. Len(p) <= Len(q)
    BY <1>5, <1>7, <1>8
  <2>2. p \in Seq(E) /\ q \in Seq(E)
    BY <1>7, <1>8, <1>10
  <2> QED BY <1>9, <2>1, <2>2, PrefixRest
<1>12. /\ FlattenSeq(p) \in Seq(Bytes) /\ FlattenSeq(r) \in Seq(Bytes)
       /\ FlattenSeq(q) = FlattenSeq(p) \o FlattenSeq(r)
  BY <1>7, <1>10, <1>11, FlattenConcat
<1>13. Unblocked(c) = FlattenSeq(p) /\ Unblocked(t) = FlattenSeq(q)
  BY <1>1, UnblockedIs
<1>14. y = <<>> => Unblocked(t) = Unblocked(c)
  <2>1. y = <<>> => t = c
    BY JoinEmpty
  <2> QED BY <2>1
<1>15. ASSUME y # <<>>, l <= w PROVE Unblocked(t) = Unblocked(c) \o Append(Stripped(y), NL)
  <2>1. l > 0
    BY <1>1, <1>2, <1>15
  <2>2. m = j + 1
    BY <1>2, <1>5, <1>15, <2>1
  <2>3. RecordOf(t, m) = Append(Stripped(y), NL)
    <3>1. PICK b, u : b = j * w /\ u = m * w
      OBVIOUS
    <3>2. b \in Nat /\ u = b + w /\ m - 1 = j
      <4>1. (j + 1) * w = j * w + w
        BY <1>2, Z3
      <4> QED BY <1>2, <2>2, <3>1, <4>1
    <3>3. Smaller(u, Len(t)) = b + l
      <4>1. Len(t) = b + l
        BY <1>4, <3>1
      <4> QED BY <1>2, <1>15, <3>2, <4>1 DEF Smaller
    <3>4. Len(c) = b /\ Len(c) + Len(y) = b + l
      BY <1>1, <3>1
    <3>5. SubSeq(t, b + 1, b + l) = y
      BY <3>4, PartBehind
    <3>6. (m - 1) * cmd.cbs + 1 = b + 1
      BY <1>1, <3>1, <3>2
    <3>7. m * cmd.cbs = u
      BY <1>1, <3>1
    <3> QED BY <3>3, <3>5, <3>6, <3>7 DEF RecordOf
  <2>4. PICK b : b = Append(Stripped(y), NL)
    OBVIOUS
  <2>5. b \in E
    BY <1>10, <2>4, StrippedLine
  <2>6. PICK z : z = Append(p, b)
    OBVIOUS
  <2>7. p \in Seq(E) /\ q \in Seq(E)
    BY <1>7, <1>8, <1>10
  <2>8. z \in Seq(E) /\ Len(z) = j + 1 /\ z[j + 1] = b /\ \A k \in 1 .. j : z[k] = p[k]
    BY <1>7, <2>5, <2>6, <2>7
  <2>9. ASSUME NEW k \in 1 .. Len(q) PROVE q[k] = z[k]
    <3>1. CASE k = j + 1
      BY <1>5, <1>8, <2>2, <2>3, <2>4, <2>8, <3>1
    <3>2. CASE k # j + 1
      <4>1. k \in 1 .. j /\ k \in 1 .. Len(p)
        BY <1>7, <1>8, <2>2, <3>2
      <4> QED BY <1>9, <2>8, <4>1
    <3> QED BY <3>1, <3>2
  <2>10. q = z
    <3>1. Len(q) = Len(z)
      BY <1>8, <2>2, <2>8
    <3> QED BY <2>7, <2>8, <2>9, <3>1, SeqEqual, Zenon
  <2>11. FlattenSeq(z) = FlattenSeq(p) \o b
    BY <1>10, <2>5, <2>6, <2>7, FlattenSnoc
  <2> QED BY <1>13, <2>4, <2>10, <2>11
<1> QED BY <1>1, <1>12, <1>13, <1>14, <1>15 DEF LinesMore

----------------------------------------------------------------------------
(***************************************************************************)
(* What has been sent and buffered is the conversion of what was read.     *)
(***************************************************************************)

\* The conversion of the first bytes c of what goes into it: block() maps the characters of
\* what it makes, the others convert what is mapped already.
Input == IF Has("BLOCK") THEN fed ELSE Translate(fed)
Out(c) ==
  IF Has("BLOCK") THEN Translate(Blocked(c))
  ELSE IF Has("UNBLOCK") THEN Unblocked(c)
  ELSE c

LEMMA ConvertIs == Convert(fed) = Out(Input)
  BY DEF Convert, Out, Input

\* Where a conversion can stop: behind a newline, in a line that is longer than the record
\* made of it, or behind whole records.
Whole(c) ==
  /\ Has("BLOCK") => Clean(c) \/ (Lines(c) # <<>> /\ Len(Lines(c)[Len(Lines(c))]) >= cmd.cbs)
  /\ Has("UNBLOCK") => \E j \in Nat : Len(c) = j * cmd.cbs

LEMMA SameOut ==
  ASSUME cmd' = cmd, NEW c
  PROVE  Out(c)' = Out(c) /\ Whole(c)' = Whole(c) /\ Translate(c)' = Translate(c)
<1>1. (\A f : Has(f)' = Has(f)) /\ PadByte' = PadByte
  BY SameLine
<1>2. Translate(c)' = Translate(c) /\ Translate(Blocked(c))' = Translate(Blocked(c)')
  BY <1>1 DEF Translate, Upper
<1>3. Blocked(c)' = Blocked(c)
  BY <1>1 DEF Blocked, Padded
<1>4. Unblocked(c)' = Unblocked(c)
  BY DEF Unblocked
<1>5. Translate(Blocked(c))' = Translate(Blocked(c))
  BY <1>1, <1>3 DEF Translate, Upper
<1>6. Out(c)' = Out(c)
  BY <1>1, <1>3, <1>4, <1>5 DEF Out
<1>7. Whole(c)' = Whole(c)
  BY <1>1 DEF Whole
<1> QED BY <1>2, <1>6, <1>7

LEMMA OutEmpty ==
  ASSUME IInv PROVE Out(<<>>) = <<>> /\ Whole(<<>>) /\ Translate(<<>>) = <<>>
<1>0. <<>> \in Seq(Bytes)
  OBVIOUS
<1>1. Translate(<<>>) = <<>>
  <2>1. Translate(<<>>) \in Seq(Bytes) /\ Len(Translate(<<>>)) = 0
    BY <1>0, TranslateLen
  <2> QED BY <2>1
<1>2. Blocked(<<>>) = <<>>
  <2>1. PICK d, p : d = Lines(<<>>) /\ p = BlocksOf(d)
    OBVIOUS
  <2>2. d = <<>> /\ d \in Seq(Seq(Bytes)) /\ Len(d) = 0
    <3>1. d = <<>>
      BY <2>1, LinesEmpty
    <3>2. PICK E : E = Seq(Bytes)
      OBVIOUS
    <3>3. <<>> \in Seq(E) /\ Len(<<>>) = 0
      OBVIOUS
    <3> QED BY <3>1, <3>2, <3>3
  <2>3. AreBlocks(d, p)
    BY <2>1, <2>2, BlocksFacts, Zenon
  <2>4. PICK E : E = Seq(Bytes)
    OBVIOUS
  <2>5. p \in Seq(E) /\ Len(p) = 0
    BY <2>2, <2>3, <2>4 DEF AreBlocks
  <2>6. p = <<>>
    BY <2>5
  <2> QED BY <2>1, <2>6, BlockedIs, FlattenEmpty
<1>3. Has("UNBLOCK") => Unblocked(<<>>) = <<>> /\ \E j \in Nat : Len(<<>>) = j * cmd.cbs
  <2> SUFFICES ASSUME Has("UNBLOCK") PROVE Unblocked(<<>>) = <<>> /\ \E j \in Nat : Len(<<>>) = j * cmd.cbs
    OBVIOUS
  <2>1. PICK w, p : w = cmd.cbs /\ p = RecordsOf(<<>>)
    OBVIOUS
  <2>2. w \in Nat /\ w > 0
    <3>1. cmd.cbs > 0
      BY Facts DEF Records
    <3> QED BY <2>1, <3>1, LineNumbers
  <2>3. 0 * w = 0
    BY <2>2
  <2>4. RecordsIn(<<>>) = 0
    <3>1. RecordsIn(<<>>) = ((0 * w + 0) + w - 1) \div w
      BY <2>1, <2>2, <2>3 DEF RecordsIn
    <3> QED BY <2>2, <3>1, CountRecords
  <2>5. AreRecords(<<>>, p)
    BY <1>0, <2>1, <2>2, RecordsFacts
  <2>6. PICK E : E = Seq(Bytes)
    OBVIOUS
  <2>7. p \in Seq(E) /\ Len(p) = 0
    BY <2>4, <2>5, <2>6 DEF AreRecords
  <2>8. p = <<>>
    BY <2>7
  <2>9. Unblocked(<<>>) = <<>>
    BY <2>1, <2>8, UnblockedIs, FlattenEmpty
  <2>10. Len(<<>>) = 0 * w
    BY <2>3
  <2> QED BY <2>1, <2>9, <2>10
<1> QED BY <1>1, <1>2, <1>3 DEF Out, Whole, Clean

LEMMA JoinCancel ==
  ASSUME NEW c \in Seq(Bytes), NEW e \in Seq(Bytes), NEW i \in Seq(Bytes), NEW f,
         Joined(c, i, f), Joined(e, i, f)
  PROVE  c = e
<1>1. JoinFacts(c, i, f) /\ JoinFacts(e, i, f)
  BY JoinedFacts
<1>2. Len(c) = Len(e)
  BY <1>1 DEF JoinFacts
<1>3. \A k \in 1 .. Len(c) : c[k] = e[k]
  BY <1>1, <1>2 DEF JoinFacts
<1> QED BY <1>2, <1>3, SeqEqual, Zenon

\* A line with its newline is taken from i.
LEMMA LineTaken ==
  ASSUME NEW c \in Seq(Bytes), NEW i, NEW f, Joined(c, i, f),
         NEW y, NEW x, NEW r, FirstLine(i, y, x, r)
  PROVE  \E e \in Seq(Bytes) :
           Joined(e, r, f) /\ Lines(e) = AddPart(Lines(c), Clean(c), y) /\ Clean(e)
<1>1. /\ y \in Seq(Bytes) /\ x \in Seq(Bytes) /\ r \in Seq(Bytes) /\ NoNL(y) /\ x = Append(y, NL)
      /\ Joined(x, r, i)
  BY DEF FirstLine
<1>2. PICK e : Joined(c, x, e)
  BY DEF Joined
<1>3. e \in Seq(Bytes) /\ Joined(e, r, f)
  <2>1. x \in Seq(Bytes) /\ r \in Seq(Bytes) /\ Joined(x, r, i)
    BY <1>1
  <2> QED BY <1>2, <2>1, JoinMove, Zenon
<1>4. e = c \o Append(y, NL)
  BY <1>1, <1>2 DEF Joined
<1>5. Lines(e) = AddPart(Lines(c), Clean(c), y) /\ Clean(e)
  BY <1>1, <1>4, LinesOfLine
<1> QED BY <1>3, <1>5

\* All of i is taken, which has no newline.
LEMMA RestTaken ==
  ASSUME NEW c \in Seq(Bytes), NEW i \in Seq(Bytes), NEW f, Joined(c, i, f), NoNL(i), i # <<>>
  PROVE  Lines(f) = AddPart(Lines(c), Clean(c), i)
<1>1. f = c \o i
  BY DEF Joined
<1> QED BY <1>1, LinesOfPart

\* Another line makes another record; more of a line that fills its record does not.
LEMMA BlockedAppend ==
  ASSUME IInv, NEW c \in Seq(Bytes), NEW y \in Seq(Bytes), NEW e, Lines(e) = Append(Lines(c), y)
  PROVE  Joined(Translate(Blocked(c)), Translate(BlockOf(y)), Translate(Blocked(e)))
<1>1. PICK d, g, b, s, t : /\ d = Lines(c) /\ g = Lines(e) /\ b = BlockOf(y)
                           /\ s = Blocked(c) /\ t = Blocked(e)
  OBVIOUS
<1>2. d \in Seq(Seq(Bytes)) /\ g = Append(d, y)
  BY <1>1, LinesType
<1>3. FlattenSeq(BlocksOf(d)) \in Seq(Bytes)
      /\ FlattenSeq(BlocksOf(g)) = FlattenSeq(BlocksOf(d)) \o BlockOf(y)
  BY <1>2, BlocksLine
<1>4. s \in Seq(Bytes) /\ Joined(s, b, t)
  BY <1>1, <1>3, BlockedIs DEF Joined
<1>5. b \in Seq(Bytes)
  BY <1>1, BlockOfFacts DEF IsBlock
<1>6. Joined(Translate(s), Translate(b), Translate(t))
  BY <1>4, <1>5, TranslateJoined
<1> QED BY <1>1, <1>6

LEMMA BlockedLonger ==
  ASSUME IInv, NEW c \in Seq(Bytes), NEW y \in Seq(Bytes), NEW e, Lines(e) = Longer(Lines(c), y),
         Lines(c) # <<>>, Len(Lines(c)[Len(Lines(c))]) >= cmd.cbs
  PROVE  /\ Translate(Blocked(e)) = Translate(Blocked(c))
         /\ Lines(e) # <<>> /\ Len(Lines(e)[Len(Lines(e))]) >= cmd.cbs
<1>1. PICK d, g : d = Lines(c) /\ g = Lines(e)
  OBVIOUS
<1>2. d \in Seq(Seq(Bytes)) /\ g = Longer(d, y) /\ d # <<>> /\ Len(d[Len(d)]) >= cmd.cbs
  BY <1>1, LinesType
<1>3. g # <<>>
  BY <1>2, LongerFacts
<1>4. BlocksOf(g) = BlocksOf(d) /\ Len(g[Len(g)]) >= cmd.cbs
  BY <1>2, BlocksLonger
<1> QED BY <1>1, <1>3, <1>4, BlockedIs

\* What block() sends of a line: as much of it as there is room for, padded.
LEMMA BlockSent ==
  ASSUME IInv, NEW i \in Seq(Bytes), NEW m \in Nat, m <= Len(i), NEW y, y = Take(i, m)
  PROVE  Padded(Take(i, Smaller(m, cmd.cbs)), cmd.cbs) = BlockOf(y)
<1>1. PICK w, l, x, p : /\ w = cmd.cbs /\ l = Smaller(m, w) /\ x = Take(i, l) /\ p = Padded(x, w)
  OBVIOUS
<1>2. w \in Nat /\ l \in Nat /\ l <= w /\ l <= m /\ l <= Len(i) /\ (l = m \/ l = w)
  <2>1. w \in Nat /\ Len(i) \in Nat
    BY <1>1, LineNumbers
  <2> QED BY <1>1, <2>1 DEF Smaller
<1>3. y \in Seq(Bytes) /\ Len(y) = m /\ \A k \in 1 .. m : y[k] = i[k]
  <2>1. PICK z : z = Drop(i, m)
    OBVIOUS
  <2>2. Split(i, m, y, z)
    BY <2>1, SplitFacts
  <2> QED BY <2>2 DEF Split
<1>4. x \in Seq(Bytes) /\ Len(x) = l /\ \A k \in 1 .. l : x[k] = i[k]
  <2>1. PICK z : z = Drop(i, l)
    OBVIOUS
  <2>2. Split(i, l, x, z)
    BY <1>1, <1>2, <2>1, SplitFacts
  <2> QED BY <2>2 DEF Split
<1>5. PadResult(x, w, p)
  BY <1>1, <1>2, <1>4, PaddedFacts
<1>6. /\ p \in Seq(Bytes) /\ Len(p) = w
      /\ \A k \in 1 .. l : p[k] = x[k]
      /\ \A k \in 1 .. w : k > l => p[k] = PadByte
  BY <1>4, <1>5 DEF PadResult
<1>7. ASSUME NEW k \in 1 .. w PROVE p[k] = IF k <= m THEN y[k] ELSE PadByte
  <2>1. CASE k <= m
    <3>1. k \in 1 .. l /\ k \in 1 .. m
      BY <1>2, <2>1
    <3> QED BY <1>3, <1>4, <1>6, <2>1, <3>1
  <2>2. CASE ~(k <= m)
    <3>1. k > l
      BY <1>2, <2>2
    <3> QED BY <1>6, <2>2, <3>1
  <2> QED BY <2>1, <2>2
<1>8. IsBlock(y, p)
  BY <1>1, <1>3, <1>6, <1>7 DEF IsBlock
<1>9. IsBlock(y, BlockOf(y))
  BY <1>3, BlockOfFacts
<1> QED BY <1>1, <1>8, <1>9, OneBlock

----------------------------------------------------------------------------
\* The bytes converted so far.
ConvOK(c) ==
  /\ c \in Seq(Bytes) /\ Joined(c, inbuf, Input)
  /\ inbuf # <<>> \/ Going => Whole(c)
  /\ Sendable => Sent = Out(c)

ConvInv == \E c : ConvOK(c)

LEMMA InputType == IInv => Input \in Seq(Bytes)
<1> SUFFICES ASSUME IInv PROVE Input \in Seq(Bytes)
  OBVIOUS
<1>1. fed \in Seq(Bytes)
  BY DEF IInv, TypeOK
<1> QED BY <1>1, TranslateLen DEF Input

LEMMA SameInputBytes == UNCHANGED <<cmd, fed>> => Input' = Input /\ UnfinishedRecord' = UnfinishedRecord
<1> SUFFICES ASSUME UNCHANGED <<cmd, fed>> PROVE Input' = Input /\ UnfinishedRecord' = UnfinishedRecord
  OBVIOUS
<1>1. (\A f : Has(f)' = Has(f)) /\ \A c : Translate(c)' = Translate(c)
  BY SameLine, SameOut
<1>2. Translate(fed)' = Translate(fed)
  BY <1>1 DEF Translate, Upper
<1>3. Input' = Input
  BY <1>1, <1>2 DEF Input
<1>4. UnfinishedRecord' = UnfinishedRecord
  BY <1>1 DEF UnfinishedRecord
<1> QED BY <1>3, <1>4

LEMMA InitConv == Init /\ IInv /\ CountInv => ConvInv
<1> SUFFICES ASSUME Init, IInv, CountInv PROVE ConvOK(<<>>)
  BY DEF ConvInv
<1>1. fed = <<>> /\ inbuf = <<>> /\ pc = "open"
  BY DEF Init
<1>2. Out(<<>>) = <<>> /\ Whole(<<>>) /\ Translate(<<>>) = <<>> /\ Sent = <<>>
  BY <1>1, OutEmpty, NothingSent
<1>3. Input = <<>> /\ <<>> \in Seq(Bytes)
  BY <1>1, <1>2 DEF Input
<1>4. Joined(<<>>, <<>>, <<>>)
  BY <1>3, JoinEmpty
<1> QED BY <1>1, <1>2, <1>3, <1>4 DEF ConvOK

LEMMA SettlesConv == IInv /\ cmd' = cmd /\ Settles => ConvInv'
<1> SUFFICES ASSUME IInv, cmd' = cmd, Settles PROVE ConvOK(<<>>)'
  BY DEF ConvInv
<1>1. fed' = <<>> /\ inbuf' = <<>> /\ Sent' = <<>>
  BY DEF Settles
<1>2. Out(<<>>) = <<>> /\ Whole(<<>>) /\ Translate(<<>>) = <<>>
  BY OutEmpty
<1>3. Out(<<>>)' = Out(<<>>) /\ Whole(<<>>)' = Whole(<<>>) /\ Translate(<<>>)' = Translate(<<>>)
  BY SameOut
<1>4. Input' = <<>> /\ <<>> \in Seq(Bytes)
  <2>1. Translate(fed)' = <<>>
    <3>1. Translate(fed)' = [i \in DOMAIN <<>> |-> Upper(<<>>[i])']
      BY <1>1 DEF Translate
    <3>2. Translate(<<>>) = [i \in DOMAIN <<>> |-> Upper(<<>>[i])]
      BY DEF Translate
    <3>3. \A f : Has(f)' = Has(f)
      BY SameLine
    <3> QED BY <1>2, <3>1, <3>2, <3>3 DEF Upper
  <2> QED BY <1>1, <2>1 DEF Input
<1>5. Joined(<<>>, <<>>, <<>>)
  BY <1>4, JoinEmpty
<1> QED BY <1>1, <1>2, <1>3, <1>4, <1>5 DEF ConvOK

LEMMA QuietConv == IInv /\ cmd' = cmd /\ ConvInv /\ Quiet => ConvInv'
<1> SUFFICES ASSUME IInv, cmd' = cmd, ConvInv, Quiet PROVE \E c : ConvOK(c)'
  BY DEF ConvInv
<1>1. PICK c : ConvOK(c)
  BY DEF ConvInv
<1>2. UNCHANGED <<fed, inbuf>> /\ (HolesAreNUL => Sent' = Sent) /\ (Going' => Going)
  BY DEF Quiet
<1>3. /\ (\A f : Has(f)' = Has(f)) /\ HolesAreNUL' = HolesAreNUL /\ Input' = Input
      /\ UnfinishedRecord' = UnfinishedRecord /\ Out(c)' = Out(c) /\ Whole(c)' = Whole(c)
  BY <1>2, SameLine, SameInputBytes, SameOut
<1>4. Sendable' => Sendable /\ HolesAreNUL
  BY <1>2, <1>3 DEF Sendable
<1>5. ConvOK(c)'
  BY <1>1, <1>2, <1>3, <1>4 DEF ConvOK
<1> QED BY <1>5

LEMMA TakesConv == IInv /\ cmd' = cmd /\ ConvInv /\ (\E x : Takes(x)) => ConvInv'
<1> SUFFICES ASSUME IInv, cmd' = cmd, ConvInv, NEW x, Takes(x) PROVE \E c : ConvOK(c)'
  BY DEF ConvInv
<1>1. PICK c : ConvOK(c)
  BY DEF ConvInv
<1>2. PICK r, i, f, j, g, a, b :
        /\ r = (IF Has("BLOCK") THEN x ELSE Translate(x)) /\ i = inbuf /\ f = Input /\ j = inbuf'
        /\ g = Input' /\ a = fed /\ b = fed'
  OBVIOUS
<1>3. /\ x \in Seq(Bytes) /\ Joined(a, x, b) /\ Joined(i, r, j)
      /\ Sent' = Sent /\ pc \in {"loop", "fill"} /\ pc' = "conv"
  BY <1>2 DEF Takes
<1>4. /\ (\A h : Has(h)' = Has(h)) /\ HolesAreNUL' = HolesAreNUL /\ Out(c)' = Out(c) /\ Whole(c)' = Whole(c)
  BY SameLine, SameOut
<1>5. Going /\ Going'
  BY <1>3 DEF Going, Closed, Succeeded
<1>6. a \in Seq(Bytes) /\ i \in Seq(Bytes)
  BY <1>2 DEF IInv, TypeOK
<1>7. Joined(f, r, g) /\ r \in Seq(Bytes)
  <2>1. CASE Has("BLOCK")
    BY <1>2, <1>3, <1>4, <2>1 DEF Input
  <2>2. CASE ~Has("BLOCK")
    <3>1. r = Translate(x) /\ f = Translate(a)
      BY <1>2, <2>2 DEF Input
    <3>2. g = Translate(b)
      <4>1. g = Translate(fed)'
        BY <1>2, <1>4, <2>2 DEF Input
      <4>2. Translate(fed)' = Translate(b)
        BY <1>2, <1>4 DEF Translate, Upper
      <4> QED BY <4>1, <4>2
    <3>3. Joined(Translate(a), Translate(x), Translate(b))
      BY <1>3, <1>6, TranslateJoined
    <3> QED BY <1>3, <3>1, <3>2, <3>3, TranslateLen
  <2> QED BY <2>1, <2>2
<1>8. c \in Seq(Bytes) /\ Joined(c, i, f) /\ Whole(c) /\ (Sendable => Sent = Out(c))
  BY <1>1, <1>2, <1>5 DEF ConvOK
<1>9. Joined(c, j, g)
  BY <1>3, <1>6, <1>7, <1>8, JoinAssoc
<1>10. Sendable' => Sendable
  BY <1>4, <1>5 DEF Sendable
<1>11. ConvOK(c)'
  BY <1>2, <1>3, <1>4, <1>8, <1>9, <1>10 DEF ConvOK
<1> QED BY <1>11

\* The conversion puts s into the output buffer.
LEMMA SendMore ==
  ASSUME IInv, CountInv, Active, UNCHANGED <<cmd, file, pos, pending>>,
         NEW s \in Seq(Bytes), Joined(outbuf, s, outbuf')
  PROVE  Joined(Sent, s, Sent')
<1>1. PICK d, o, p, q, r : d = Delivered /\ o = outbuf /\ p = Sent /\ q = outbuf' /\ r = Sent'
  OBVIOUS
<1>2. d \in Seq(Bytes) /\ Joined(d, o, p) /\ o \in Seq(Bytes)
  BY <1>1, SentFacts DEF IInv, TypeOK
<1>3. Joined(d, q, r)
  <2>1. Delivered' = Delivered
    BY SameDelivered
  <2> QED BY <1>1, <2>1 DEF Sent, Joined
<1>4. Joined(o, s, q)
  BY <1>1
<1>5. PICK z : Joined(p, s, z)
  BY DEF Joined
<1>6. Joined(d, q, z)
  BY <1>2, <1>4, <1>5, JoinAssoc, Zenon
<1>7. z = r
  BY <1>3, <1>6 DEF Joined
<1> QED BY <1>1, <1>5, <1>7

\* While the copy goes on, the conversion is there.
LEMMA GoingSendable == cmd' = cmd /\ Going /\ Going' => (Sendable' => Sendable)
<1> SUFFICES ASSUME cmd' = cmd, Going, Going' PROVE Sendable' => Sendable
  OBVIOUS
<1>1. (\A f : Has(f)' = Has(f)) /\ HolesAreNUL' = HolesAreNUL
  BY SameLine
<1> QED BY <1>1 DEF Sendable

\* One step of a conversion: it takes x of what is left, leaves r, and sends s for it.
LEMMA OneStep ==
  ASSUME IInv, CountInv, Active, Going, Going', UNCHANGED <<cmd, fed, file, pos, pending>>,
         NEW c, ConvOK(c), NEW e \in Seq(Bytes), Joined(e, inbuf', Input), Whole(e),
         NEW s \in Seq(Bytes), Joined(outbuf, s, outbuf'), Joined(Out(c), s, Out(e))
  PROVE  ConvInv'
<1>1. Input' = Input /\ Out(e)' = Out(e) /\ Whole(e)' = Whole(e) /\ (Sendable' => Sendable)
  BY SameInputBytes, SameOut, GoingSendable
<1>2. Joined(Sent, s, Sent')
  BY SendMore
<1>3. Sendable' => Sent' = Out(e)
  BY <1>1, <1>2 DEF ConvOK, Joined
<1>4. ConvOK(e)'
  BY <1>1, <1>3 DEF ConvOK
<1> QED BY <1>4 DEF ConvInv

LEMMA PlainConv == IInv /\ CountInv /\ ConvInv /\ (ConvertNone \/ Def) => ConvInv'
<1> SUFFICES ASSUME IInv, CountInv, ConvInv, ConvertNone \/ Def PROVE ConvInv'
  OBVIOUS
<1>1. PICK c : ConvOK(c)
  BY DEF ConvInv
<1>2. /\ pc = "conv" /\ (pc' = "loop" \/ (pc' = "out" /\ back' = "loop"))
      /\ UNCHANGED <<cmd, fed, file, pos, pending>> /\ inbuf' = <<>>
  BY DEF ConvertNone, Def, Emit, StartOut, writer, output
<1>3. ~Has("BLOCK") /\ ~Has("UNBLOCK")
  BY Facts DEF ConvertNone, Def, Records
<1>4. Joined(outbuf, inbuf, outbuf')
  <2>1. CASE ConvertNone
    <3>1. outbuf = <<>> /\ outbuf' = inbuf /\ inbuf \in Seq(Bytes)
      BY <1>2, <2>1 DEF CountInv, Direct, ConvertNone, IInv, TypeOK
    <3> QED BY <3>1, JoinEmpty
  <2>2. CASE Def
    BY <2>2 DEF Def, Emit, Joined
  <2> QED BY <2>1, <2>2
<1>5. Active /\ Going /\ Going'
  BY <1>2 DEF Active, Going, Closed, Succeeded
<1>6. Input \in Seq(Bytes) /\ inbuf \in Seq(Bytes)
  BY InputType DEF IInv, TypeOK
<1>7. Joined(Input, inbuf', Input)
  BY <1>2, <1>6, JoinEmpty
<1>8. Whole(Input) /\ Out(Input) = Input /\ Out(c) = c
  BY <1>3 DEF Whole, Out
<1>9. Joined(Out(c), inbuf, Out(Input))
  BY <1>1, <1>8 DEF ConvOK
<1> QED BY <1>1, <1>2, <1>4, <1>5, <1>6, <1>7, <1>8, <1>9, OneStep

\* With block, what has been converted is what TruncInv speaks of.
LEMMA BlockState ==
  ASSUME IInv, ConvInv, TruncInv, Has("BLOCK"), Going
  PROVE  \E c : /\ ConvOK(c) /\ c \in Seq(Bytes) /\ Joined(c, inbuf, fed)
                /\ (intrunc <=> ~Clean(c))
                /\ pc = "close" => IF intrunc THEN inbuf = <<>> ELSE NoNL(inbuf)
<1>1. PICK c : ConvOK(c)
  BY DEF ConvInv
<1>2. PICK e, T : TruncOK(e, T)
  BY DEF TruncInv
<1>3. PICK i, f : i = inbuf /\ f = fed
  OBVIOUS
<1>4. c \in Seq(Bytes) /\ e \in Seq(Bytes) /\ i \in Seq(Bytes) /\ Joined(c, i, f) /\ Joined(e, i, f)
  BY <1>1, <1>2, <1>3 DEF ConvOK, TruncOK, Input, IInv, TypeOK
<1>5. c = e
  BY <1>4, JoinCancel
<1> QED BY <1>1, <1>2, <1>3, <1>4, <1>5 DEF TruncOK

LEMMA TossConv == IInv /\ CountInv /\ TruncInv /\ ConvInv /\ BlockToss => ConvInv'
<1> SUFFICES ASSUME IInv, CountInv, TruncInv, ConvInv, BlockToss PROVE ConvInv'
  OBVIOUS
<1>1. /\ pc = "conv" /\ Has("BLOCK") /\ intrunc /\ inbuf' = Drop(inbuf, NewlineIn(inbuf))
      /\ pc' \in {"loop", "conv"} /\ UNCHANGED <<cmd, fed, outbuf, file, pos, pending>>
  BY DEF BlockToss, writer, output
<1>2. Active /\ Going /\ Going'
  BY <1>1 DEF Active, Going, Closed, Succeeded
<1>3. PICK c : ConvOK(c) /\ c \in Seq(Bytes) /\ Joined(c, inbuf, fed) /\ ~Clean(c)
  BY <1>1, <1>2, BlockState
<1>4. Lines(c) # <<>> /\ Len(Lines(c)[Len(Lines(c))]) >= cmd.cbs
  BY <1>1, <1>2, <1>3 DEF ConvOK, Whole
<1>5. PICK i, f, j : i = inbuf /\ f = fed /\ j = inbuf'
  OBVIOUS
<1>6. i \in Seq(Bytes) /\ f \in Seq(Bytes) /\ outbuf \in Seq(Bytes) /\ f = Input
  BY <1>1, <1>5 DEF IInv, TypeOK, Input
<1>7. \E e \in Seq(Bytes) :
        /\ Joined(e, j, f)
        /\ e = c \/ \E y \in Seq(Bytes) : Lines(e) = Longer(Lines(c), y)
  <2>1. CASE Contains(i, NL)
    <3>1. PICK y, x, r : FirstLine(i, y, x, r)
      BY <1>6, <2>1, CutLine
    <3>2. y \in Seq(Bytes) /\ r = j
      BY <1>1, <1>5, <3>1 DEF FirstLine
    <3>3. Joined(c, i, f) /\ c \in Seq(Bytes)
      BY <1>3, <1>5
    <3>4. PICK e \in Seq(Bytes) : Joined(e, r, f) /\ Lines(e) = AddPart(Lines(c), Clean(c), y)
      BY <3>1, <3>3, LineTaken
    <3> QED BY <1>3, <3>2, <3>4 DEF AddPart
  <2>2. CASE ~Contains(i, NL)
    <3>1. NoNL(i) /\ j = <<>>
      BY <1>1, <1>5, <1>6, <2>2, NoNewline
    <3>2. CASE i = <<>>
      BY <1>3, <1>5, <3>1, <3>2
    <3>3. CASE i # <<>>
      <4>1. Lines(f) = Longer(Lines(c), i)
        BY <1>3, <1>5, <1>6, <3>1, <3>3, RestTaken DEF AddPart
      <4>2. Joined(f, <<>>, f)
        BY <1>6, JoinEmpty
      <4> QED BY <1>6, <3>1, <4>1, <4>2
    <3> QED BY <3>2, <3>3
  <2> QED BY <2>1, <2>2
<1>8. PICK e \in Seq(Bytes) :
        /\ Joined(e, j, f)
        /\ e = c \/ \E y \in Seq(Bytes) : Lines(e) = Longer(Lines(c), y)
  BY <1>7
<1>9. Translate(Blocked(e)) = Translate(Blocked(c)) /\ Whole(e)
  <2>1. ~Has("UNBLOCK")
    BY <1>1, Facts
  <2>2. CASE e = c
    BY <1>4, <2>1, <2>2 DEF Whole
  <2>3. CASE \E y \in Seq(Bytes) : Lines(e) = Longer(Lines(c), y)
    BY <1>3, <1>4, <2>1, <2>3, BlockedLonger DEF Whole
  <2> QED BY <1>8, <2>2, <2>3
<1>10. Out(e) = Out(c)
  BY <1>1, <1>9 DEF Out
<1>11. Input' = Input /\ Out(e)' = Out(e) /\ Whole(e)' = Whole(e) /\ (Sendable' => Sendable)
  BY <1>1, <1>2, SameInputBytes, SameOut, GoingSendable
<1>12. Sent' = Sent
  <2>1. Delivered' = Delivered
    BY <1>1, SameDelivered
  <2> QED BY <1>1, <2>1 DEF Sent
<1>13. ConvOK(e)'
  BY <1>3, <1>5, <1>6, <1>8, <1>9, <1>10, <1>11, <1>12 DEF ConvOK
<1> QED BY <1>13 DEF ConvInv

LEMMA RecordConv == IInv /\ CountInv /\ TruncInv /\ ConvInv /\ BlockRecord => ConvInv'
<1> SUFFICES ASSUME IInv, CountInv, TruncInv, ConvInv, BlockRecord PROVE ConvInv'
  OBVIOUS
<1>1. PICK m, s :
        /\ m = NewlineIn(inbuf) - 1 /\ s = Padded(Take(inbuf, Smaller(m, cmd.cbs)), cmd.cbs)
        /\ pc = "conv" /\ Has("BLOCK") /\ ~intrunc /\ (Len(inbuf) >= cmd.cbs \/ Contains(inbuf, NL))
        /\ outbuf' = outbuf \o Translate(s) /\ inbuf' = Drop(inbuf, NewlineIn(inbuf))
        /\ UNCHANGED <<cmd, fed, file, pos, pending>> /\ (pc' = "conv" \/ (pc' = "out" /\ back' = "conv"))
  BY DEF BlockRecord, Emit, StartOut, writer, output
<1>2. Active /\ Going /\ Going'
  BY <1>1 DEF Active, Going, Closed, Succeeded
<1>3. PICK c : ConvOK(c) /\ c \in Seq(Bytes) /\ Joined(c, inbuf, fed) /\ Clean(c)
  BY <1>1, <1>2, BlockState
<1>4. PICK i, f, j, w : i = inbuf /\ f = fed /\ j = inbuf' /\ w = cmd.cbs
  OBVIOUS
<1>5. i \in Seq(Bytes) /\ f \in Seq(Bytes) /\ f = Input /\ w \in Nat /\ w > 0
  <2>1. cmd.cbs > 0
    BY <1>1, Facts DEF Records
  <2> QED BY <1>1, <1>4, <2>1, LineNumbers DEF IInv, TypeOK, Input
<1>6. \E e, y \in Seq(Bytes) :
        /\ Joined(e, j, f) /\ Lines(e) = Append(Lines(c), y)
        /\ m \in Nat /\ m <= Len(i) /\ y = Take(i, m)
        /\ Clean(e) \/ Len(y) >= w
  <2>1. CASE Contains(i, NL)
    <3>1. PICK y, x, r : FirstLine(i, y, x, r)
      BY <1>5, <2>1, CutLine
    <3>2. y \in Seq(Bytes) /\ r = j /\ y = Take(i, m) /\ Len(y) = m /\ m \in Nat /\ m <= Len(i)
      <4>1. y \in Seq(Bytes) /\ r = j /\ y = Take(i, m) /\ Len(y) + 1 = NewlineIn(i)
        BY <1>1, <1>4, <3>1 DEF FirstLine
      <4>2. NewlineIn(i) \in Nat /\ NewlineIn(i) <= Len(i)
        BY <1>5, <2>1, NewlineFirst
      <4>3. Len(y) \in Nat /\ Len(i) \in Nat
        BY <1>5, <4>1
      <4>4. m = Len(y)
        BY <1>1, <1>4, <4>1, <4>3
      <4> QED BY <4>1, <4>2, <4>3, <4>4
    <3>3. Joined(c, i, f) /\ c \in Seq(Bytes)
      BY <1>3, <1>4
    <3>4. PICK e \in Seq(Bytes) :
            Joined(e, r, f) /\ Lines(e) = AddPart(Lines(c), Clean(c), y) /\ Clean(e)
      BY <3>1, <3>3, LineTaken
    <3> QED BY <1>3, <3>2, <3>4 DEF AddPart
  <2>2. CASE ~Contains(i, NL)
    <3>1. NoNL(i) /\ j = <<>> /\ m = Len(i) /\ Len(i) >= w /\ Len(i) \in Nat
      BY <1>1, <1>4, <1>5, <2>2, NoNewline
    <3>2. i # <<>>
      BY <1>5, <3>1
    <3>3. Lines(f) = Append(Lines(c), i)
      BY <1>3, <1>4, <1>5, <3>1, <3>2, RestTaken DEF AddPart
    <3>4. Joined(f, <<>>, f)
      BY <1>5, JoinEmpty
    <3>5. Take(i, m) = i
      BY <1>5, <3>1 DEF Take
    <3> QED BY <1>5, <3>1, <3>3, <3>4, <3>5
  <2> QED BY <2>1, <2>2
<1>7. PICK e \in Seq(Bytes), y \in Seq(Bytes) :
        /\ Joined(e, j, f) /\ Lines(e) = Append(Lines(c), y)
        /\ m \in Nat /\ m <= Len(i) /\ y = Take(i, m)
        /\ Clean(e) \/ Len(y) >= w
  BY <1>6
<1>8. s = BlockOf(y)
  BY <1>1, <1>4, <1>5, <1>7, BlockSent
<1>9. Translate(s) \in Seq(Bytes)
  <2>1. s \in Seq(Bytes)
    BY <1>7, <1>8, BlockOfFacts DEF IsBlock
  <2> QED BY <2>1, TranslateLen
<1>10. Whole(e)
  <2>1. ~Has("UNBLOCK")
    BY <1>1, Facts
  <2>2. PICK d, g : d = Lines(c) /\ g = Lines(e)
    OBVIOUS
  <2>3. d \in Seq(Seq(Bytes)) /\ g = Append(d, y)
    BY <1>3, <1>7, <2>2, LinesType
  <2>4. g # <<>> /\ g[Len(g)] = y
    <3>1. PICK E : E = Seq(Bytes)
      OBVIOUS
    <3>2. d \in Seq(E) /\ y \in E
      BY <2>3, <3>1
    <3>3. g \in Seq(E) /\ Len(g) = Len(d) + 1 /\ g[Len(d) + 1] = y /\ Len(d) \in Nat
      BY <2>3, <3>2
    <3> QED BY <3>3
  <2> QED BY <1>4, <1>7, <2>1, <2>2, <2>4 DEF Whole
<1>11. Joined(Out(c), Translate(s), Out(e))
  <2>1. Joined(Translate(Blocked(c)), Translate(BlockOf(y)), Translate(Blocked(e)))
    BY <1>3, <1>7, BlockedAppend
  <2> QED BY <1>1, <1>8, <2>1 DEF Out
<1>12. Joined(outbuf, Translate(s), outbuf')
  BY <1>1 DEF Joined
<1>13. Joined(e, inbuf', Input)
  BY <1>4, <1>5, <1>7
<1> QED BY <1>1, <1>2, <1>3, <1>7, <1>9, <1>10, <1>11, <1>12, <1>13, OneStep

LEMMA UnblockConv == IInv /\ CountInv /\ ConvInv /\ UnblockRecord => ConvInv'
<1> SUFFICES ASSUME IInv, CountInv, ConvInv, UnblockRecord PROVE ConvInv'
  OBVIOUS
<1>1. PICK x, s :
        /\ x = Take(inbuf, cmd.cbs) /\ s = Append(Stripped(x), NL)
        /\ pc = "conv" /\ Has("UNBLOCK") /\ Len(inbuf) >= cmd.cbs
        /\ outbuf' = outbuf \o s /\ inbuf' = Drop(inbuf, cmd.cbs)
        /\ UNCHANGED <<cmd, fed, file, pos, pending>> /\ (pc' = "conv" \/ (pc' = "out" /\ back' = "conv"))
  BY DEF UnblockRecord, Emit, StartOut, writer, output
<1>2. Active /\ Going /\ Going'
  BY <1>1 DEF Active, Going, Closed, Succeeded
<1>3. PICK c : ConvOK(c)
  BY DEF ConvInv
<1>4. PICK i, f, r, w : i = inbuf /\ f = Input /\ r = inbuf' /\ w = cmd.cbs
  OBVIOUS
<1>5. i \in Seq(Bytes) /\ f \in Seq(Bytes) /\ w \in Nat /\ w > 0 /\ ~Has("BLOCK")
  <2>1. cmd.cbs > 0 /\ ~Has("BLOCK")
    BY <1>1, Facts DEF Records
  <2> QED BY <1>4, <2>1, LineNumbers, InputType DEF IInv, TypeOK
<1>6. c \in Seq(Bytes) /\ Joined(c, i, f) /\ \E k \in Nat : Len(c) = k * cmd.cbs
  BY <1>1, <1>2, <1>3, <1>4 DEF ConvOK, Whole
<1>7. PICK k \in Nat : Len(c) = k * cmd.cbs
  BY <1>6
<1>8. Split(i, w, x, r)
  BY <1>1, <1>4, <1>5, SplitFacts
<1>9. x \in Seq(Bytes) /\ r \in Seq(Bytes) /\ Len(x) = w /\ Joined(x, r, i)
  BY <1>8 DEF Split
<1>10. PICK e : Joined(c, x, e)
  BY DEF Joined
<1>11. e \in Seq(Bytes) /\ Joined(e, r, f)
  BY <1>6, <1>9, <1>10, JoinMove, Zenon
<1>12. Unblocked(e) = Unblocked(c) \o s
  <2>1. x # <<>>
    BY <1>5, <1>9
  <2>2. cmd.cbs > 0 /\ Len(x) <= cmd.cbs
    BY <1>4, <1>5, <1>9
  <2>3. c \in Seq(Bytes) /\ x \in Seq(Bytes)
    BY <1>6, <1>9
  <2>4. LinesMore(c, x, e)
    BY <1>7, <1>10, <2>2, <2>3, UnblockedMore
  <2> QED BY <1>1, <2>1, <2>2, <2>4 DEF LinesMore
<1>13. Whole(e)
  <2>1. Len(e) = k * w + w
    <3>1. JoinFacts(c, x, e)
      BY <1>6, <1>9, <1>10, JoinedFacts
    <3> QED BY <1>4, <1>7, <1>9, <3>1 DEF JoinFacts
  <2>2. (k + 1) * w = k * w + w
    BY <1>5, Z3
  <2>3. PICK m : m = k + 1
    OBVIOUS
  <2>4. m \in Nat /\ Len(e) = m * cmd.cbs
    BY <1>4, <2>1, <2>2, <2>3
  <2> QED BY <1>5, <2>4 DEF Whole
<1>14. Joined(Out(c), s, Out(e))
  BY <1>1, <1>5, <1>12 DEF Out, Joined
<1>15. s \in Seq(Bytes) /\ Joined(outbuf, s, outbuf')
  BY <1>1, <1>9, StrippedLine DEF Joined
<1>16. Joined(e, inbuf', Input)
  BY <1>4, <1>11
<1> QED BY <1>1, <1>2, <1>3, <1>11, <1>13, <1>14, <1>15, <1>16, OneStep

\* dd_close() converts the rest.
LEMMA CloseConv == IInv /\ CountInv /\ TruncInv /\ ConvInv /\ Close => ConvInv'
<1> SUFFICES ASSUME IInv, CountInv, TruncInv, ConvInv, Close PROVE ConvInv'
  OBVIOUS
<1>1. /\ pc = "close" /\ inbuf' = <<>> /\ outbuf' = PadOutput(outbuf \o LastRecord)
      /\ UNCHANGED <<cmd, fed, file, pos, pending>> /\ (pc' = "end" \/ (pc' = "out" /\ back' = "end"))
  BY DEF Close, StartOut, writer, output
<1>2. Active /\ Going /\ ~Going'
  BY <1>1 DEF Active, Going, Closed, Succeeded
<1>3. PICK i, f, s, o : i = inbuf /\ f = Input /\ s = LastRecord /\ o = outbuf
  OBVIOUS
<1>4. i \in Seq(Bytes) /\ f \in Seq(Bytes) /\ o \in Seq(Bytes)
  BY <1>3, InputType DEF IInv, TypeOK
<1>5. /\ Records => Len(i) < cmd.cbs
      /\ ~Records => i = <<>>
  BY <1>1, <1>3 DEF IInv, InInv
<1>6. s \in Seq(Bytes)
  BY <1>3, <1>4, <1>5, Facts, LastRecordLen
<1>7. Joined(f, inbuf', f)
  BY <1>1, <1>4, JoinEmpty
<1>8. /\ (\A h : Has(h)' = Has(h)) /\ HolesAreNUL' = HolesAreNUL /\ Input' = Input /\ Out(f)' = Out(f)
      /\ UnfinishedRecord' = UnfinishedRecord
  BY <1>1, SameLine, SameInputBytes, SameOut
<1>9. Sendable' => Sendable /\ ~Has("OSYNC") /\ ~(Has("UCASE") /\ UnfinishedRecord)
  BY <1>2, <1>8 DEF Sendable
<1>10. PICK c : ConvOK(c) /\ (Has("BLOCK") => (intrunc <=> ~Clean(c)) /\ (IF intrunc THEN inbuf = <<>> ELSE NoNL(inbuf)))
  <2>1. CASE Has("BLOCK")
    BY <1>1, <1>2, <2>1, BlockState
  <2>2. CASE ~Has("BLOCK")
    BY <2>2 DEF ConvInv
  <2> QED BY <2>1, <2>2
<1>11. c \in Seq(Bytes) /\ Joined(c, i, f) /\ Whole(c) /\ (Sendable => Sent = Out(c))
  BY <1>2, <1>3, <1>10 DEF ConvOK
<1>12. ASSUME Sendable' PROVE Joined(Out(c), s, Out(f))
  <2>1. CASE i = <<>>
    <3>1. s = <<>>
      BY <1>3, <2>1 DEF LastRecord
    <3>2. f = c
      BY <1>11, <2>1, JoinEmpty
    <3>3. Out(c) \in Seq(Bytes)
      <4>1. Sent \in Seq(Bytes)
        BY <1>2, SentFacts
      <4> QED BY <1>9, <1>11, <1>12, <4>1
    <3> QED BY <3>1, <3>2, <3>3, JoinEmpty
  <2>2. CASE i # <<>> /\ Has("BLOCK")
    <3>1. NoNL(i) /\ Clean(c) /\ f = fed
      BY <1>3, <1>10, <2>2 DEF Input
    <3>2. Lines(f) = Append(Lines(c), i) /\ ~Clean(f)
      <4>1. f = c \o i
        BY <1>11 DEF Joined
      <4>2. Lines(f) = AddPart(Lines(c), Clean(c), i) /\ ~Clean(f)
        BY <1>4, <1>11, <2>2, <3>1, <4>1, LinesOfPart
      <4> QED BY <3>1, <4>2 DEF AddPart
    <3>3. UnfinishedRecord
      <4>1. f # <<>> /\ f[Len(f)] # NL
        BY <3>2 DEF Clean
      <4>2. PICK d, g, E : d = Lines(c) /\ g = Lines(f) /\ E = Seq(Bytes)
        OBVIOUS
      <4>3. d \in Seq(E) /\ i \in E /\ g = Append(d, i)
        BY <1>4, <1>11, <3>2, <4>2, LinesType
      <4>4. g \in Seq(E) /\ Len(g) = Len(d) + 1 /\ g[Len(d) + 1] = i /\ Len(d) \in Nat
        BY <4>3
      <4>5. Len(g[Len(g)]) < cmd.cbs
        BY <1>5, <2>2, <4>4 DEF Records
      <4> QED BY <2>2, <3>1, <4>1, <4>2, <4>5 DEF UnfinishedRecord
    <3>4. ~Has("UCASE")
      BY <1>9, <1>12, <3>3
    <3>5. s = Translate(BlockOf(i))
      <4>1. PICK w, m : w = cmd.cbs /\ m = Len(i)
        OBVIOUS
      <4>2. w \in Nat /\ m \in Nat /\ m < w
        BY <1>4, <1>5, <2>2, <4>1, LineNumbers DEF Records
      <4>3. Padded(Take(i, Smaller(m, w)), w) = BlockOf(Take(i, m))
        BY <1>4, <4>1, <4>2, BlockSent
      <4>4. Smaller(m, w) = m /\ Take(i, m) = i
        BY <1>4, <4>1, <4>2 DEF Smaller, Take
      <4>5. s = Padded(i, w)
        <5>1. Upper(SP) = SP /\ PadByte = SP
          BY <2>2 DEF Upper, SP, PadByte, Records
        <5> QED BY <1>3, <2>2, <4>1, <5>1 DEF LastRecord, Padded
      <4>6. s = BlockOf(i)
        BY <4>3, <4>4, <4>5
      <4> QED BY <1>6, <3>4, <4>6, TranslateSame
    <3>6. Joined(Translate(Blocked(c)), Translate(BlockOf(i)), Translate(Blocked(f)))
      BY <1>4, <1>11, <3>2, BlockedAppend
    <3> QED BY <2>2, <3>5, <3>6 DEF Out
  <2>3. CASE i # <<>> /\ ~Has("BLOCK")
    <3>1. Has("UNBLOCK")
      BY <1>5, <2>3 DEF Records
    <3>2. cmd.cbs > 0 /\ Len(i) <= cmd.cbs
      <4>1. cmd.cbs > 0 /\ Len(i) < cmd.cbs
        BY <1>5, <3>1, Facts DEF Records
      <4>2. cmd.cbs \in Nat /\ Len(i) \in Nat
        BY <1>4, LineNumbers
      <4> QED BY <4>1, <4>2
    <3>3. PICK k \in Nat : Len(c) = k * cmd.cbs
      BY <1>11, <3>1 DEF Whole
    <3>4. LinesMore(c, i, f)
      BY <1>4, <1>11, <3>2, <3>3, UnblockedMore
    <3>5. s = Append(Stripped(i), NL)
      BY <1>3, <2>3 DEF LastRecord
    <3> QED BY <2>3, <3>1, <3>2, <3>4, <3>5 DEF Out, LinesMore, Joined
  <2> QED BY <2>1, <2>2, <2>3
<1>13. ASSUME Sendable' PROVE Sent' = Out(f)
  <2>1. Joined(outbuf, s, outbuf')
    <3>1. PadOutput(outbuf \o LastRecord) = outbuf \o LastRecord
      BY <1>9, <1>13 DEF PadOutput, NothingToPad
    <3> QED BY <1>1, <1>3, <3>1 DEF Joined
  <2>2. Joined(Sent, s, Sent')
    BY <1>1, <1>2, <1>6, <2>1, SendMore
  <2>3. Sent = Out(c) /\ Joined(Out(c), s, Out(f))
    BY <1>9, <1>11, <1>12, <1>13
  <2> QED BY <2>2, <2>3 DEF Joined
<1>14. ConvOK(f)'
  BY <1>1, <1>2, <1>3, <1>4, <1>7, <1>8, <1>13 DEF ConvOK
<1> QED BY <1>14 DEF ConvInv

LEMMA NextConv ==
  IInv /\ CountInv /\ KeptInv /\ WrittenInv /\ TruncInv /\ ConvInv /\ [Next]_vars => ConvInv'
<1> SUFFICES ASSUME IInv, CountInv, KeptInv, WrittenInv, TruncInv, ConvInv, [Next]_vars PROVE ConvInv'
  OBVIOUS
<1>1. /\ cmd' = cmd
      /\ \/ Settles \/ Quiet \/ (\E x : Takes(x))
         \/ ConvertNone \/ Def \/ BlockToss \/ BlockRecord \/ UnblockRecord \/ Close
  BY Kinds
<1> QED BY <1>1, SettlesConv, QuietConv, TakesConv, PlainConv, TossConv, RecordConv, UnblockConv, CloseConv

\* The conversion of what has been read is there, but for what is left in the input buffer.
THEOREM ConvInvariance ==
  Spec => [](IInv /\ CountInv /\ KeptInv /\ WrittenInv /\ TruncInv /\ ConvInv)
<1>1. Init => IInv /\ CountInv /\ KeptInv /\ WrittenInv /\ TruncInv /\ ConvInv
  BY InitInv, InitCount, InitKept, InitWritten, InitTrunc, InitConv
<1>2. IInv /\ CountInv /\ KeptInv /\ WrittenInv /\ TruncInv /\ ConvInv /\ [Next]_vars
        => (IInv /\ CountInv /\ KeptInv /\ WrittenInv /\ TruncInv /\ ConvInv)'
  BY NextInv, NextCount, NextKept, NextWritten, NextTrunc, NextConv
<1> QED BY <1>1, <1>2, PTL DEF Spec

----------------------------------------------------------------------------
(***************************************************************************)
(* What is written is the conversion of what was read, and with osync its  *)
(* padding.                                                                *)
(***************************************************************************)

LEMMA DeliveredType == ASSUME IInv PROVE Delivered \in Seq(Bytes)
<1>1. PICK d, k, f, p, b : /\ d = Delivered /\ k = (pos - Base) + pending /\ f = file /\ p = pos - Base
                           /\ b = Base
  OBVIOUS
<1>2. k \in Int /\ f \in Seq(Bytes) /\ p \in Int /\ b \in Nat /\ Len(f) \in Nat
  <2>1. pos \in Nat /\ Base \in Nat /\ pending \in Nat
    BY LineNumbers, Offsets
  <2>2. f \in Seq(Bytes)
    BY <1>1 DEF IInv, TypeOK
  <2>3. Len(f) \in Nat
    BY <2>2
  <2>4. k \in Int /\ p \in Int /\ b \in Nat
    BY <1>1, <2>1
  <2> QED BY <2>2, <2>3, <2>4
<1>3. d = [i \in 1 .. k |-> IF b + i <= Len(f) /\ i <= p THEN f[b + i] ELSE NUL]
  BY <1>1 DEF Delivered
<1>4. CASE k <= 0
  <2>1. Len(Delivered) = Amount
    BY DeliveredLen
  <2>2. 1 .. k = 1 .. 0
    BY <1>2, <1>4
  <2>3. d = [i \in 1 .. 0 |-> NUL]
    BY <1>3, <2>2
  <2>4. d \in Seq(Bytes)
    BY <2>3
  <2> QED BY <1>1, <2>4
<1>5. CASE ~(k <= 0)
  <2>1. k \in Nat
    BY <1>2, <1>5
  <2>2. ASSUME NEW i \in 1 .. k PROVE (IF b + i <= Len(f) /\ i <= p THEN f[b + i] ELSE NUL) \in Bytes
    <3>1. CASE b + i <= Len(f)
      <4>1. b + i \in 1 .. Len(f)
        BY <1>2, <2>1, <3>1
      <4>2. f[b + i] \in Bytes
        BY <1>2, <4>1
      <4> QED BY <4>2 DEF Bytes
    <3>2. CASE ~(b + i <= Len(f))
      BY <3>2 DEF Bytes
    <3> QED BY <3>1, <3>2
  <2>3. PICK B : B = Bytes
    OBVIOUS
  <2>4. ByIndex(B, k, d)
    BY <1>3, <2>2, <2>3 DEF ByIndex
  <2>5. d \in Seq(B)
    BY <2>1, <2>4, IndexedSeq, Zenon
  <2> QED BY <1>1, <2>3, <2>5
<1> QED BY <1>4, <1>5

LEMMA SentParts ==
  ASSUME IInv
  PROVE  Joined(Delivered, outbuf, Sent) /\ Delivered \in Seq(Bytes) /\ outbuf \in Seq(Bytes) /\ Sent \in Seq(Bytes)
<1>1. PICK d, o, s : d = Delivered /\ o = outbuf /\ s = Sent
  OBVIOUS
<1>2. d \in Seq(Bytes) /\ o \in Seq(Bytes) /\ Joined(d, o, s)
  BY <1>1, DeliveredType DEF IInv, TypeOK, Sent, Joined
<1>3. JoinFacts(d, o, s)
  BY <1>2, JoinedFacts, Zenon
<1> QED BY <1>1, <1>2, <1>3 DEF JoinFacts

LEMMA JoinedPrefix ==
  ASSUME NEW s \in Seq(Bytes), NEW z \in Seq(Bytes), NEW t, Joined(s, z, t)
  PROVE  IsPrefix(s, t)
<1>1. JoinFacts(s, z, t)
  BY JoinedFacts, Zenon
<1>2. /\ t \in Seq(Bytes) /\ Len(s) \in Nat /\ Len(s) <= Len(t)
      /\ \A k \in 1 .. Len(s) : t[k] = s[k]
  <2>1. t \in Seq(Bytes) /\ Len(t) = Len(s) + Len(z) /\ Len(s) \in Nat /\ Len(z) \in Nat
    BY <1>1 DEF JoinFacts
  <2>2. Len(s) <= Len(t)
    BY <2>1
  <2> QED BY <1>1, <2>1, <2>2 DEF JoinFacts
<1>3. SubSeq(t, 1, Len(s)) = SubSeq(s, 1, Len(s))
  BY <1>2, SamePart
<1> QED BY <1>2, <1>3 DEF IsPrefix

\* What has been converted remains when more is read.
LEMMA OutGrows ==
  ASSUME IInv, NEW c \in Seq(Bytes), Joined(c, inbuf, Input), inbuf # <<>> => Whole(c), Out(c) \in Seq(Bytes)
  PROVE  \E r \in Seq(Bytes) : Joined(Out(c), r, Out(Input))
<1>1. PICK i, f : i = inbuf /\ f = Input
  OBVIOUS
<1>2. i \in Seq(Bytes) /\ f \in Seq(Bytes) /\ Joined(c, i, f) /\ (i # <<>> => Whole(c))
  BY <1>1, InputType DEF IInv, TypeOK
<1>3. CASE i = <<>>
  <2>1. f = c
    BY <1>2, <1>3, JoinEmpty
  <2>2. Joined(Out(c), <<>>, Out(c)) /\ <<>> \in Seq(Bytes)
    BY JoinEmpty
  <2> QED BY <1>1, <2>1, <2>2
<1>4. CASE i # <<>> /\ Has("BLOCK")
  <2>1. PICK d, g, b : d = Lines(c) /\ g = Lines(f) /\ b = Clean(c)
    OBVIOUS
  <2>2. d \in Seq(Seq(Bytes)) /\ g \in Seq(Seq(Bytes)) /\ b \in BOOLEAN
    BY <1>2, <2>1, LinesType DEF Clean
  <2>3. Extends(d, b, g)
    <3>1. f = c \o i
      BY <1>2 DEF Joined
    <3> QED BY <1>2, <2>1, <3>1, LinesExtend
  <2>4. b \/ (d # <<>> /\ Len(d[Len(d)]) >= cmd.cbs)
    BY <1>2, <1>4, <2>1 DEF Whole
  <2>5. PICK r \in Seq(Bytes) : FlattenSeq(BlocksOf(g)) = FlattenSeq(BlocksOf(d)) \o r
    BY <2>2, <2>3, <2>4, BlocksPrefix
  <2>6. PICK x, y : x = Blocked(c) /\ y = Blocked(f)
    OBVIOUS
  <2>7. Joined(x, r, y)
    BY <2>1, <2>5, <2>6, BlockedIs DEF Joined
  <2>8. x \in Seq(Bytes)
    <3>1. <<>> \in Seq(Bytes)
      OBVIOUS
    <3>2. FlattenSeq(BlocksOf(d)) \in Seq(Bytes)
      BY <2>2, <3>1, BlocksLine
    <3> QED BY <2>1, <2>6, <3>2, BlockedIs
  <2>9. Joined(Translate(x), Translate(r), Translate(y)) /\ Translate(r) \in Seq(Bytes)
    BY <2>7, <2>8, TranslateJoined, TranslateLen
  <2> QED BY <1>1, <1>4, <2>6, <2>9 DEF Out
<1>5. CASE i # <<>> /\ Has("UNBLOCK")
  <2>1. PICK k \in Nat : Len(c) = k * cmd.cbs
    BY <1>2, <1>5 DEF Whole
  <2>2. cmd.cbs > 0 /\ ~Has("BLOCK")
    BY <1>5, Facts DEF Records
  <2>3. LinesMore(c, i, f)
    BY <1>2, <2>1, <2>2, UnblockedMore
  <2>4. PICK r \in Seq(Bytes) : Unblocked(f) = Unblocked(c) \o r
    BY <2>3 DEF LinesMore
  <2> QED BY <1>1, <1>5, <2>2, <2>4 DEF Out, Joined
<1>6. CASE ~Has("BLOCK") /\ ~Has("UNBLOCK")
  <2>1. Out(c) = c /\ Out(f) = f
    BY <1>6 DEF Out
  <2> QED BY <1>1, <1>2, <2>1
<1> QED BY <1>3, <1>4, <1>5, <1>6

\* At every moment what is written is the beginning of the conversion of what was read,
\* wherever reads and writes were cut short (dd_in(), the conversions, dd_out()).
THEOREM NothingWrongWritten == Spec => []OutputIsPrefix
<1>1. IInv /\ CountInv /\ ConvInv => OutputIsPrefix
  <2> SUFFICES ASSUME IInv, CountInv, ConvInv, Copying, HolesAreNUL, ~Has("OSYNC"), ~UnfinishedRecord
               PROVE  IsPrefix(Delivered, Convert(fed))
    BY DEF OutputIsPrefix
  <2>1. PICK c : ConvOK(c)
    BY DEF ConvInv
  <2>2. Sendable
    BY DEF Sendable
  <2>3. PICK d, o, s, f : d = Delivered /\ o = outbuf /\ s = Sent /\ f = Convert(fed)
    OBVIOUS
  <2>4. d \in Seq(Bytes) /\ o \in Seq(Bytes) /\ s \in Seq(Bytes) /\ Joined(d, o, s) /\ s = Out(c)
    BY <2>1, <2>2, <2>3, SentParts DEF ConvOK
  <2>5. PICK r \in Seq(Bytes) : Joined(s, r, f)
    <3>1. c \in Seq(Bytes) /\ Joined(c, inbuf, Input) /\ (inbuf # <<>> => Whole(c)) /\ Out(c) \in Seq(Bytes)
      BY <2>1, <2>4 DEF ConvOK
    <3>2. \E r \in Seq(Bytes) : Joined(Out(c), r, Out(Input))
      BY <3>1, OutGrows
    <3> QED BY <2>3, <2>4, <3>2, ConvertIs
  <2>6. PICK z : Joined(o, r, z)
    BY DEF Joined
  <2>7. Joined(d, z, f)
    BY <2>4, <2>5, <2>6, JoinAssoc
  <2>8. z \in Seq(Bytes)
    <3>1. JoinFacts(o, r, z)
      BY <2>4, <2>6, JoinedFacts
    <3> QED BY <3>1 DEF JoinFacts
  <2> QED BY <2>3, <2>4, <2>7, <2>8, JoinedPrefix
<1> QED BY <1>1, ConvInvariance, PTL

----------------------------------------------------------------------------
\* The copy that ends well.
LEMMA EndedSent ==
  ASSUME IInv, CountInv, Succeeded
  PROVE  Delivered = Sent
<1>1. outbuf = <<>>
  BY DEF CountInv, Emptied, Closed
<1>2. PICK d, s : d = Delivered /\ s = Sent
  OBVIOUS
<1>3. d \in Seq(Bytes) /\ Joined(d, <<>>, s)
  BY <1>1, <1>2, SentParts
<1>4. s = d
  BY <1>3, JoinEmpty
<1> QED BY <1>2, <1>4

LEMMA Ended ==
  ASSUME IInv, CountInv, ConvInv, Succeeded, HolesAreNUL, ~Has("OSYNC"), ~(UnfinishedRecord /\ Has("UCASE"))
  PROVE  Delivered = Convert(fed)
<1>1. inbuf = <<>> /\ outbuf = <<>>
  BY DEF CountInv, Emptied, Closed
<1>2. PICK c : ConvOK(c)
  BY DEF ConvInv
<1>3. PICK f : f = Input
  OBVIOUS
<1>4. c \in Seq(Bytes) /\ Joined(c, <<>>, f)
  BY <1>1, <1>2, <1>3 DEF ConvOK
<1>5. f = c
  BY <1>4, JoinEmpty
<1>6. Sendable
  BY DEF Sendable
<1>7. Sent = Out(Input)
  BY <1>2, <1>3, <1>5, <1>6 DEF ConvOK
<1>8. Delivered = Sent
  BY EndedSent
<1> QED BY <1>7, <1>8, ConvertIs

\* It has read the whole input.
LEMMA AllRead ==
  ASSUME IInv, CountInv, InputInv, Succeeded, cmd.cpy_cnt = 0, cmd.bad = {}, ~Has("SYNC"), ~Has("SWAB")
  PROVE  fed = Drop(cmd.src, Start)
<1>1. rbuf = <<>> /\ (CountReached \/ AtEnd)
  BY DEF CountInv, Emptied, Closed, InputInv, Over
<1>2. inpos >= Len(cmd.src)
  BY <1>1 DEF CountReached, AtEnd
<1>3. PICK s, p, l, k, f, d : /\ s = cmd.src /\ p = Start /\ l = Len(cmd.src) /\ k = Len(fed) /\ f = fed
                              /\ d = Drop(cmd.src, Start)
  OBVIOUS
<1>4. s \in Seq(Bytes) /\ l = Len(s) /\ l \in Nat /\ p \in Nat /\ k \in Nat /\ k = Len(f) /\ f \in Seq(Bytes)
  BY <1>3, InputNumbers, BufNumbers DEF IInv, TypeOK
<1>5. /\ inpos = Start + Len(fed) + Len(rbuf)
      /\ Len(fed) + Len(rbuf) > 0 => inpos <= Len(cmd.src)
      /\ \A i \in 1 .. Len(fed) : fed[i] = cmd.src[Start + i]
  BY DEF InputInv, Faithful
<1>6. Len(rbuf) = 0
  BY <1>1
<1>7. p + k >= l /\ (k > 0 => p + k <= l)
  BY <1>2, <1>3, <1>4, <1>5, <1>6
<1>8. \A i \in 1 .. k : f[i] = s[p + i]
  BY <1>3, <1>5
<1>9. d \in Seq(Bytes) /\ Len(d) = (IF p <= l THEN l - p ELSE 0) /\ \A i \in 1 .. Len(d) : d[i] = s[p + i]
  BY <1>3, <1>4, DropFacts
<1>10. Len(d) = k
  <2>1. PICK m : m = Len(d)
    OBVIOUS
  <2>2. m = (IF p <= l THEN l - p ELSE 0) /\ l \in Nat /\ p \in Nat /\ k \in Nat
    BY <1>4, <1>9, <2>1
  <2>3. p + k >= l /\ (k > 0 => p + k <= l)
    BY <1>7
  <2>4. m = k
    BY <2>2, <2>3
  <2> QED BY <2>1, <2>4
<1>11. f = d
  <2>1. \A i \in 1 .. Len(f) : f[i] = d[i]
    BY <1>4, <1>8, <1>9, <1>10
  <2>2. Len(f) = Len(d)
    BY <1>4, <1>10
  <2> QED BY <1>4, <1>9, <2>1, <2>2, SeqEqual, Zenon
<1> QED BY <1>3, <1>11

\* TypeOK, the counts, the input, what is written and what is converted, at every step.
THEOREM WholeInvariance ==
  Spec => [](IInv /\ CountInv /\ KeptInv /\ WrittenInv /\ InputInv /\ ConvInv)
<1> QED BY ConvInvariance, InputInvariance, PTL

\* A copy that ends well has converted and written the whole input (dd_in(), dd_close()).
THEOREM NothingMissing == Spec => []CopyComplete
<1>1. IInv /\ CountInv /\ WrittenInv /\ InputInv /\ ConvInv => CopyComplete
  <2> SUFFICES ASSUME IInv, CountInv, WrittenInv, InputInv, ConvInv,
                      Succeeded, HolesAreNUL, cmd.cpy_cnt = 0, cmd.bad = {},
                      ~Has("SYNC"), ~Has("SWAB"), ~Has("OSYNC"), ~(UnfinishedRecord /\ Has("UCASE"))
               PROVE  /\ Delivered = Convert(Drop(cmd.src, cmd.skip * cmd.ibs))
                      /\ cmd.outpipe \/ Delivered = <<>> \/ Len(file) >= Base + Len(Delivered)
    BY DEF CopyComplete
  <2>1. Delivered = Convert(fed)
    BY Ended
  <2>2. fed = Drop(cmd.src, cmd.skip * cmd.ibs)
    BY AllRead DEF Start
  <2>3. cmd.outpipe \/ Delivered = <<>> \/ Len(file) >= Base + Len(Delivered)
    <3>1. PICK d, p, q, b, l : d = Delivered /\ p = pos /\ q = pending /\ b = Base /\ l = Len(file)
      OBVIOUS
    <3>2. p \in Nat /\ b \in Nat /\ q = 0 /\ p >= b
      BY <3>1, Offsets, LineNumbers DEF CountInv, Emptied, CountedOut
    <3>3. Len(d) = p - b /\ d \in Seq(Bytes)
      <4>1. Len(d) = Amount /\ d \in Seq(Bytes)
        BY <3>1, DeliveredLen, DeliveredType
      <4>2. Amount = IF (p - b) + q > 0 THEN (p - b) + q ELSE 0
        BY <3>1 DEF Amount
      <4> QED BY <3>2, <4>1, <4>2
    <3>4. cmd.outpipe \/ p = b \/ p <= l
      BY <3>1 DEF WrittenInv, Reached, Succeeded
    <3>5. CASE p = b
      BY <3>1, <3>2, <3>3, <3>5
    <3>6. CASE p <= l
      <4>1. l \in Nat
        BY <3>1 DEF IInv, TypeOK
      <4>2. l >= b + Len(d)
        BY <3>2, <3>3, <3>6, <4>1
      <4> QED BY <3>1, <4>2
    <3> QED BY <3>4, <3>5, <3>6
  <2> QED BY <2>1, <2>2, <2>3
<1> QED BY <1>1, WholeInvariance, PTL

----------------------------------------------------------------------------
\* conv=osync: until dd_close(), whole blocks are written.
Aligned ==
  Has("OSYNC") /\ Going /\ Active =>
    /\ pc = "out" => ~force
    /\ \E k \in Nat : st.bytes + (IF pc = "out" THEN cnt ELSE 0) = k * cmd.obs

\* The padding that makes whole blocks of s.
FinalPad(s) == Fill(PadByte, (cmd.obs - (Len(s) % cmd.obs)) % cmd.obs)

\* dd_close() pads the last block.
Padding ==
  Has("OSYNC") /\ ~Records /\ HolesAreNUL /\ Closed => Sent = Convert(fed) \o FinalPad(Convert(fed))

LEMMA ModRest ==
  ASSUME NEW k \in Nat, NEW w \in Nat, NEW l \in Nat, l < w
  PROVE  (k * w + l) % w = l
  OBVIOUS

LEMMA ModLack ==
  ASSUME NEW w \in Nat, NEW l \in Nat, l < w
  PROVE  (w - l) % w = IF l = 0 THEN 0 ELSE w - l
  OBVIOUS

LEMMA InitAligned == Init => Aligned /\ Padding
<1> SUFFICES ASSUME Init PROVE Aligned /\ Padding
  OBVIOUS
<1>1. pc = "open"
  BY DEF Init
<1> QED BY <1>1 DEF Aligned, Padding, Active, Closed, Succeeded

\* A step that writes nothing.
LEMMA SameAligned ==
  ASSUME IInv, Aligned, cmd' = cmd, st'.bytes = st.bytes, Going, Active, pc # "out",
         pc' = "out" => ~force' /\ cnt' = cmd.obs
  PROVE  Aligned'
<1>1. cmd.obs' = cmd.obs /\ \A f : Has(f)' = Has(f)
  BY SameLine
<1>2. ASSUME Has("OSYNC") PROVE \E k \in Nat : st'.bytes + (IF pc' = "out" THEN cnt' ELSE 0) = k * cmd.obs
  <2>1. PICK k \in Nat : st.bytes + 0 = k * cmd.obs
    BY <1>2 DEF Aligned
  <2>2. PICK b, w : b = st.bytes /\ w = cmd.obs
    OBVIOUS
  <2>3. b \in Nat /\ w \in Nat /\ b + 0 = k * w
    BY <2>1, <2>2, StatNumbers, LineNumbers
  <2>4. CASE pc' = "out"
    <3>1. PICK m : m = k + 1
      OBVIOUS
    <3>2. (k + 1) * w = k * w + w
      BY <2>3, Z3
    <3>3. m \in Nat /\ b + w = m * w
      <4>1. k * w = b
        BY <2>3
      <4> QED BY <3>1, <3>2, <4>1
    <3> QED BY <2>2, <2>4, <3>3
  <2>5. CASE pc' # "out"
    BY <2>2, <2>3, <2>5
  <2> QED BY <2>4, <2>5
<1> QED BY <1>1, <1>2 DEF Aligned

\* What is written of a block, and what is left of it, is the block.
LEMMA AdvanceAligned ==
  ASSUME IInv, Aligned, cmd' = cmd, pc = "out", NEW nw \in Nat, nw <= cnt, NEW k, Advance(nw, k)
  PROVE  Aligned'
<1>1. /\ st' = Counted(nw) /\ force' = force /\ back' = back
      /\ IF nw < cnt THEN cnt' = cnt - nw /\ pc' = pc ELSE cnt' = cmd.obs /\ pc' = (IF Due(outbuf') THEN "out" ELSE back)
  BY DEF Advance
<1>2. st'.bytes = st.bytes + nw
  <2>1. st \in [DOMAIN NoStats -> Nat]
    BY DEF IInv, TypeOK
  <2> QED BY <1>1, <2>1 DEF Counted, NoStats
<1>3. \A f : Has(f)' = Has(f)
  BY SameLine
<1>4. ASSUME Has("OSYNC"), Going'
      PROVE  ~force /\ \E j \in Nat : st'.bytes + (IF pc' = "out" THEN cnt' ELSE 0) = j * cmd.obs
  <2>1. Going /\ Active
    <3>1. back # "end"
      <4>1. pc' \in {"out", back}
        BY <1>1
      <4> QED BY <1>1, <1>4, <4>1 DEF Going, Closed
    <3> QED BY <3>1 DEF Going, Closed, Active, Succeeded
  <2>2. PICK j \in Nat : st.bytes + cnt = j * cmd.obs
    BY <1>4, <2>1 DEF Aligned
  <2>3. ~force
    BY <1>4, <2>1 DEF Aligned
  <2>4. PICK b, w, c, p : b = st.bytes /\ w = cmd.obs /\ c = cnt /\ p = j * cmd.obs
    OBVIOUS
  <2>5. b \in Nat /\ w \in Nat /\ c \in Nat /\ b + c = p /\ nw <= c
    BY <2>2, <2>4, StatNumbers, LineNumbers, Offsets
  <2>6. CASE nw < cnt
    <3>1. st'.bytes = b + nw /\ pc' = "out" /\ cnt' = c - nw
      BY <1>1, <1>2, <2>4, <2>6
    <3>2. (b + nw) + (c - nw) = p
      BY <2>5
    <3> QED BY <2>3, <2>4, <3>1, <3>2
  <2>7. CASE ~(nw < cnt)
    <3>1. st'.bytes = b + nw /\ cnt' = w
      BY <1>1, <1>2, <2>4, <2>7
    <3>2. b + nw = p
      BY <2>4, <2>5, <2>7
    <3>3. CASE pc' = "out"
      <4>1. PICK m : m = j + 1
        OBVIOUS
      <4>2. (j + 1) * w = j * w + w
        BY <2>5, Z3
      <4>3. m \in Nat /\ p + w = m * w
        BY <2>4, <4>1, <4>2
      <4> QED BY <2>3, <2>4, <3>1, <3>2, <3>3, <4>3
    <3>4. CASE pc' # "out"
      <4>1. p + 0 = p
        BY <2>5
      <4> QED BY <2>3, <2>4, <3>1, <3>2, <3>4, <4>1
    <3> QED BY <3>3, <3>4
  <2> QED BY <2>6, <2>7
<1> QED BY <1>1, <1>3, <1>4 DEF Aligned

LEMMA NextAligned ==
  IInv /\ CountInv /\ WrittenInv /\ Aligned /\ cmd' = cmd /\ [Next]_vars => Aligned'
<1> SUFFICES ASSUME IInv, CountInv, WrittenInv, Aligned, cmd' = cmd, [Next]_vars PROVE Aligned'
  OBVIOUS
<1>1. CASE Open \/ SkipRead \/ SkipEnd \/ Seek
  <2>1. pc \in {"open", "skip", "seek"} /\ st' = st /\ pc' \in {"skip", "seek", "loop", "exit"}
    BY <1>1 DEF Open, SkipRead, SkipEnd, Seek, Exit
  <2>2. st'.bytes = 0
    BY <2>1 DEF CountInv, Untouched, NoStats
  <2>3. PICK w : w = cmd.obs
    OBVIOUS
  <2>4. w \in Nat /\ st'.bytes + 0 = 0 * w
    BY <2>2, <2>3, LineNumbers
  <2> QED BY <2>1, <2>3, <2>4 DEF Aligned, Active
<1>2. CASE Limit \/ (\E k \in 1 .. cmd.ibs : ReadData(k)) \/ ReadEnd \/ ReadError
  <2>1. ASSUME NEW r, Accept(r) PROVE st'.bytes = st.bytes /\ pc' # "out"
    <3>1. \E a, b, c : st' = [st EXCEPT !.in_full = a, !.in_part = b, !.swab = c]
      BY <2>1 DEF Accept
    <3>2. st \in [DOMAIN NoStats -> Nat]
      BY DEF IInv, TypeOK
    <3> QED BY <2>1, <3>1, <3>2 DEF Accept, NoStats
  <2>2. st'.bytes = st.bytes /\ pc' # "out"
    <3>1. CASE Limit
      BY <3>1 DEF Limit
    <3>2. CASE \E k \in 1 .. cmd.ibs : ReadData(k)
      BY <2>1, <3>2 DEF ReadData
    <3>3. CASE ReadEnd
      BY <2>1, <3>3 DEF ReadEnd
    <3>4. CASE ReadError
      BY <2>1, <3>4 DEF ReadError, Exit
    <3> QED BY <1>2, <3>1, <3>2, <3>3, <3>4
  <2>3. pc \in {"loop", "fill"}
    BY <1>2 DEF Limit, ReadData, ReadEnd, ReadError, Reading
  <2> QED BY <2>2, <2>3, SameAligned DEF Going, Active, Closed, Succeeded
<1>3. CASE ConvertNone
  <2>1. ~Has("OSYNC")
    BY <1>3 DEF ConvertNone, Unbuffered, Has
  <2> QED BY <2>1, SameLine DEF Aligned
<1>4. CASE Def \/ BlockToss \/ BlockShort \/ BlockRecord \/ UnblockRecord \/ UnblockShort
  <2>1. ASSUME NEW s, NEW rest, NEW k, Emit(s, rest, k), k # "out" PROVE pc' = "out" => ~force' /\ cnt' = cmd.obs
    BY <2>1 DEF Emit, StartOut
  <2>2. pc' = "out" => ~force' /\ cnt' = cmd.obs
    <3>1. CASE Def
      BY <2>1, <3>1 DEF Def
    <3>2. CASE BlockRecord
      BY <2>1, <3>2 DEF BlockRecord
    <3>3. CASE UnblockRecord
      BY <2>1, <3>3 DEF UnblockRecord
    <3>4. CASE BlockToss \/ BlockShort \/ UnblockShort
      BY <3>4 DEF BlockToss, BlockShort, UnblockShort
    <3> QED BY <1>4, <3>1, <3>2, <3>3, <3>4
  <2>3. st'.bytes = st.bytes /\ pc = "conv"
    <3>1. st \in [DOMAIN NoStats -> Nat]
      BY DEF IInv, TypeOK
    <3>2. CASE BlockRecord
      <4>1. \E a : st' = [st EXCEPT !.trunc = a]
        BY <3>2 DEF BlockRecord
      <4> QED BY <3>1, <3>2, <4>1 DEF NoStats, BlockRecord
    <3>3. CASE Def \/ BlockToss \/ BlockShort \/ UnblockRecord \/ UnblockShort
      BY <3>3 DEF Def, BlockToss, BlockShort, UnblockRecord, UnblockShort
    <3> QED BY <1>4, <3>2, <3>3
  <2> QED BY <2>2, <2>3, SameAligned DEF Going, Active, Closed, Succeeded
<1>5. CASE WriteHole
  <2>1. pc = "out" /\ Advance(cnt, seek_offset) /\ cnt \in Nat /\ cnt <= cnt
    BY <1>5, Offsets DEF WriteHole
  <2> QED BY <2>1, AdvanceAligned
<1>6. CASE \E nw \in 1 .. cnt : WriteData(nw)
  <2>1. PICK nw \in 1 .. cnt : WriteData(nw)
    BY <1>6
  <2>2. pc = "out" /\ Advance(nw, 0) /\ nw \in Nat /\ nw <= cnt
    BY <2>1, Offsets DEF WriteData
  <2> QED BY <2>2, AdvanceAligned
<1>7. CASE WriteNothing
  <2>1. pc = "out" /\ cnt = 0 /\ pc' = back
    BY <1>7 DEF WriteNothing
  <2>2. pc' = "end"
    BY <2>1 DEF WrittenInv, Forced
  <2> QED BY <2>2 DEF Aligned, Going, Closed
<1>8. CASE WriteFails \/ Close \/ End
  <2>1. pc' = "exit" \/ pc' = "end" \/ (pc' = "out" /\ back' = "end")
    BY <1>8 DEF WriteFails, Close, End, Exit, StartOut
  <2> QED BY <2>1 DEF Aligned, Going, Closed
<1>9. CASE UNCHANGED vars
  <2>1. UNCHANGED <<cmd, pc, force, back, st, cnt, code>>
    BY <1>9 DEF vars
  <2> QED BY <2>1, SameLine DEF Aligned, Going, Closed, Active, Succeeded
<1> QED BY <1>1, <1>2, <1>3, <1>4, <1>5, <1>6, <1>7, <1>8, <1>9 DEF Next, Copy, Terminating

\* dd_close() and the padding.
LEMMA ClosePadding ==
  ASSUME IInv, CountInv, ConvInv, Aligned, Close, Has("OSYNC"), ~Records, HolesAreNUL
  PROVE  Sent' = Convert(fed) \o FinalPad(Convert(fed))
<1>1. /\ pc = "close" /\ outbuf' = PadOutput(outbuf \o LastRecord)
      /\ UNCHANGED <<cmd, fed, file, pos, pending>>
  BY DEF Close, StartOut, writer, output
<1>2. Active /\ Going /\ inbuf = <<>> /\ ~Has("BLOCK") /\ ~Has("UNBLOCK")
  BY <1>1 DEF Active, Going, Closed, Succeeded, IInv, InInv, Records
<1>3. PICK d, o, t, w, q : /\ d = Delivered /\ o = outbuf /\ t = Convert(fed) /\ w = cmd.obs
                           /\ q = FinalPad(Convert(fed))
  OBVIOUS
<1>4. w \in Nat /\ w > 0 /\ o \in Seq(Bytes) /\ Len(o) < w /\ Len(o) \in Nat
  <2>1. Len(outbuf) < cmd.obs
    BY <1>1 DEF IInv, OutInv
  <2> QED BY <1>3, <2>1, LineNumbers, BufNumbers DEF IInv, TypeOK
<1>5. Sent = t
  <2>1. PICK c : ConvOK(c)
    BY DEF ConvInv
  <2>2. PICK f : f = Input
    OBVIOUS
  <2>3. c \in Seq(Bytes) /\ Joined(c, <<>>, f)
    BY <1>2, <2>1, <2>2 DEF ConvOK
  <2>4. f = c
    BY <2>3, JoinEmpty
  <2>5. Sendable
    BY <1>2 DEF Sendable
  <2> QED BY <1>3, <2>1, <2>2, <2>4, <2>5, ConvertIs DEF ConvOK
<1>6. d \in Seq(Bytes) /\ Joined(d, o, t)
  BY <1>3, <1>5, SentParts
<1>7. \E k \in Nat : Len(d) = k * w
  <2>1. \E k \in Nat : st.bytes + 0 = k * w
    BY <1>1, <1>2, <1>3 DEF Aligned
  <2>2. st.bytes = Len(d) /\ st.bytes \in Nat
    BY <1>3, DeliveredLen, StatNumbers DEF CountInv, CountedOut
  <2> QED BY <2>1, <2>2
<1>8. PICK k \in Nat : Len(d) = k * w
  BY <1>7
<1>9. PICK l, m : l = Len(o) /\ m = (w - (Len(t) % w)) % w
  OBVIOUS
<1>10. m = IF l = 0 THEN 0 ELSE w - l
  <2>1. Len(t) = k * w + l
    <3>1. JoinFacts(d, o, t)
      BY <1>4, <1>6, JoinedFacts
    <3> QED BY <1>8, <1>9, <3>1 DEF JoinFacts
  <2>2. Len(t) % w = l
    BY <1>4, <1>9, <2>1, ModRest
  <2> QED BY <1>4, <1>9, <2>2, ModLack
<1>11. q = Fill(PadByte, m) /\ PadByte \in Bytes
  BY <1>3, <1>9, Facts DEF FinalPad
<1>12. m \in Nat /\ l \in Nat /\ l < w
  BY <1>4, <1>9, <1>10
<1>13. q \in Seq(Bytes) /\ Len(q) = m /\ \A i \in 1 .. m : q[i] = PadByte
  <2>1. q \in Seq(Bytes) /\ Len(q) = (IF m > 0 THEN m ELSE 0)
    BY <1>11, <1>12, FillLen
  <2>2. Len(q) = m
    BY <1>12, <2>1
  <2>3. \A i \in 1 .. m : q[i] = PadByte
    BY <1>11 DEF Fill
  <2> QED BY <2>1, <2>2, <2>3
<1>14. outbuf \o LastRecord = o
  <2>1. LastRecord = <<>>
    BY <1>2 DEF LastRecord
  <2> QED BY <1>3, <1>4, <2>1, ConcatEmptySeq
<1>15. Joined(o, q, PadOutput(o))
  <2>1. CASE o = <<>>
    <3>1. l = 0 /\ m = 0
      BY <1>9, <1>10, <2>1
    <3>2. q = <<>>
      BY <1>13, <3>1
    <3>3. PadOutput(o) = o
      BY <2>1 DEF PadOutput, NothingToPad
    <3> QED BY <1>4, <3>2, <3>3, JoinEmpty
  <2>2. CASE o # <<>>
    <3>1. l > 0 /\ m = w - l /\ l + m = w
      <4>1. l > 0
        BY <1>4, <1>9, <2>2
      <4> QED BY <1>4, <1>10, <1>12, <4>1
    <3>2. PICK p : p = PadOutput(o)
      OBVIOUS
    <3>3. ~NothingToPad(o)
      BY <1>3, <1>4, <2>2 DEF NothingToPad
    <3>4. p = [i \in 1 .. w |-> IF i \in l + 1 .. l + w - l THEN PadByte
                                ELSE IF i <= l THEN o[i] ELSE STALE]
      BY <1>2, <1>3, <1>9, <3>2, <3>3 DEF PadOutput
    <3>5. p \in Seq(Bytes) /\ Len(p) = w
      <4>1. p \in Seq(Bytes) /\ Len(p) = (IF NothingToPad(o) THEN Len(o) ELSE cmd.obs)
        BY <1>4, <3>2, Facts, PadOutputLen
      <4> QED BY <1>3, <3>3, <4>1
    <3>6. \A i \in 1 .. l : p[i] = o[i]
      <4> SUFFICES ASSUME NEW i \in 1 .. l PROVE p[i] = o[i]
        OBVIOUS
      <4>1. i \in 1 .. w /\ i <= l
        BY <1>4, <1>12
      <4>2. PICK u : u = l + w - l
        OBVIOUS
      <4>3. u \in Int /\ i \notin l + 1 .. u
        BY <1>4, <1>12, <4>1, <4>2
      <4> QED BY <3>4, <4>1, <4>2, <4>3
    <3>7. \A i \in 1 .. m : p[l + i] = q[i]
      <4> SUFFICES ASSUME NEW i \in 1 .. m PROVE p[l + i] = PadByte
        BY <1>13
      <4>1. PICK j : j = l + i
        OBVIOUS
      <4>2. j \in 1 .. w /\ j \in l + 1 .. l + w - l
        BY <1>12, <3>1, <4>1
      <4> QED BY <3>4, <4>1, <4>2
    <3>8. Len(p) = Len(o) + Len(q)
      BY <1>9, <1>13, <3>1, <3>5
    <3>9. Joined(o, q, p)
      BY <1>4, <1>9, <1>13, <3>5, <3>6, <3>7, <3>8, JoinedIs
    <3> QED BY <3>2, <3>9
  <2> QED BY <2>1, <2>2
<1>16. Joined(outbuf, q, outbuf')
  BY <1>1, <1>3, <1>14, <1>15
<1>17. Joined(Sent, q, Sent')
  BY <1>1, <1>2, <1>13, <1>16, SendMore
<1> QED BY <1>3, <1>5, <1>17 DEF Joined

LEMMA NextPadding ==
  IInv /\ CountInv /\ KeptInv /\ WrittenInv /\ ConvInv /\ Aligned /\ Padding /\ [Next]_vars => Padding'
<1> SUFFICES ASSUME IInv, CountInv, KeptInv, WrittenInv, ConvInv, Aligned, Padding, [Next]_vars,
                    Has("OSYNC")', ~Records', HolesAreNUL', Closed'
             PROVE  Sent' = (Convert(fed) \o FinalPad(Convert(fed)))'
  BY DEF Padding
<1>1. /\ cmd' = cmd
      /\ \/ Settles \/ Quiet \/ (\E x : Takes(x))
         \/ ConvertNone \/ Def \/ BlockToss \/ BlockRecord \/ UnblockRecord \/ Close
  BY Kinds
<1>2. Has("OSYNC") /\ ~Records /\ HolesAreNUL /\ PadByte' = PadByte /\ \A f : Has(f)' = Has(f)
  <2>1. /\ \A f : Has(f)' = Has(f)
        /\ Records' = Records /\ HolesAreNUL' = HolesAreNUL /\ PadByte' = PadByte
    BY <1>1, SameLine
  <2>2. Has("OSYNC")' = Has("OSYNC")
    BY <2>1
  <2> QED BY <2>1, <2>2
<1>3. ~Settles /\ ~(\E x : Takes(x)) /\ ~ConvertNone /\ ~Def /\ ~BlockToss /\ ~BlockRecord /\ ~UnblockRecord
  BY DEF Settles, Takes, ConvertNone, Def, BlockToss, BlockRecord, UnblockRecord, Emit, StartOut,
         Closed, Succeeded
<1>4. UNCHANGED <<cmd, fed>>
  BY <1>1, <1>3 DEF Quiet, Close
<1>5. (Convert(fed) \o FinalPad(Convert(fed)))' = Convert(fed) \o FinalPad(Convert(fed))
  <2>1. PICK t : t = Convert(fed)
    OBVIOUS
  <2>2. Convert(fed)' = t
    <3>1. Input' = Input /\ ~Has("BLOCK") /\ ~Has("UNBLOCK")
      BY <1>2, <1>4, SameInputBytes DEF Records
    <3>2. Convert(fed) = Input
      BY <3>1 DEF Convert, Input
    <3>3. Convert(fed)' = Input'
      BY <1>2, <3>1 DEF Convert, Input
    <3> QED BY <2>1, <3>1, <3>2, <3>3
  <2>3. FinalPad(Convert(fed))' = FinalPad(t)
    BY <1>1, <1>2, <2>2 DEF FinalPad
  <2> QED BY <2>1, <2>2, <2>3
<1>6. CASE Quiet
  <2>1. Closed /\ Sent' = Sent
    BY <1>2, <1>6 DEF Quiet
  <2> QED BY <1>2, <1>5, <2>1 DEF Padding
<1>7. CASE Close
  BY <1>2, <1>5, <1>7, ClosePadding
<1> QED BY <1>1, <1>3, <1>6, <1>7

THEOREM PaddingInvariance ==
  Spec => [](IInv /\ CountInv /\ KeptInv /\ WrittenInv /\ InputInv /\ ConvInv /\ Aligned /\ Padding)
<1>1. Init => Aligned /\ Padding
  BY InitAligned
<1>2. /\ IInv /\ CountInv /\ KeptInv /\ WrittenInv /\ InputInv /\ ConvInv
      /\ Aligned /\ Padding /\ [Next]_vars
      => Aligned' /\ Padding'
  <2>1. [Next]_vars /\ IInv /\ CountInv /\ KeptInv /\ WrittenInv /\ ConvInv /\ Aligned /\ Padding => cmd' = cmd
    BY Kinds
  <2> QED BY <2>1, NextAligned, NextPadding
<1> QED BY <1>1, <1>2, WholeInvariance, KeptInvariance, PTL DEF Spec

\* conv=osync pads the last block, and nothing else (dd_close()).
THEOREM FinalBlockPadded == Spec => []OsyncPads
<1>1. IInv /\ CountInv /\ WrittenInv /\ ConvInv /\ Padding => OsyncPads
  <2> SUFFICES ASSUME IInv, CountInv, WrittenInv, ConvInv, Padding,
                      Succeeded, Has("OSYNC"), ~Records, HolesAreNUL
               PROVE  Delivered = Expected
    BY DEF OsyncPads
  <2>1. Sent = Convert(fed) \o FinalPad(Convert(fed))
    BY DEF Padding, Closed
  <2>2. Sent = Delivered
    BY EndedSent
  <2>3. Expected = Convert(fed) \o FinalPad(Convert(fed))
    BY DEF Expected, FinalPad
  <2> QED BY <2>1, <2>2, <2>3
<1> QED BY <1>1, PaddingInvariance, PTL

\* What comes out is what went in: nothing wrong at any time, nothing missing at the end, the
\* padding where it belongs, bad blocks in their place, the rest of the old file kept.
THEOREM OutputIsRight == Spec => []OutputRight
<1> QED BY NothingWrongWritten, NothingMissing, FullblockCountsExactly, FinalBlockPadded,
           RecoveredInPlace, OldFileKept, PTL DEF OutputRight
=================================================================================

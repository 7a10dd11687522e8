--------------------------- MODULE ConsoleProofs ---------------------------
(***************************************************************************)
(* Proofs about Console, for every size of the buffer and every formats:   *)
(* uart_puts never reads outside the buffer, where only the length of what *)
(* a format expands to counts (FormattedAssumption), and an undisturbed    *)
(* printf sends what its format means, provided that the two loops of      *)
(* _vsnprintf compute that and that no text holds a terminator (Plain).    *)
(***************************************************************************)
EXTENDS Console, SequenceTheorems, TLAPS

Phases == {"idle", "error", "hung", "format", "test", "load", "poll", "write"}

Length(t) == Len(Formatted(fmt[t]))

\* Where the position of a task may be. A task that has seen a character is in
\* front of the last cell, and stays there when the character is replaced.
PosOK(t) ==
  /\ phase[t] \in {"idle", "error", "hung"} => pos[t] = 0
  /\ phase[t] = "format" => /\ fmt[t] \in Formats
                            /\ ~TooLong(Length(t))
                            /\ pos[t] <= Length(t)
  /\ phase[t] \in {"test", "poll", "write"} => pos[t] < Size
  /\ phase[t] = "load" => pos[t] < Size - 1

\* What is inductive: the last cell is a terminator and nobody writes to it, and
\* every position is where its phase allows.
ConsoleInv ==
  /\ DOMAIN out_buf = 0..Size - 1
  /\ out_buf[Size - 1] = NUL
  /\ phase \in [Tasks -> Phases]
  /\ pos \in [Tasks -> Nat]
  /\ DOMAIN fmt = Tasks
  /\ \A t \in Tasks : PosOK(t)

LEMMA ConsoleInit == Init => ConsoleInv
  BY ConsoleAssumption DEF Init, ConsoleInv, PosOK, Phases

\* A step of task t that leaves the last cell alone and t in its place.
LEMMA OwnStep ==
  ASSUME ConsoleInv, NEW t \in Tasks, PosOK(t)',
         DOMAIN out_buf' = 0..Size - 1, out_buf'[Size - 1] = NUL,
         phase' \in [Tasks -> Phases], pos' \in [Tasks -> Nat], DOMAIN fmt' = Tasks,
         \A u \in Tasks : u # t => /\ phase'[u] = phase[u]
                                   /\ pos'[u] = pos[u] /\ fmt'[u] = fmt[u]
  PROVE  ConsoleInv'
<1>1. ASSUME NEW u \in Tasks, u # t PROVE PosOK(u)'
  BY <1>1 DEF ConsoleInv, PosOK, Length, TooLong
<1> QED
  BY <1>1 DEF ConsoleInv

LEMMA PrintfKeeps ==
  ASSUME ConsoleInv, NEW t \in Tasks, NEW f \in Formats, Printf(t, f)
  PROVE  ConsoleInv'
<1> USE DEF Printf, At, Goto, ConsoleInv
<1>1. phase' \in [Tasks -> Phases]
  BY DEF Phases
<1>2. fmt'[t] = f /\ pos'[t] = 0
  BY DEF PosOK
<1>3. PosOK(t)'
  BY <1>2, FormattedAssumption DEF PosOK, Length, TooLong
<1> QED
  BY <1>1, <1>3, OwnStep

\* The second pass writes in front of the last cell: the first one has measured
\* the message, its terminator included.
LEMMA FormatKeeps ==
  ASSUME ConsoleInv, NEW t \in Tasks, Format(t)
  PROVE  ConsoleInv'
<1> USE DEF Format, At, Goto, ConsoleInv
<1>1. Length(t) \in Nat /\ pos[t] <= Length(t) /\ Length(t) + 1 < Size
  BY FormattedAssumption, ConsoleAssumption DEF PosOK, Length, TooLong
<1>2. pos[t] < Size - 1
  BY <1>1, ConsoleAssumption
<1>3. PICK c : out_buf' = [out_buf EXCEPT ![pos[t]] = c]
  OBVIOUS
<1>4. DOMAIN out_buf' = 0..Size - 1 /\ out_buf'[Size - 1] = NUL
  BY <1>2, <1>3, ConsoleAssumption
<1>5. phase' \in [Tasks -> Phases] /\ pos' \in [Tasks -> Nat]
  BY DEF Phases
<1>6. PosOK(t)'
  BY <1>1, ConsoleAssumption DEF PosOK, Length, TooLong
<1> QED
  BY <1>4, <1>5, <1>6, OwnStep

LEMMA NotLast == \A n \in Nat : n # Size - 1 /\ n < Size => n < Size - 1
  BY ConsoleAssumption

\* A character that is not NUL is not in the last cell.
LEMMA TestKeeps ==
  ASSUME ConsoleInv, NEW t \in Tasks, PutsTest(t)
  PROVE  ConsoleInv'
<1> USE DEF PutsTest, At, Goto, ConsoleInv
<1>1. phase' \in [Tasks -> Phases] /\ pos' \in [Tasks -> Nat]
  BY DEF Phases
<1>2. CASE out_buf[pos[t]] # NUL
  <2>1. pos[t] # Size - 1 /\ pos[t] \in Nat /\ pos[t] < Size
    BY <1>2 DEF PosOK
  <2>2. phase'[t] = "load" /\ pos'[t] = pos[t]
    BY <1>2
  <2>3. pos'[t] < Size - 1
    BY <2>1, <2>2, NotLast
  <2>4. PosOK(t)'
    BY <2>2, <2>3 DEF PosOK
  <2> QED
    BY <1>1, <1>2, <2>4, OwnStep
<1>3. CASE out_buf[pos[t]] = NUL
  <2>1. PosOK(t)'
    BY <1>3 DEF PosOK
  <2> QED
    BY <1>1, <1>3, <2>1, OwnStep
<1> QED
  BY <1>2, <1>3

LEMMA LoadKeeps ==
  ASSUME ConsoleInv, NEW t \in Tasks, PutsLoad(t)
  PROVE  ConsoleInv'
<1> USE DEF PutsLoad, At, Goto, ConsoleInv
<1>1. phase' \in [Tasks -> Phases] /\ pos' \in [Tasks -> Nat]
  BY DEF Phases
<1>2. PosOK(t)'
  BY ConsoleAssumption DEF PosOK
<1> QED
  BY <1>1, <1>2, OwnStep

\* The steps that only move a task on: the UART's, and the end of a message that
\* does not fit.
LEMMA SendKeeps ==
  ASSUME ConsoleInv, NEW t \in Tasks, Poll(t) \/ Write(t) \/ Overflow(t)
  PROVE  ConsoleInv'
<1> USE DEF Poll, Write, Overflow, At, Goto, ConsoleInv
<1>1. phase' \in [Tasks -> Phases]
  BY DEF Phases
<1>2. PosOK(t)'
  BY DEF PosOK
<1> QED
  BY <1>1, <1>2, OwnStep

\* The time that timer_handler prints is short enough.
LEMMA TickKeeps ==
  ASSUME ConsoleInv, NEW t \in Tasks, Tick(t)
  PROVE  ConsoleInv'
<1> USE DEF Tick, ConsoleInv
<1>1. DOMAIN out_buf' = 0..Size - 1
  BY DEF Written
<1>2. out_buf'[Size - 1] = NUL
  BY ConsoleAssumption DEF Written
<1>3. \A u \in Tasks : PosOK(u)'
  BY DEF PosOK, Length
<1> QED
  BY <1>1, <1>2, <1>3

LEMMA ConsoleNext == ConsoleInv /\ [Next]_consoleVars => ConsoleInv'
<1> SUFFICES ASSUME ConsoleInv, [Next]_consoleVars PROVE ConsoleInv'
  OBVIOUS
<1>1. ASSUME NEW t \in Tasks, TaskStep(t) PROVE ConsoleInv'
  BY <1>1, FormatKeeps, TestKeeps, LoadKeeps, SendKeeps DEF TaskStep
<1>2. CASE UNCHANGED <<out_buf, phase, fmt, pos>>
  BY <1>2 DEF ConsoleInv, PosOK, Length
<1>3. CASE Transmit \/ Receive \/ Claim \/ Getc \/ Echo \/ Complete
  BY <1>2, <1>3 DEF Transmit, Receive, Claim, Getc, Echo, Complete, taskVars
<1>4. CASE UNCHANGED consoleVars
  BY <1>2, <1>4 DEF consoleVars, taskVars
<1> QED
  BY <1>1, <1>3, <1>4, TickKeeps, PrintfKeeps DEF Next

\* However the printing of tasks and of traps is interleaved, uart_puts stops at
\* a terminator inside out_buf (printf.c:144, uart.c:92).
THEOREM AlwaysReadsInside == Spec => []ReadsInside
<1>1. Spec => []ConsoleInv
  BY ConsoleInit, ConsoleNext, PTL DEF Spec
<1>2. ConsoleInv => ReadsInside
  BY ConsoleAssumption DEF ConsoleInv, PosOK, ReadsInside
<1> QED
  BY <1>1, <1>2, PTL

-----------------------------------------------------------------------------
(***************************************************************************)
(* What is sent.                                                           *)
(***************************************************************************)

\* What _vsnprintf makes of a format that fits is what C says, and is text. It is
\* so for the formats of the run, where CleanPrint would fail otherwise.
Plain ==
  \A f \in Formats : ~TooLong(Len(Formatted(f))) =>
    Formatted(f) = f.means /\ f.means \in Seq(STRING \ {NUL})

\* The first n characters of a message have been given to the UART.
Given(t, n) ==
  /\ sent[t] \in Seq(STRING) /\ Len(sent[t]) = n
  /\ \A i \in 1..n : sent[t][i] = Formatted(fmt[t])[i]

\* The first n cells hold the message.
Holds(t, n) == \A i \in 1..n : out_buf[i - 1] = Formatted(fmt[t])[i]

\* A printf that nothing has touched. It has the hart; its message is in the
\* buffer as far as it was formatted, with the UART as far as it was sent, and
\* between the poll and the write the UART is ready.
Clean(t) ==
  /\ cur = t
  /\ phase[t] = "format" => Holds(t, pos[t]) /\ Given(t, 0)
  /\ phase[t] \in {"test", "load", "poll", "write"} =>
       /\ fmt[t] \in Formats /\ ~TooLong(Length(t)) /\ pos[t] <= Length(t)
       /\ Holds(t, Length(t)) /\ out_buf[Length(t)] = NUL
  /\ phase[t] \in {"test", "load"} => Given(t, pos[t])
  /\ phase[t] = "load" => pos[t] < Length(t)
  /\ phase[t] \in {"poll", "write"} =>
       pos[t] > 0 /\ char[t] = Formatted(fmt[t])[pos[t]] /\ Given(t, pos[t] - 1)
  /\ phase[t] = "write" => ~thr_full

CleanInv ==
  /\ DOMAIN sent = Tasks /\ DOMAIN char = Tasks /\ mixed \in [Tasks -> BOOLEAN]
  /\ \A t \in Tasks : IF phase[t] = "idle" THEN ~mixed[t] /\ sent[t] = <<>>
                                           ELSE mixed[t] \/ Clean(t)

LEMMA CleanInit == Init => CleanInv
  BY DEF Init, CleanInv

\* A step of the task that has the hart: those that have not are idle or mixed.
LEMMA CleanOwn ==
  ASSUME CleanInv, NEW t \in Tasks, cur = t, DOMAIN sent' = Tasks, DOMAIN char' = Tasks,
         mixed' \in [Tasks -> BOOLEAN],
         IF phase'[t] = "idle" THEN ~mixed'[t] /\ sent'[t] = <<>> ELSE mixed'[t] \/ Clean(t)',
         \A u \in Tasks : u # t => /\ phase'[u] = phase[u] /\ mixed'[u] = mixed[u]
                                   /\ sent'[u] = sent[u]
  PROVE  CleanInv'
  BY DEF CleanInv, Clean

LEMMA PrintfClean ==
  ASSUME ConsoleInv, CleanInv, NEW t \in Tasks, NEW f \in Formats, Printf(t, f)
  PROVE  CleanInv'
<1> USE DEF Printf, At, Goto
<1>1. phase'[t] \in {"error", "format"} /\ pos'[t] = 0 /\ sent'[t] = <<>> /\ cur' = t
  BY DEF ConsoleInv, PosOK, CleanInv
<1>2. Clean(t)'
  BY <1>1 DEF Clean, Holds, Given
<1> QED
  BY <1>1, <1>2, CleanOwn DEF ConsoleInv, CleanInv

LEMMA FormatClean ==
  ASSUME ConsoleInv, CleanInv, NEW t \in Tasks, Format(t)
  PROVE  CleanInv'
<1> USE DEF Format, At, Goto
<1> DEFINE m == Formatted(fmt[t])
<1>1. /\ fmt[t] \in Formats /\ Len(m) \in Nat /\ pos[t] \in 0..Len(m) /\ Len(m) + 1 < Size
      /\ DOMAIN out_buf = 0..Size - 1 /\ DOMAIN pos = Tasks /\ DOMAIN phase = Tasks
      /\ fmt' = fmt /\ cur' = t /\ sent' = sent
  BY FormattedAssumption, ConsoleAssumption DEF ConsoleInv, PosOK, Length, TooLong
<1>2. CASE mixed[t]
  BY <1>1, <1>2, CleanOwn DEF CleanInv, ConsoleInv
<1>3. CASE ~mixed[t]
  <2>1. Clean(t) /\ Given(t, 0) /\ Holds(t, pos[t])
    BY <1>3 DEF CleanInv, Clean
  <2>2. CASE pos[t] < Len(m)
    <3> HIDE DEF m
    <3>1. pos'[t] = pos[t] + 1 /\ phase'[t] = "format"
      BY <1>1, <2>2 DEF m
    <3>2. ASSUME NEW i \in 1..pos[t] + 1 PROVE out_buf'[i - 1] = m[i]
      <4>0. i - 1 \in 0..Size - 1 /\ out_buf' = [out_buf EXCEPT ![pos[t]] = m[pos[t] + 1]]
        BY <1>1, <2>2, ConsoleAssumption DEF m
      <4>1. CASE i = pos[t] + 1
        BY <1>1, <4>0, <4>1
      <4>2. CASE i # pos[t] + 1
        <5>1. i \in 1..pos[t] /\ i - 1 # pos[t]
          BY <1>1, <4>2
        <5> QED
          BY <4>0, <5>1, <2>1 DEF Holds, m
      <4> QED
        BY <4>1, <4>2
    <3>3. Holds(t, pos[t])' /\ Given(t, 0)'
      BY <1>1, <2>1, <3>1, <3>2 DEF Holds, Given, m
    <3>4. Clean(t)'
      BY <1>1, <3>1, <3>3 DEF Clean
    <3> QED
      BY <1>1, <1>3, <3>1, <3>4, CleanOwn DEF CleanInv
  <2>3. CASE ~(pos[t] < Len(m))
    <3>1. pos[t] = Len(m)
      BY <1>1, <2>3
    <3>2. pos'[t] = 0 /\ phase'[t] = "test" /\ out_buf' = [out_buf EXCEPT ![pos[t]] = NUL]
      BY <1>1, <2>3
    <3> HIDE DEF m
    <3>3. Len(m) \in DOMAIN out_buf /\ \A i \in 1..Len(m) : i - 1 # pos[t]
      BY <1>1, <3>1, ConsoleAssumption
    <3>4. Holds(t, Length(t))' /\ (out_buf[Length(t)] = NUL)'
      BY <1>1, <2>1, <3>1, <3>2, <3>3 DEF Holds, Length, m
    <3>5. Given(t, 0)'
      BY <1>1, <2>1 DEF Given
    <3>6. (fmt[t] \in Formats /\ ~TooLong(Length(t)) /\ pos[t] <= Length(t))'
      BY <1>1, <3>2, ConsoleAssumption DEF Length, TooLong, m
    <3>7. Clean(t)'
      BY <1>1, <3>2, <3>4, <3>5, <3>6 DEF Clean
    <3> QED
      BY <1>1, <1>3, <3>2, <3>7, CleanOwn DEF CleanInv
  <2> QED
    BY <2>2, <2>3
<1> QED
  BY <1>2, <1>3 DEF CleanInv

\* The end of an undisturbed message is found where its text ends.
LEMMA TestAtEnd ==
  ASSUME Plain, ConsoleInv, NEW t \in Tasks, Clean(t), phase[t] = "test"
  PROVE  /\ out_buf[pos[t]] = NUL <=> pos[t] = Length(t)
         /\ out_buf[pos[t]] = NUL => sent[t] = fmt[t].means
<1> DEFINE m == Formatted(fmt[t])
<1>1. /\ fmt[t] \in Formats /\ ~TooLong(Len(m)) /\ pos[t] <= Len(m) /\ pos[t] \in Nat
      /\ Holds(t, Len(m)) /\ out_buf[Len(m)] = NUL /\ Given(t, pos[t])
  BY DEF Clean, Length, ConsoleInv
<1>2. m = fmt[t].means /\ m \in Seq(STRING \ {NUL}) /\ Len(m) \in Nat
  BY <1>1 DEF Plain
<1>3. ASSUME pos[t] < Len(m) PROVE out_buf[pos[t]] # NUL
  <2>1. pos[t] + 1 \in 1..Len(m) /\ (pos[t] + 1) - 1 = pos[t]
    BY <1>1, <1>2, <1>3
  <2>2. out_buf[pos[t]] = m[pos[t] + 1]
    BY <1>1, <2>1 DEF Holds
  <2>3. m[pos[t] + 1] \in STRING \ {NUL}
    BY <1>2, <2>1, ElementOfSeq
  <2> QED
    BY <2>2, <2>3
<1>4. ASSUME pos[t] = Len(m) PROVE sent[t] = m
  <2>1. /\ sent[t] \in Seq(STRING) /\ Len(sent[t]) = Len(m)
        /\ \A i \in 1..Len(m) : sent[t][i] = m[i]
    BY <1>1, <1>4 DEF Given
  <2>2. m \in Seq(STRING)
    BY <1>2
  <2> HIDE DEF m
  <2> QED
    BY <2>1, <2>2, SeqEqual
<1> QED
  BY <1>1, <1>2, <1>3, <1>4 DEF Length

LEMMA TestClean ==
  ASSUME Plain, ConsoleInv, CleanInv, NEW t \in Tasks, PutsTest(t)
  PROVE  CleanInv'
<1> USE DEF PutsTest, At, Goto
<1>0. DOMAIN phase = Tasks /\ DOMAIN mixed = Tasks /\ cur' = cur /\ cur = t
  BY DEF ConsoleInv, CleanInv
<1>1. CASE out_buf[pos[t]] = NUL
  <2>1. phase'[t] = "idle" /\ ~mixed'[t] /\ sent'[t] = <<>>
    BY <1>0, <1>1 DEF CleanInv
  <2> QED
    BY <1>0, <1>1, <2>1, CleanOwn DEF CleanInv
<1>2. CASE out_buf[pos[t]] # NUL
  <2>1. phase'[t] = "load" /\ UNCHANGED <<out_buf, fmt, pos, mixed, sent, char>>
    BY <1>0, <1>2
  <2>2. ASSUME ~mixed[t] PROVE Clean(t)'
    <3>1. Clean(t) /\ Given(t, pos[t])
      BY <2>2 DEF CleanInv, Clean
    <3>2. pos[t] # Length(t) /\ pos[t] <= Length(t) /\ Length(t) \in Nat /\ pos[t] \in Nat
      BY <1>2, <3>1, TestAtEnd, FormattedAssumption DEF Clean, Length, ConsoleInv
    <3> QED
      BY <1>0, <2>1, <3>1, <3>2 DEF Clean, Holds, Given, Length
  <2> QED
    BY <1>0, <2>1, <2>2, CleanOwn DEF CleanInv
<1> QED
  BY <1>1, <1>2

LEMMA LoadClean ==
  ASSUME Plain, ConsoleInv, CleanInv, NEW t \in Tasks, PutsLoad(t)
  PROVE  CleanInv'
<1> USE DEF PutsLoad, At, Goto
<1>0. /\ DOMAIN phase = Tasks /\ DOMAIN pos = Tasks /\ cur' = cur /\ cur = t
      /\ phase'[t] = "poll" /\ pos'[t] = pos[t] + 1 /\ pos[t] \in Nat
      /\ UNCHANGED <<out_buf, fmt, mixed, sent>>
  BY DEF ConsoleInv
<1>1. ASSUME ~mixed[t] PROVE Clean(t)'
  <2>1. Clean(t) /\ Given(t, pos[t]) /\ pos[t] < Length(t) /\ Length(t) \in Nat
    BY <1>1, FormattedAssumption DEF CleanInv, Clean, Length
  <2>2. pos[t] + 1 \in 1..Length(t) /\ (pos[t] + 1) - 1 = pos[t]
    BY <1>0, <2>1
  <2>3. char'[t] = Formatted(fmt[t])[pos[t] + 1]
    BY <2>1, <2>2 DEF Clean, Holds, CleanInv
  <2>4. Given(t, pos[t] - 1)'
    BY <1>0, <2>1, <2>2 DEF Given
  <2>5. (char[t] = Formatted(fmt[t])[pos[t]] /\ pos[t] > 0 /\ pos[t] <= Length(t))'
    BY <1>0, <2>1, <2>2, <2>3 DEF Length
  <2> QED
    BY <1>0, <2>1, <2>4, <2>5 DEF Clean, Holds, Length
<1> QED
  BY <1>0, <1>1, CleanOwn DEF CleanInv

LEMMA PollClean ==
  ASSUME ConsoleInv, CleanInv, NEW t \in Tasks, Poll(t)
  PROVE  CleanInv'
<1> USE DEF Poll, At, Goto
<1>1. DOMAIN phase = Tasks /\ phase'[t] = "write"
  BY DEF ConsoleInv
<1>2. ASSUME ~mixed[t] PROVE Clean(t)'
  BY <1>1, <1>2 DEF CleanInv, Clean, Holds, Given, Length
<1> QED
  BY <1>1, <1>2, CleanOwn DEF CleanInv

\* The UART was ready, so that the character is not lost.
LEMMA WriteClean ==
  ASSUME Plain, ConsoleInv, CleanInv, NEW t \in Tasks, Write(t)
  PROVE  CleanInv'
<1> USE DEF Write, At, Goto
<1>0. DOMAIN phase = Tasks /\ phase'[t] = "test" /\ pos[t] \in Nat /\ cur = t
  BY DEF ConsoleInv
<1>1. ASSUME ~mixed[t] PROVE Clean(t)'
  <2> DEFINE m == Formatted(fmt[t])
  <2>1. /\ Clean(t) /\ Given(t, pos[t] - 1) /\ char[t] = m[pos[t]]
        /\ ~thr_full /\ pos[t] > 0 /\ pos[t] <= Len(m)
        /\ fmt[t] \in Formats /\ ~TooLong(Len(m))
    BY <1>1 DEF CleanInv, Clean, Length
  <2>2. m \in Seq(STRING) /\ Len(m) \in Nat /\ pos[t] \in 1..Len(m)
    BY <1>0, <2>1 DEF Plain
  <2>3. char[t] \in STRING
    BY <2>1, <2>2, ElementOfSeq
  <2>4. sent'[t] = Append(sent[t], char[t])
    BY <1>1, <2>1 DEF CleanInv
  <2>5. /\ sent[t] \in Seq(STRING) /\ Len(sent[t]) = pos[t] - 1
        /\ \A i \in 1..pos[t] - 1 : sent[t][i] = m[i]
    BY <2>1 DEF Given
  <2> HIDE DEF m
  <2>6. /\ sent'[t] \in Seq(STRING) /\ Len(sent'[t]) = pos[t]
        /\ \A i \in 1..pos[t] : sent'[t][i] = m[i]
    <3> DEFINE r == Append(sent[t], char[t])
    <3>1. /\ r \in Seq(STRING) /\ Len(r) = Len(sent[t]) + 1
          /\ \A i \in 1..Len(sent[t]) : r[i] = sent[t][i]
          /\ r[Len(sent[t]) + 1] = char[t]
      BY <2>3, <2>5, AppendProperties
    <3> HIDE DEF r
    <3>2. Len(r) = pos[t]
      BY <1>0, <2>1, <2>5, <3>1
    <3>3. ASSUME NEW i \in 1..pos[t] PROVE r[i] = m[i]
      BY <1>0, <2>1, <2>5, <3>1
    <3> QED
      BY <2>4, <3>1, <3>2, <3>3 DEF r
  <2>7. Given(t, pos[t])'
    BY <2>6 DEF Given, m
  <2> QED
    BY <1>0, <2>1, <2>7 DEF Clean, Holds, Length
<1> QED
  BY <1>0, <1>1, CleanOwn DEF CleanInv

LEMMA OverflowClean ==
  ASSUME ConsoleInv, CleanInv, NEW t \in Tasks, Overflow(t)
  PROVE  CleanInv'
<1> USE DEF Overflow, At, Goto
<1>1. DOMAIN phase = Tasks /\ phase'[t] = "hung"
  BY DEF ConsoleInv
<1>2. ASSUME ~mixed[t] PROVE Clean(t)'
  BY <1>1, <1>2 DEF CleanInv, Clean
<1> QED
  BY <1>1, <1>2, CleanOwn DEF CleanInv

\* The UART is only written to while it is ready, and an echo that makes it busy
\* under a task about to write is noted.
LEMMA DeviceClean ==
  ASSUME CleanInv, Transmit \/ Receive \/ Claim \/ Getc \/ Echo \/ Complete \/ UNCHANGED consoleVars
  PROVE  CleanInv'
<1>1. CASE Echo
  <2> USE <1>1 DEF Echo
  <2>1. ASSUME NEW t \in Tasks, ~mixed'[t] PROVE ~mixed[t] /\ ~(phase[t] = "write" /\ t = cur)
    <3>0. mixed[t] \in BOOLEAN /\ t \in DOMAIN mixed
      BY DEF CleanInv
    <3>1. CASE t = cur
      <4>1. mixed'[t] = (mixed[t] \/ phase[t] = "write")
        BY <3>0, <3>1, Zenon
      <4> QED
        BY <2>1, <4>1, Zenon
    <3>2. CASE t # cur
      BY <2>1, <3>2, <3>0
    <3> QED
      BY <3>1, <3>2
  <2>2. mixed' \in [Tasks -> BOOLEAN] /\ DOMAIN sent' = Tasks /\ DOMAIN char' = Tasks
    BY DEF CleanInv
  <2>3. ASSUME NEW t \in Tasks, phase[t] = "idle" PROVE ~mixed'[t] /\ sent'[t] = <<>>
    <3>1. ~mixed[t] /\ sent[t] = <<>> /\ mixed[t] \in BOOLEAN
      BY <2>3 DEF CleanInv
    <3>2. CASE t = cur
      <4>1. mixed'[t] = (mixed[t] \/ phase[t] = "write")
        BY <3>2, Zenon DEF CleanInv
      <4>2. phase[t] # "write"
        BY <2>3
      <4> QED
        BY <3>1, <4>1, <4>2
    <3>3. CASE t # cur
      BY <3>1, <3>3 DEF CleanInv
    <3> QED
      BY <3>2, <3>3
  <2>4. ASSUME NEW t \in Tasks, phase[t] # "idle", ~mixed'[t] PROVE Clean(t)'
    <3>1. phase[t] # "write" /\ sent'[t] = sent[t] /\ Clean(t)
      BY <2>1, <2>4 DEF CleanInv, Clean
    <3> QED
      BY <3>1 DEF Clean, Holds, Given, Length
  <2> QED
    BY <2>2, <2>3, <2>4 DEF CleanInv
<1>2. ASSUME UNCHANGED <<out_buf, cur, taskVars>>, ~thr_full => ~thr_full' PROVE CleanInv'
  BY <1>2 DEF CleanInv, Clean, Holds, Given, Length, taskVars
<1> QED
  BY <1>1, <1>2 DEF Transmit, Receive, Claim, Getc, Complete, consoleVars

LEMMA CleanNext == Plain /\ ConsoleInv /\ CleanInv /\ [Next]_consoleVars => CleanInv'
<1> SUFFICES ASSUME Plain, ConsoleInv, CleanInv, [Next]_consoleVars PROVE CleanInv'
  OBVIOUS
<1>1. ASSUME NEW t \in Tasks, TaskStep(t) PROVE CleanInv'
  BY <1>1, FormatClean, TestClean, LoadClean, PollClean, WriteClean, OverflowClean DEF TaskStep
<1>2. ASSUME NEW t \in Tasks, Tick(t) PROVE CleanInv'
  BY <1>2 DEF Tick, CleanInv
<1> QED
  BY <1>1, <1>2, PrintfClean, DeviceClean DEF Next

\* A printf that neither a tick nor an echo has disturbed sends what its format
\* means, whatever the other tasks and the UART do (printf.c:144, uart.c:80-97).
THEOREM CleanlyPrinted ==
  ASSUME Plain
  PROVE  Spec => []CleanPrint
<1>1. Init => ConsoleInv /\ CleanInv
  BY ConsoleInit, CleanInit
<1>2. ConsoleInv /\ CleanInv /\ [Next]_consoleVars => ConsoleInv' /\ CleanInv'
  BY ConsoleNext, CleanNext
<1>3. ConsoleInv /\ CleanInv => CleanPrint
  BY TestAtEnd DEF CleanInv, CleanPrint
<1> QED
  BY <1>1, <1>2, <1>3, PTL DEF Spec

=============================================================================

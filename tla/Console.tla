------------------------------ MODULE Console ------------------------------
(***************************************************************************)
(* The console: printf of os/printf.c, which formats into one static       *)
(* buffer, uart_puts and uart_putc of os/uart.c, which send it, and the    *)
(* external interrupt that echoes what is typed, through the PLIC.         *)
(*                                                                         *)
(* Tasks print with interrupts on, timer_handler prints the time at every  *)
(* tick into the same buffer, and a tick is what takes the hart from one   *)
(* task to another in the middle of a printf.  In a task each access to    *)
(* the buffer and to a register of the UART is a step.  Traps run with     *)
(* interrupts off: a tick is one step, and the interrupt of the UART is as *)
(* many as the device can act between.                                     *)
(***************************************************************************)
EXTENDS Integers, Sequences, FiniteSets, SequencesExt

CONSTANTS
  Tasks,    \* the tasks that print
  Size,     \* sizeof(out_buf)
  Formats,  \* what they print: [s |-> characters, args |-> arguments,
            \* means |-> the characters that C gives them]
  Time      \* the characters that elapsed_time prints

ASSUME ConsoleAssumption ==
  /\ Size \in Nat \ {0} /\ Len(Time) + 1 < Size
  /\ \A f \in Formats : f.s \in Seq(STRING) /\ f.means \in Seq(STRING)

VARIABLES
  out_buf,   \* the static buffer
  cur,       \* the task that has the hart
  phase,     \* where each task is in printf
  fmt,       \* its arguments
  pos,       \* its position in out_buf
  char,      \* the character that uart_putc is to write
  thr_full,  \* the UART has not sent the last character yet
  rhr_full,  \* a typed character waits in the UART
  pending,   \* the PLIC requests an interrupt
  trap,      \* where external_interrupt_handler is
  mixed,     \* history: a trap has touched what the task's printf works on
  sent       \* history: what an unmixed printf has given to the UART

taskVars   == <<phase, fmt, pos, char, mixed, sent>>
rxVars     == <<rhr_full, pending, trap>>
consoleVars == <<out_buf, cur, taskVars, thr_full, rxVars>>

NUL == "nul"

-----------------------------------------------------------------------------
(***************************************************************************)
(* _vsnprintf.                                                             *)
(***************************************************************************)

Digit(d) == <<"0", "1", "2", "3", "4", "5", "6", "7", "8", "9",
              "a", "b", "c", "d", "e", "f">>[d + 1]

\* The two loops of %d: how many digits, and each of them from the last on.
\* They give none for 0. (Numbers of up to nine digits.)
Decimal(num) ==
  LET abs == IF num < 0 THEN -num ELSE num
      digits == Min({n \in 0..9 : abs < 10 ^ n})
  IN  (IF num < 0 THEN <<"-">> ELSE <<>>)
      \o [i \in 1..digits |-> Digit((abs \div 10 ^ (digits - i)) % 10)]

\* The loop of %x: all the digits of an int or a long.
Hex(num, digits) ==
  [i \in 1..digits |->
     LET k == digits - i
     IN  Digit(IF k < 8 THEN (num \div 16 ^ k) % 16 ELSE IF num < 0 THEN 15 ELSE 0)]

\* Everything after the first directive is read as one, too.
Bug_Directive(r, c) ==
  IF c = "d" THEN [r EXCEPT !.out = @ \o Decimal(Head(r.args)), !.args = Tail(@)]
  ELSE IF c = "s" THEN [r EXCEPT !.out = @ \o Head(r.args), !.args = Tail(@)]
  ELSE r

\* One character behind a %. %c prints the letter c and takes no argument, and
\* what is unknown leaves the directive open.
Directive(r, c) ==
  LET put(x) == [r EXCEPT !.out = @ \o x, !.args = Tail(@), !.format = FALSE, !.long = FALSE]
  IN  CASE c = "d" -> put(Decimal(Head(r.args)))
        [] c = "l" -> [r EXCEPT !.long = TRUE]
        [] c = "p" -> put(<<"0", "x">> \o Hex(Head(r.args), 16))
        [] c = "x" -> put(Hex(Head(r.args), IF r.long THEN 16 ELSE 8))
        [] c = "s" -> put(Head(r.args))
        [] c = "c" -> [r EXCEPT !.out = Append(@, c), !.format = FALSE, !.long = FALSE]
        [] OTHER   -> r

\* What both passes of _vprintf make of a format: the first one its length.
Formatted(f) ==
  FoldLeft(LAMBDA r, c : IF r.format THEN Directive(r, c)
                         ELSE IF c = "%" THEN [r EXCEPT !.format = TRUE]
                         ELSE [r EXCEPT !.out = Append(@, c)],
           [format |-> FALSE, long |-> FALSE, out |-> <<>>, args |-> f.args],
           f.s).out

ASSUME FormattedAssumption == \A f \in Formats : Len(Formatted(f)) \in Nat

Bug_TooLong(n) == n > Size

TooLong(n) == n + 1 >= Size

\* A message in the buffer, with its terminator.
Written(m) ==
  [i \in DOMAIN out_buf |-> IF i < Len(m) THEN m[i + 1]
                            ELSE IF i = Len(m) THEN NUL ELSE out_buf[i]]

-----------------------------------------------------------------------------
Idle == [s |-> <<>>, args |-> <<>>, means |-> <<>>]

Init ==
  /\ out_buf = [i \in 0..Size - 1 |-> NUL]
  /\ cur \in Tasks
  /\ phase = [t \in Tasks |-> "idle"] /\ fmt = [t \in Tasks |-> Idle]
  /\ pos = [t \in Tasks |-> 0] /\ char = [t \in Tasks |-> NUL]
  /\ mixed = [t \in Tasks |-> FALSE] /\ sent = [t \in Tasks |-> <<>>]
  /\ thr_full = FALSE /\ rhr_full = FALSE /\ pending = FALSE /\ trap = "none"

At(t, p) == trap = "none" /\ cur = t /\ phase[t] = p

Goto(t, p) == phase' = [phase EXCEPT ![t] = p]

\* printf, and the first pass of _vprintf.
Printf(t, f) ==
  /\ At(t, "idle")
  /\ Goto(t, IF TooLong(Len(Formatted(f))) THEN "error" ELSE "format")
  /\ fmt' = [fmt EXCEPT ![t] = f]
  /\ UNCHANGED <<out_buf, cur, pos, char, mixed, sent, thr_full, rxVars>>

\* uart_puts("error: ..."), and the loop behind it.
Overflow(t) ==
  /\ At(t, "error") /\ ~thr_full
  /\ thr_full' = TRUE
  /\ Goto(t, "hung")
  /\ UNCHANGED <<out_buf, cur, fmt, pos, char, mixed, sent, rxVars>>

\* The second pass writes one character after the other, and the terminator.
Format(t) ==
  /\ At(t, "format")
  /\ LET m == Formatted(fmt[t]) IN
       IF pos[t] < Len(m)
       THEN /\ out_buf' = [out_buf EXCEPT ![pos[t]] = m[pos[t] + 1]]
            /\ pos' = [pos EXCEPT ![t] = @ + 1]
            /\ UNCHANGED phase
       ELSE /\ out_buf' = [out_buf EXCEPT ![pos[t]] = NUL]
            /\ pos' = [pos EXCEPT ![t] = 0]
            /\ Goto(t, "test")
  /\ UNCHANGED <<cur, fmt, char, mixed, sent, thr_full, rxVars>>

\* while(*p) of uart_puts. At the end printf returns.
PutsTest(t) ==
  /\ At(t, "test")
  /\ IF out_buf[pos[t]] # NUL
     THEN Goto(t, "load") /\ UNCHANGED <<fmt, pos, mixed, sent>>
     ELSE /\ Goto(t, "idle")
          /\ fmt' = [fmt EXCEPT ![t] = Idle] /\ pos' = [pos EXCEPT ![t] = 0]
          /\ mixed' = [mixed EXCEPT ![t] = FALSE] /\ sent' = [sent EXCEPT ![t] = <<>>]
  /\ UNCHANGED <<out_buf, cur, char, thr_full, rxVars>>

\* *(p++), which reads the character again.
PutsLoad(t) ==
  /\ At(t, "load")
  /\ char' = [char EXCEPT ![t] = out_buf[pos[t]]]
  /\ pos' = [pos EXCEPT ![t] = @ + 1]
  /\ Goto(t, "poll")
  /\ UNCHANGED <<out_buf, cur, fmt, mixed, sent, thr_full, rxVars>>

\* The loop of uart_putc.
Poll(t) ==
  /\ At(t, "poll") /\ ~thr_full
  /\ Goto(t, "write")
  /\ UNCHANGED <<out_buf, cur, fmt, pos, char, mixed, sent, thr_full, rxVars>>

\* The UART does not accept a character while it has one to send (uart.c:50).
Write(t) ==
  /\ At(t, "write")
  /\ thr_full' = TRUE
  /\ sent' = [sent EXCEPT ![t] = IF mixed[t] \/ thr_full THEN @ ELSE Append(@, char[t])]
  /\ char' = [char EXCEPT ![t] = NUL]
  /\ Goto(t, "test")
  /\ UNCHANGED <<out_buf, cur, fmt, pos, mixed, rxVars>>

\* timer_handler prints the time and may switch to another task. No printf that
\* it interrupts can be relied on.
Tick(next) ==
  /\ trap = "none"
  /\ out_buf' = Written(Time)
  /\ thr_full' = TRUE
  /\ cur' = next
  /\ mixed' = [t \in Tasks |-> phase[t] # "idle"]
  /\ sent' = [t \in Tasks |-> <<>>]
  /\ UNCHANGED <<phase, fmt, pos, char, rxVars>>

-----------------------------------------------------------------------------
(***************************************************************************)
(* The UART, the PLIC and external_interrupt_handler.                      *)
(***************************************************************************)

Transmit ==
  /\ thr_full /\ thr_full' = FALSE
  /\ UNCHANGED <<out_buf, cur, taskVars, rxVars>>

\* A key is typed when the last one was read. The PLIC takes the request of a
\* source that has none in service.
Receive ==
  /\ ~rhr_full /\ rhr_full' = TRUE
  /\ pending' = (pending \/ trap = "none")
  /\ UNCHANGED <<out_buf, cur, taskVars, thr_full, trap>>

\* plic_claim. A task that stands between the poll and the write of uart_putc
\* may find the UART full when it goes on.
Claim ==
  /\ trap = "none" /\ pending
  /\ pending' = FALSE /\ trap' = "drain"
  /\ UNCHANGED <<out_buf, cur, taskVars, thr_full, rhr_full>>

\* uart_ier reads a character, or is told that there is none.
Getc ==
  /\ trap = "drain"
  /\ rhr_full' = FALSE
  /\ trap' = IF rhr_full THEN "echo" ELSE "complete"
  /\ UNCHANGED <<out_buf, cur, taskVars, thr_full, pending>>

\* uart_putc in the trap: nothing comes between its poll and its write.
Echo ==
  /\ trap = "echo" /\ ~thr_full
  /\ thr_full' = TRUE
  /\ mixed' = [mixed EXCEPT ![cur] = @ \/ phase[cur] = "write"]
  /\ sent' = [sent EXCEPT ![cur] = IF phase[cur] = "write" THEN <<>> ELSE @]
  /\ trap' = "drain"
  /\ UNCHANGED <<out_buf, cur, phase, fmt, pos, char, rhr_full, pending>>

\* The handler returns without it.
Bug_Complete ==
  /\ trap = "complete" /\ trap' = "none"
  /\ UNCHANGED <<out_buf, cur, taskVars, thr_full, rhr_full, pending>>

\* plic_complete. A key that was typed after the last uart_getc still asks for
\* the interrupt.
Complete ==
  /\ trap = "complete" /\ trap' = "none"
  /\ pending' = rhr_full
  /\ UNCHANGED <<out_buf, cur, taskVars, thr_full, rhr_full>>

TaskStep(t) ==
  Overflow(t) \/ Format(t) \/ PutsTest(t) \/ PutsLoad(t) \/ Poll(t) \/ Write(t)

Next ==
  \/ \E t \in Tasks : TaskStep(t) \/ Tick(t) \/ \E f \in Formats : Printf(t, f)
  \/ Transmit \/ Receive
  \/ Claim \/ Getc \/ Echo \/ Complete

Spec == Init /\ [][Next]_consoleVars

\* The UART sends, an interrupt that is pending is taken, and the handler goes on
\* to its end.
FairSpec ==
  /\ Spec
  /\ WF_consoleVars(Transmit)
  /\ WF_consoleVars(Claim) /\ WF_consoleVars(Getc) /\ WF_consoleVars(Echo)
  /\ WF_consoleVars(Complete)

-----------------------------------------------------------------------------
(***************************************************************************)
(* Properties.                                                             *)
(***************************************************************************)

\* Whatever mixture of messages a task finds in the buffer, uart_puts ends
\* inside it: the last cell always holds a terminator, and is not stepped over
\* though the buffer may change between the test and the load.
ReadsInside ==
  /\ out_buf[Size - 1] = NUL
  /\ \A t \in Tasks : phase[t] \in {"test", "load"} => pos[t] < Size

\* A printf that no tick has interrupted, nor an echo between the poll and the
\* write of a character, sends exactly what its format means.
CleanPrint ==
  \A t \in Tasks :
    phase[t] = "test" /\ ~mixed[t] /\ out_buf[pos[t]] = NUL => sent[t] = fmt[t].means

\* Every key that is typed is read by the interrupt handler, also one that is
\* typed while the handler is about to return.
KeysRead == rhr_full ~> ~rhr_full

=============================================================================

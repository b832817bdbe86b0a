------------------------------ MODULE Terminal -------------------------------
(***************************************************************************)
(* Console output and input: lib/kernel/console.c, devices/serial.c,       *)
(* devices/input.c and the queues of devices/intq.c, with the UART as the  *)
(* code uses it.  Threads print messages under the console lock and read   *)
(* keys; the serial interrupt moves bytes between queues and UART; a panic *)
(* prints with interrupts off.                                             *)
(*                                                                         *)
(* What runs with interrupts off is one step.  It ends where a thread      *)
(* sleeps, and after lock_release, where sema_up may yield the processor.  *)
(***************************************************************************)
EXTENDS Integers, Sequences

CONSTANTS BUFSIZE,     \* INTQ_BUFSIZE; a queue holds one byte less
          NULL,
          Writers, Readers,
          Keys,        \* bytes that may be typed
          Main,        \* the writer that boots the kernel
          MsgLen,      \* characters in a message
          Nested       \* whether a message may be printed inside a message

VARIABLES
  mode,                \* of the serial port: UNINIT, POLL or QUEUE
  txq, buffer,         \* bytes to transmit, bytes received
  ier, thr, rbr,       \* registers of the UART
  thri,                \* the UART's transmit interrupt is pending
  console_lock,        \* its holder
  console_lock_depth,
  todo,                \* characters left of the messages a writer is printing
  pc,
  asleep,              \* threads that wait() has blocked
  panic,               \* the thread in debug_panic
  failed               \* an assertion of intq.c failed

uart == <<ier, thr, rbr, thri>>
console == <<console_lock, console_lock_depth>>
vars == <<mode, txq, buffer, uart, console, todo, pc, asleep, panic, failed>>

-----------------------------------------------------------------------------
(* The queues of devices/intq.c: circular buffers between threads and      *)
(* interrupt handlers.  The operators give a queue's value after a call.   *)
next(pos) == (pos + 1) % BUFSIZE

intq_init ==
  [buf |-> [k \in 0..BUFSIZE-1 |-> NULL], head |-> 0, tail |-> 0,
   lock |-> NULL, not_full |-> NULL, not_empty |-> NULL]

intq_empty(q) == q.head = q.tail

intq_full(q) == next(q.head) = q.tail

\* The bytes in the queue, oldest first.
Contents(q) ==
  [k \in 1..((q.head - q.tail) % BUFSIZE) |-> q.buf[(q.tail + k - 1) % BUFSIZE]]

\* The byte that intq_getc returns, and the queue once it has signalled.
First(q) == q.buf[q.tail]
intq_getc(q) == [q EXCEPT !.tail = next(@), !.not_full = NULL]

intq_putc(q, byte) ==
  [q EXCEPT !.buf[q.head] = byte, !.head = next(@), !.not_empty = NULL]

-----------------------------------------------------------------------------
Threads == Writers \cup Readers
Bytes == [by : Writers, last : BOOLEAN]

\* A queue holds a byte at least; no thread both prints and reads.
Constants ==
  /\ BUFSIZE \in Nat /\ BUFSIZE > 1 /\ MsgLen \in Nat
  /\ Writers \cap Readers = {}
  /\ NULL \notin Threads /\ NULL \notin Keys /\ NULL \notin Bytes

Init ==
  /\ mode = "UNINIT" /\ txq = intq_init /\ buffer = intq_init
  /\ ier = {} /\ thr = NULL /\ rbr = NULL /\ thri = FALSE
  /\ console_lock = NULL /\ console_lock_depth = 0
  /\ todo = [t \in Writers |-> <<>>]
  /\ pc = [t \in Threads |-> "idle"]
  /\ asleep = {} /\ panic = NULL /\ failed = FALSE

IntrOn == panic = NULL /\ ~failed
At(t, label) == IntrOn /\ pc[t] = label
Goto(t, label) == pc' = [pc EXCEPT ![t] = label]

(***************************************************************************)
(* The serial port.                                                        *)
(***************************************************************************)
\* For bytes to transmit in tq, and room in the input buffer in.
write_ier(tq, in) ==
  ier' = (IF intq_empty(tq) THEN {} ELSE {"XMIT"})
         \cup (IF intq_full(in) THEN {} ELSE {"RECV"})

\* The transmit interrupt becomes pending when it is enabled with THR empty.
Enabled == thri' = (thri \/ (thr = NULL /\ "XMIT" \in ier' \ ier))

\* Waits until THR is empty and writes it, which resets the interrupt.
putc_poll(byte) == thr = NULL /\ thr' = byte

(* Slip: nobody is woken.                                                  *)
Wake_none(waiter) == UNCHANGED asleep

\* Wakes the thread that the queue, before the call, had waiting.
Wake(waiter) == asleep' = asleep \ {waiter}

\* Before serial_init_queue bytes are sent by polling.
PutPolled(byte) ==
  /\ mode # "QUEUE" /\ mode' = "POLL"
  /\ putc_poll(byte) /\ thri' = FALSE
  /\ UNCHANGED <<txq, asleep, ier>>

PutQueued(byte) ==
  /\ mode = "QUEUE" /\ ~intq_full(txq)
  /\ txq' = intq_putc(txq, byte) /\ Wake(txq.not_empty)
  /\ write_ier(txq', buffer) /\ Enabled
  /\ UNCHANGED <<mode, thr>>

(* Slip: the new byte is sent, not the oldest.                             *)
PutFull_new(byte) ==
  /\ mode = "QUEUE" /\ intq_full(txq)
  /\ putc_poll(byte) /\ thri' = FALSE
  /\ write_ier(txq, buffer)
  /\ UNCHANGED <<mode, txq, asleep>>

\* The queue is full and interrupts are off: the oldest byte is sent by polling.
PutFull(byte) ==
  /\ mode = "QUEUE" /\ intq_full(txq)
  /\ putc_poll(First(txq)) /\ thri' = FALSE
  /\ txq' = intq_putc(intq_getc(txq), byte) /\ Wake(txq.not_full)
  /\ write_ier(txq', buffer)
  /\ UNCHANGED mode

serial_init_queue ==
  /\ At(Main, "idle") /\ mode # "QUEUE" /\ mode' = "QUEUE"
  /\ write_ier(txq, buffer) /\ Enabled
  /\ UNCHANGED <<txq, buffer, thr, rbr, console, todo, pc, asleep, panic, failed>>

\* The UART asks for an interrupt.  Reading IIR resets the transmit interrupt
\* when that is the one it names.
Received == "RECV" \in ier /\ rbr # NULL
Transmitted == "XMIT" \in ier /\ thri

Receive ==
  IF ~intq_full(buffer) /\ rbr # NULL
  THEN buffer' = intq_putc(buffer, rbr) /\ rbr' = NULL
  ELSE UNCHANGED <<buffer, rbr>>

Transmit ==
  IF ~intq_empty(txq) /\ thr = NULL
  THEN thr' = First(txq) /\ txq' = intq_getc(txq) /\ thri' = FALSE
  ELSE UNCHANGED <<thr, txq>> /\ thri' = (thri /\ Received)

serial_interrupt ==
  /\ IntrOn /\ mode = "QUEUE" /\ (Received \/ Transmitted)
  /\ Receive /\ Transmit
  /\ asleep' = asleep \ ((IF buffer' = buffer THEN {} ELSE {buffer.not_empty})
                         \cup (IF txq' = txq THEN {} ELSE {txq.not_full}))
  /\ write_ier(txq', buffer')
  /\ UNCHANGED <<mode, console, todo, pc, panic, failed>>

\* The UART sends the byte in THR; a byte arrives while RBR is free.
SendByte ==
  /\ thr # NULL /\ thr' = NULL /\ thri' = TRUE
  /\ UNCHANGED <<mode, txq, buffer, ier, rbr, console, todo, pc, asleep, panic, failed>>

ByteArrives ==
  /\ IntrOn /\ rbr = NULL /\ rbr' \in Keys
  /\ UNCHANGED <<mode, txq, buffer, ier, thr, thri, console, todo, pc, asleep, panic, failed>>

(***************************************************************************)
(* Sleeping on a queue: q is its name, with the field its waiter is in.    *)
(***************************************************************************)
tx == [name |-> "tx", q |-> txq, stuck |-> intq_full(txq), waiter |-> "not_full"]
rx == [name |-> "rx", q |-> buffer, stuck |-> intq_empty(buffer), waiter |-> "not_empty"]

Queues(x, q) ==
  IF x.name = "tx" THEN txq' = q /\ UNCHANGED buffer ELSE buffer' = q /\ UNCHANGED txq

\* lock_acquire, then wait unless the lock is taken.
SleepOn(t, x) ==
  IF x.q.lock = NULL
  THEN /\ Queues(x, [x.q EXCEPT !.lock = t, ![x.waiter] = t])
       /\ asleep' = asleep \cup {t} /\ Goto(t, "waiting")
  ELSE Goto(t, "locking") /\ UNCHANGED <<txq, buffer, asleep>>

\* The lock is got: wait asserts that there is still a reason to.
LockGot(t, x) ==
  /\ At(t, "locking") /\ x.q.lock = NULL
  /\ IF x.stuck
     THEN SleepOn(t, x) /\ UNCHANGED failed
     ELSE failed' = TRUE /\ UNCHANGED <<txq, buffer, asleep, pc>>
  /\ UNCHANGED <<mode, uart, console, todo, panic>>

(* Slip: the lock of the queue is kept.                                    *)
Woken_locked(t, x, label) ==
  /\ At(t, "waiting") /\ t \notin asleep
  /\ Goto(t, label)
  /\ UNCHANGED <<mode, txq, buffer, uart, console, todo, asleep, panic, failed>>

\* Woken by signal: lock_release, and the loop starts again.
Woken(t, x, label) ==
  /\ At(t, "waiting") /\ t \notin asleep
  /\ Queues(x, [x.q EXCEPT !.lock = NULL])
  /\ Goto(t, label)
  /\ UNCHANGED <<mode, uart, console, todo, asleep, panic, failed>>

(***************************************************************************)
(* Input.                                                                  *)
(***************************************************************************)
(* Slip: only room that was lost is looked at.                             *)
serial_notify_full(in) ==
  IF mode = "QUEUE" /\ intq_full(in) THEN write_ier(txq, in) /\ Enabled ELSE UNCHANGED <<ier, thri>>

serial_notify(in) ==
  IF mode = "QUEUE" THEN write_ier(txq, in) /\ Enabled ELSE UNCHANGED <<ier, thri>>

input_getc_waits(t) ==
  /\ At(t, "idle") \/ At(t, "again")
  /\ rx.stuck /\ SleepOn(t, rx)
  /\ UNCHANGED <<mode, uart, console, todo, panic, failed>>

\* A byte is taken; serial_notify reassesses the interrupt.
input_getc(t) ==
  /\ At(t, "idle") \/ At(t, "again")
  /\ ~rx.stuck /\ buffer' = intq_getc(buffer)
  /\ Wake(buffer.not_full) /\ Goto(t, "idle")
  /\ serial_notify(buffer')
  /\ UNCHANGED <<mode, txq, thr, rbr, console, todo, panic, failed>>

(* Slip: a key is stored without a look at the room.                       *)
keyboard_interrupt_full(key) ==
  /\ IntrOn
  /\ buffer' = intq_putc(buffer, key) /\ Wake(buffer.not_empty)
  /\ serial_notify(buffer')
  /\ UNCHANGED <<mode, txq, thr, rbr, console, todo, pc, panic, failed>>

\* The end of keyboard_interrupt: a key is dropped when there is no room.
keyboard_interrupt(key) ==
  /\ IntrOn /\ ~intq_full(buffer)
  /\ buffer' = intq_putc(buffer, key) /\ Wake(buffer.not_empty)
  /\ serial_notify(buffer')
  /\ UNCHANGED <<mode, txq, thr, rbr, console, todo, pc, panic, failed>>

(***************************************************************************)
(* Output: vprintf, puts, putbuf and putchar are messages of one or more   *)
(* characters.  A message printed while another is in hand is nested.      *)
(***************************************************************************)
(* Slip: the console is taken although another thread has it.              *)
acquire_console_any(t) ==
  /\ console_lock' = t
  /\ console_lock_depth' = console_lock_depth + (IF console_lock = t THEN 1 ELSE 0)

acquire_console(t) ==
  IF console_lock = t
  THEN console_lock_depth' = console_lock_depth + 1 /\ UNCHANGED console_lock
  ELSE console_lock = NULL /\ console_lock' = t /\ UNCHANGED console_lock_depth

release_console ==
  IF console_lock_depth > 0
  THEN console_lock_depth' = console_lock_depth - 1 /\ UNCHANGED console_lock
  ELSE console_lock' = NULL /\ UNCHANGED console_lock_depth

CanPrint(t) == mode = "QUEUE" \/ t = Main

putbuf(t) ==
  /\ CanPrint(t)
  /\ (At(t, "idle") /\ todo[t] = <<>>)
     \/ (Nested /\ At(t, "printing") /\ Len(todo[t]) = 1 /\ todo[t][1] > 0)
  /\ acquire_console(t)
  /\ todo' = [todo EXCEPT ![t] = Append(@, MsgLen)]
  /\ Goto(t, "printing")
  /\ UNCHANGED <<mode, txq, buffer, uart, asleep, panic, failed>>

Byte(t) == [by |-> t, last |-> Len(todo[t]) = 1 /\ todo[t] = <<1>>]
Left(t) == todo[t][Len(todo[t])]
Printed(t) == todo' = [todo EXCEPT ![t][Len(todo[t])] = @ - 1]

\* serial_putc of the next character, with interrupts on before the call.
serial_putc(t) ==
  /\ At(t, "printing") /\ Left(t) > 0
  /\ PutPolled(Byte(t)) \/ PutQueued(Byte(t))
  /\ Printed(t)
  /\ UNCHANGED <<buffer, rbr, console, pc, panic, failed>>

serial_putc_waits(t) ==
  /\ At(t, "printing") /\ Left(t) > 0 /\ mode = "QUEUE" /\ tx.stuck
  /\ SleepOn(t, tx)
  /\ UNCHANGED <<mode, uart, console, todo, panic, failed>>

PrintEnds(t) ==
  /\ At(t, "printing") /\ Left(t) = 0
  /\ release_console
  /\ LET outer == SubSeq(todo[t], 1, Len(todo[t]) - 1)
     IN  /\ todo' = [todo EXCEPT ![t] = outer]
         /\ Goto(t, IF outer = <<>> THEN "idle" ELSE "printing")
  /\ UNCHANGED <<mode, txq, buffer, uart, asleep, panic, failed>>

(***************************************************************************)
(* A panic: interrupts off, no console lock, a message, serial_flush.      *)
(***************************************************************************)
debug_panic(t) ==
  /\ IntrOn /\ pc[t] \in {"idle", "printing"} /\ CanPrint(t)
  /\ panic' = t
  /\ todo' = [todo EXCEPT ![t] = <<MsgLen>>]
  /\ UNCHANGED <<mode, txq, buffer, uart, console, pc, asleep, failed>>

PanicPutc ==
  /\ panic # NULL /\ Left(panic) > 0
  /\ LET b == Byte(panic) IN PutPolled(b) \/ PutQueued(b) \/ PutFull(b)
  /\ Printed(panic)
  /\ UNCHANGED <<buffer, rbr, console, pc, panic, failed>>

(* Slip: nothing is flushed.                                               *)
serial_flush_not ==
  /\ panic # NULL /\ Left(panic) = 0 /\ FALSE
  /\ UNCHANGED vars

serial_flush ==
  /\ panic # NULL /\ Left(panic) = 0 /\ ~intq_empty(txq)
  /\ putc_poll(First(txq)) /\ thri' = FALSE
  /\ txq' = intq_getc(txq) /\ Wake(txq.not_full)
  /\ UNCHANGED <<mode, buffer, ier, rbr, console, todo, pc, panic, failed>>

Reader(t) ==
  \/ input_getc_waits(t) \/ input_getc(t)
  \/ LockGot(t, rx) \/ Woken(t, rx, "again")

Writer(t) ==
  \/ putbuf(t) \/ serial_putc(t) \/ serial_putc_waits(t) \/ PrintEnds(t)
  \/ Woken(t, tx, "printing")

Next ==
  \/ \E t \in Readers : Reader(t)
  \/ \E t \in Writers : Writer(t) \/ debug_panic(t)
  \/ \E k \in Keys : keyboard_interrupt(k)
  \/ serial_init_queue \/ serial_interrupt \/ PanicPutc \/ serial_flush
  \/ SendByte \/ ByteArrives

Spec == Init /\ [][Next]_vars

\* What goes on by itself once a writer prints or a reader waits.
Prints(t) == serial_putc(t) \/ serial_putc_waits(t) \/ PrintEnds(t) \/ Woken(t, tx, "printing")
Reads(t) == pc[t] # "idle" /\ Reader(t)
-----------------------------------------------------------------------------
(* Properties.                                                             *)

Unsent == (IF thr = NULL THEN <<>> ELSE <<thr>>) \o Contents(txq)

(* While interrupts are on, IER asks for what serial.c's write_ier says:   *)
(* a transmit interrupt exactly when there are bytes to transmit, a        *)
(* receive interrupt exactly when there is room.  No path forgets it.      *)
InterruptsMatchQueues ==
  mode = "QUEUE" /\ panic = NULL =>
    /\ "XMIT" \in ier <=> ~intq_empty(txq)
    /\ "RECV" \in ier <=> ~intq_full(buffer)

(* The console lock "is useful to prevent simultaneous printf() calls from *)
(* mixing their output": the thread changes only where a message ended.    *)
(* After a panic the lock is not taken any more.                           *)
MessagesNotMixed ==
  panic = NULL =>
    \A k \in 1..(Len(Unsent) - 1) : Unsent[k].by # Unsent[k + 1].by => Unsent[k].last

(* Messages do not mix, and interrupts are enabled exactly for what the    *)
(* queues can give and take.                                               *)
QueuesServed == MessagesNotMixed /\ InterruptsMatchQueues

(* Bytes leave the UART in the order of the serial_putc calls, each once,  *)
(* whether they went by polling, by interrupt, or past a full queue with   *)
(* interrupts off.  Keys are returned by input_getc in the order in which  *)
(* they were stored, from serial line and keyboard, and none twice.        *)
Output == INSTANCE Channel WITH pending <- Unsent
Input == INSTANCE Channel WITH pending <- Contents(buffer), Bytes <- Keys
BytesInOrder == Output!Spec /\ Input!Spec
=============================================================================

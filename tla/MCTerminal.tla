----------------------------- MODULE MCTerminal ------------------------------
(***************************************************************************)
(* Terminal for TLC, in one of four situations per behaviour:              *)
(*   print: two threads print messages, and may panic;                     *)
(*   nest:  they print messages inside messages as well;                   *)
(*   read:  one thread reads keys that are typed and received;             *)
(*   share: two threads read, and a third prints.                          *)
(* The constants given to Terminal itself are the largest of the four: its *)
(* properties are checked in all of them.                                  *)
(***************************************************************************)
EXTENDS Terminal

CONSTANTS w, v, r, s, k, l

VARIABLE scenario

Printers == INSTANCE Terminal WITH
  Writers <- {w, v}, Readers <- {}, Keys <- {}, MsgLen <- 2, Nested <- FALSE
Nest == INSTANCE Terminal WITH
  Writers <- {w, v}, Readers <- {}, Keys <- {}, MsgLen <- 2, Nested <- TRUE
Read == INSTANCE Terminal WITH
  Writers <- {w}, Readers <- {r}, Keys <- {k, l}, MsgLen <- 1, Nested <- FALSE
Share == INSTANCE Terminal WITH
  Writers <- {w}, Readers <- {r, s}, Keys <- {k}, MsgLen <- 1, Nested <- FALSE

ASSUME TerminalAssumption ==
  Constants /\ Printers!Constants /\ Nest!Constants /\ Read!Constants /\ Share!Constants

MCInit ==
  \/ scenario \in {"print", "nest"} /\ Printers!Init
  \/ scenario = "read" /\ Read!Init
  \/ scenario = "share" /\ Share!Init

MCNext ==
  /\ \/ scenario = "print" /\ Printers!Next
     \/ scenario = "nest" /\ Nest!Next
     \/ scenario = "read" /\ Read!Next
     \/ scenario = "share" /\ Share!Next
  /\ UNCHANGED scenario

\* What has been started goes on: a thread that can run does, the UART sends, and
\* an interrupt that it asks for is taken.  Nobody has to print, read or type.
Printing(A) == scenario = "print" /\ A
Reading(A) == scenario = "read" /\ A
MCSpec ==
  /\ MCInit /\ [][MCNext]_<<scenario, vars>>
  /\ \A t \in Writers : WF_vars(Printing(Printers!Prints(t)))
  /\ WF_vars(Reading(Read!Reads(r)))
  /\ WF_vars(Printing(Printers!serial_interrupt) \/ Reading(Read!serial_interrupt))
  /\ WF_vars(Printing(Printers!SendByte))
  /\ WF_vars(Printing(Printers!PanicPutc)) /\ WF_vars(Printing(Printers!serial_flush))

-----------------------------------------------------------------------------
\* A thread that prints gets rid of the console again: wait (intq.c) never sleeps
\* for a transmit interrupt that is not enabled.
PrintReturns ==
  \A t \in Writers :
    scenario = "print" /\ console_lock = t ~> (console_lock # t \/ panic # NULL)

\* When no thread prints any more, or one panicked, all output gets sent.
OutputDrains ==
  <>[](scenario = "print" /\ \A t \in DOMAIN pc : pc[t] = "idle" \/ panic # NULL)
    => <>[](Unsent = <<>>)

\* A reader that sleeps in intq_getc gets a key when there is one.
ReaderWakes ==
  scenario = "read" /\ pc[r] = "waiting" /\ Contents(buffer) # <<>>
    ~> (scenario # "read" \/ pc[r] = "idle" \/ panic # NULL)

\* Nobody is left waiting on the terminal.
TerminalLive == PrintReturns /\ OutputDrains /\ ReaderWakes
=============================================================================

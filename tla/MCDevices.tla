------------------------------ MODULE MCDevices ------------------------------
(***************************************************************************)
(* The drivers of disk, partitions, keyboard and screen for TLC.  They     *)
(* share no state here: a behaviour explores one of them, the others rest. *)
(***************************************************************************)
EXTENDS Ide, Partition

CONSTANTS p, q, val_a, val_b, NoChar

VARIABLES part,
  down, caps_lock, input, rebooted, held, last, toggled,
  inited, fb, cx, cy, cp, beeping, page, row, column

keyboard == <<down, caps_lock, input, rebooted, held, last, toggled>>
screen == <<inited, fb, cx, cy, cp, beeping, page, row, column>>

\* Reads and writes of a sector of two disks on one channel.
Read(d) == [op |-> "read", where |-> <<d, 1>>]
Write(d, v) == [op |-> "write", where |-> <<d, 1>>, data |-> v]
MCRequests == {Read(d) : d \in Devices} \cup {Write(d, v) : d \in Devices, v \in Data}
ASSUME IdeAssumption == IdeConstants

\* Disks of ten sectors, numbered modulo 16.  The master boot record has any
\* entry, followed by an extended partition or by nothing.
E(type, offset, size) == [type |-> type, offset |-> offset, size |-> size]
DiskOf(mbr) ==
  [n \in 1..10 |-> CASE n = 1 -> mbr [] n = 7 -> <<E("pintos", 1, 2)>> [] OTHER -> NoTable]
MCDisks ==
  {DiskOf(<<E(t, off, sz)>> \o rest) :
     t \in {"none", "pintos", "foreign"}, off \in 0..15, sz \in 0..15,
     rest \in {<<>>, <<E("extended", 6, 4)>>, <<E("extended", 2, 4)>>}}
  \cup {DiskOf(NoTable)}
ASSUME PartitionAssumption == TableConstants

\* The shift keys and Caps Lock; keys with a letter, with one character in each
\* keymap, Delete; F1, the arrow and the Delete key with a prefix.
Kbd == INSTANCE Kbd WITH
  Keys <- {42, 54, 56, 29, 58, 30, 50, 2, 3, 26, 51, 83, 59}
          \cup {224 * 256 + k : k \in {56, 29, 72, 83}},
  MaxHeld <- 3

\* A screen of two rows of three columns, with a tab stop that is not a divisor.
Vga == INSTANCE Vga WITH
  COL_CNT <- 3, ROW_CNT <- 2, Tab <- 2, Characters <- {val_a, val_b}, Blank <- NoChar, MaxRows <- 3

MCInit ==
  /\ part \in {"ide", "partition", "kbd", "vga"}
  /\ IdeInit /\ (part # "ide" => media = [s \in Devices \X SectorNos |-> val_a])
  /\ ScanInit /\ (part # "partition" => disk = DiskOf(NoTable))
  /\ Kbd!Init
  /\ \/ part = "vga" /\ Vga!Init
     \/ /\ part # "vga"
        /\ inited = FALSE /\ fb = <<>> /\ cx = 0 /\ cy = 0 /\ cp = 0 /\ beeping = FALSE
        /\ page = <<>> /\ row = 1 /\ column = 0

MCNext ==
  /\ \/ part = "ide" /\ IdeNext /\ UNCHANGED <<tables, keyboard, screen>>
     \/ part = "partition" /\ ScanNext /\ UNCHANGED <<channel, keyboard, screen>>
     \/ part = "kbd" /\ Kbd!Next /\ UNCHANGED <<channel, tables, screen>>
     \/ part = "vga" /\ Vga!Next /\ UNCHANGED <<channel, tables, keyboard>>
  /\ UNCHANGED part

\* The scheduler runs every ready thread, the disk answers, and its interrupt is
\* taken.  Nothing is assumed about who gets the lock: a thread that releases it may
\* take it again before the one that it woke has run.
Disk(A) == part = "ide" /\ A
MCSpec ==
  /\ MCInit /\ [][MCNext]_<<part, channel, tables, keyboard, screen>>
  /\ \A t \in Procs : WF_channel(Disk(Step(t)))
  /\ WF_channel(Disk(interrupt_handler)) /\ WF_channel(Disk(Controller))

-----------------------------------------------------------------------------
\* Whoever has the channel is answered and gives it up, or the kernel has stopped for
\* a disk that failed: no completion interrupt is missed between the command and the
\* wait for it.  One that waits for the channel gets it and is answered if the others
\* make no more requests; otherwise they may overtake it again and again.
Others(t) == Procs \ {t}
ChannelServed ==
  \A t \in Procs :
    /\ []<>(panicked \/ lock # t)
    /\ <>[](\A u \in Others(t) : stage[u] = "idle") => []<>(panicked \/ stage[t] = "idle")

\* The driver knows which shift keys are held, and a letter comes out as they say:
\* see Kbd.
KeysExact == Kbd!KeyStateExact /\ Kbd!LetterOfKeys

\* The screen shows the last rows that were written, and the cursor is where the
\* next character will appear: see Vga.
ScreenExact == part = "vga" => Vga!ScreenShowsText /\ Vga!CursorShown
=============================================================================

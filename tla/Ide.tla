--------------------------------- MODULE Ide ---------------------------------
(***************************************************************************)
(* The ATA driver, devices/ide.c, for one channel with its two disks: the  *)
(* channel's lock, the registers a request is programmed into, the command *)
(* and the interrupt that answers it.  The controller is external: it is   *)
(* modelled by what the driver relies on.  A read sets BSY until the data  *)
(* is there, then DRQ and the interrupt line; a write asks for the data    *)
(* with DRQ alone, is busy storing it, and then raises the interrupt.      *)
(***************************************************************************)
EXTENDS Naturals

CONSTANTS Procs, Devices, SectorNos, Data,
          Requests,      \* requests the processes make
          Faults,        \* may the disk fail a command or not answer?
          Nothing

IdeConstants == /\ Nothing \notin Procs \cup Requests
             /\ \A r \in Requests : r.op \in {"read", "write"} /\ r.where \in Devices \X SectorNos

VARIABLES lock,                 \* who holds the channel's lock, or Nothing
          expecting_interrupt, completion_wait,
          registers,            \* the device and sector selected
          phase,                \* what the controller is doing
          sector_buffer,               \* the sector in the controller
          line,                 \* is an interrupt pending?
          media,                \* the contents of the disks
          request, result, stage, panicked

driver == <<lock, expecting_interrupt, completion_wait, stage, request, result, panicked>>
controller == <<registers, phase, sector_buffer, line, media>>
channel == <<driver, controller>>

IdeInit == /\ lock = Nothing /\ expecting_interrupt = FALSE /\ completion_wait = 0
        /\ registers = Nothing /\ phase = "idle" /\ sector_buffer = Nothing
        /\ line = FALSE
        /\ media \in [Devices \X SectorNos -> Data]
        /\ request = [p \in Procs |-> Nothing] /\ result = [p \in Procs |-> Nothing]
        /\ stage = [p \in Procs |-> "idle"]
        /\ panicked = FALSE

BSY == phase \in {"fetching", "accepting", "storing"}
DRQ == phase \in {"fetched", "accepted"}

Reached(p, l) == ~panicked /\ stage[p] = l
Enter(p, l) == stage' = [stage EXCEPT ![p] = l]
op(p) == request[p].op

(* block_read or block_write is called for a disk.                         *)
block_request(p) == /\ Reached(p, "idle")
                    /\ \E r \in Requests : request' = [request EXCEPT ![p] = r]
                    /\ Enter(p, "lock")
                    /\ UNCHANGED <<lock, expecting_interrupt, completion_wait, result, panicked>>
                    /\ UNCHANGED controller

lock_acquire(p) == /\ Reached(p, "lock") /\ lock = Nothing
                   /\ lock' = p /\ Enter(p, "select")
                   /\ UNCHANGED <<expecting_interrupt, completion_wait, request, result, panicked>>
                   /\ UNCHANGED controller

(* Slip: the bit that selects the slave is not set.                        *)
select_sector_master(p) == /\ Reached(p, "select") /\ ~BSY /\ ~DRQ
                           /\ registers' = <<0, request[p].where[2]>>
                           /\ Enter(p, "issue")
                           /\ UNCHANGED <<phase, sector_buffer, line, media>>
                           /\ UNCHANGED <<lock, expecting_interrupt, completion_wait,
                                          request, result, panicked>>

(* wait_until_idle does not run into its time-out: by ChannelIdle the      *)
(* channel is idle when the lock is taken.                                 *)
select_sector(p) == /\ Reached(p, "select") /\ ~BSY /\ ~DRQ
                    /\ registers' = request[p].where
                    /\ Enter(p, "issue")
                    /\ UNCHANGED <<phase, sector_buffer, line, media>>
                    /\ UNCHANGED <<lock, expecting_interrupt, completion_wait, request, result, panicked>>

(* Slip: the command is written before the interrupt is expected.          *)
issue_pio_command_late(p) ==
  /\ \/ /\ Reached(p, "issue")
        /\ phase' = IF op(p) = "read" THEN "fetching" ELSE "accepting"
        /\ Enter(p, "command") /\ UNCHANGED expecting_interrupt
     \/ /\ Reached(p, "command")
        /\ expecting_interrupt' = TRUE
        /\ Enter(p, IF op(p) = "read" THEN "sema_down" ELSE "busy")
        /\ UNCHANGED phase
  /\ UNCHANGED <<lock, completion_wait, request, result, panicked>>
  /\ UNCHANGED <<registers, sector_buffer, line, media>>

issue_pio_command(p) ==
  /\ \/ /\ Reached(p, "issue")
        /\ expecting_interrupt' = TRUE
        /\ Enter(p, "command") /\ UNCHANGED phase
     \/ /\ Reached(p, "command")
        /\ phase' = IF op(p) = "read" THEN "fetching" ELSE "accepting"
        /\ Enter(p, IF op(p) = "read" THEN "sema_down" ELSE "busy")
        /\ UNCHANGED expecting_interrupt
  /\ UNCHANGED <<lock, completion_wait, request, result, panicked>>
  /\ UNCHANGED <<registers, sector_buffer, line, media>>

(* Slip: a write does not wait for the disk's answer.                      *)
After_output(p) == "release"

(* ide_write waits for the interrupt after the transfer, ide_read before.  *)
After(p) == IF op(p) = "read" THEN "release" ELSE "sema_down"

sema_down(p) == /\ Reached(p, "sema_down") /\ completion_wait > 0
                /\ completion_wait' = completion_wait - 1
                /\ Enter(p, IF op(p) = "read" THEN "busy" ELSE "release")
                /\ UNCHANGED <<lock, expecting_interrupt, request, result, panicked>>
                /\ UNCHANGED controller

(* The disk is no longer busy: DRQ says whether the command succeeded.     *)
wait_while_busy(p) == /\ Reached(p, "busy") /\ ~BSY /\ DRQ
                      /\ Enter(p, "transfer")
                      /\ UNCHANGED <<lock, expecting_interrupt, completion_wait, request, result, panicked>>
                      /\ UNCHANGED controller

(* The command failed, or the disk was busy for 30 seconds.                *)
disk_failed(p) == /\ Reached(p, "busy") /\ ~DRQ /\ (BSY => Faults)
                  /\ panicked' = TRUE
                  /\ UNCHANGED <<lock, expecting_interrupt, completion_wait, request, result, stage>>
                  /\ UNCHANGED controller

input_sector(p) == /\ Reached(p, "transfer") /\ op(p) = "read"
                   /\ result' = [result EXCEPT ![p] = sector_buffer]
                   /\ phase' = "idle" /\ Enter(p, After(p))
                   /\ UNCHANGED <<lock, expecting_interrupt, completion_wait, request, panicked>>
                   /\ UNCHANGED <<registers, sector_buffer, line, media>>

output_sector(p) == /\ Reached(p, "transfer") /\ op(p) = "write"
                    /\ sector_buffer' = request[p].data
                    /\ phase' = "storing" /\ Enter(p, After(p))
                    /\ UNCHANGED <<lock, expecting_interrupt, completion_wait, request, result, panicked>>
                    /\ UNCHANGED <<registers, line, media>>

lock_release(p) == /\ Reached(p, "release")
                   /\ lock' = Nothing /\ request' = [request EXCEPT ![p] = Nothing]
                   /\ Enter(p, "idle")
                   /\ UNCHANGED <<expecting_interrupt, completion_wait, result, panicked>>
                   /\ UNCHANGED controller

(* The handler of the channel's interrupt.  An unexpected one is printed   *)
(* and otherwise ignored.                                                  *)
interrupt_handler == /\ ~panicked /\ line
                     /\ line' = FALSE
                     /\ completion_wait' = IF expecting_interrupt THEN completion_wait + 1
                                                                  ELSE completion_wait
                     /\ UNCHANGED <<lock, expecting_interrupt, stage, request, result, panicked>>
                     /\ UNCHANGED <<registers, phase, sector_buffer, media>>

-----------------------------------------------------------------------------
(* The controller.                                                         *)
Fetch == /\ phase = "fetching"
         /\ sector_buffer' = media[registers] /\ phase' = "fetched" /\ line' = TRUE
         /\ UNCHANGED <<registers, media>> /\ UNCHANGED driver

Accept == /\ phase = "accepting"
          /\ phase' = "accepted"
          /\ UNCHANGED <<registers, sector_buffer, line, media>> /\ UNCHANGED driver

StoreSector == /\ phase = "storing"
               /\ media' = [media EXCEPT ![registers] = sector_buffer]
               /\ phase' = "idle" /\ line' = TRUE
               /\ UNCHANGED <<registers, sector_buffer>> /\ UNCHANGED driver

(* A command that fails before its data is transferred.                    *)
Fail == /\ Faults /\ phase \in {"fetching", "accepting"}
        /\ phase' = "idle" /\ line' = TRUE
        /\ UNCHANGED <<registers, sector_buffer, media>> /\ UNCHANGED driver

(* A store that fails after the data is transferred leaves the sector as   *)
(* it was or spoilt.  ide_write takes the interrupt for the completion and *)
(* does not look at the status again.                                      *)
StoreFails == /\ Faults /\ phase = "storing"
              /\ \E v \in Data : media' = [media EXCEPT ![registers] = v]
              /\ phase' = "idle" /\ line' = TRUE
              /\ UNCHANGED <<registers, sector_buffer>> /\ UNCHANGED driver

Step(p) == \/ lock_acquire(p) \/ select_sector(p) \/ issue_pio_command(p)
           \/ sema_down(p) \/ wait_while_busy(p) \/ disk_failed(p)
           \/ input_sector(p) \/ output_sector(p) \/ lock_release(p)

Controller == Fetch \/ Accept \/ StoreSector \/ Fail \/ StoreFails

IdeNext == (\E p \in Procs : block_request(p) \/ Step(p)) \/ interrupt_handler \/ Controller

IdeSpec == IdeInit /\ [][IdeNext]_channel

-----------------------------------------------------------------------------
(* When nobody holds the lock the controller is idle, no interrupt is      *)
(* pending and no completion is left over: no request can be answered by   *)
(* the completion of an earlier one ("Internally synchronizes accesses to  *)
(* disks", ide_read and ide_write).                                        *)
ChannelIdle == lock = Nothing => phase = "idle" /\ ~line /\ completion_wait = 0

(* The promise of block.c: the driver implements the abstract disk.  A     *)
(* write is received once the controller is done with it; a read returns   *)
(* with the step that takes the data from the controller.  Only a disk     *)
(* with faults loses a write, and then in its own sector.                  *)
Returned(p) == stage[p] = "release" /\ op(p) = "read"
Stored(p) == /\ request[p] # Nothing /\ op(p) = "write"
             /\ stage[p] \in {"sema_down", "release"} /\ phase # "storing"

Promise == INSTANCE Disk WITH
             NULL    <- Nothing,
             store   <- media,
             request <- [p \in Procs |-> IF Returned(p) THEN Nothing ELSE request[p]],
             written <- [p \in Procs |-> Stored(p)]
IsDisk == Promise!Spec /\ []ChannelIdle
=============================================================================

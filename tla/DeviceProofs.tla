---------------------------- MODULE DeviceProofs ----------------------------
(***************************************************************************)
(* The devices, for any processes, disks, queues and messages: the ATA     *)
(* driver implements a disk, requests stay inside their partition, and the *)
(* terminal keeps bytes in order and messages apart.                       *)
(***************************************************************************)
EXTENDS Integers, Sequences, Ide, Partition, Terminal, TLAPS

-----------------------------------------------------------------------------
(* The disk driver.                                                        *)

IdeLabels == {"idle", "lock", "select", "issue", "command", "sema_down", "busy", "transfer", "release"}
Phases == {"idle", "fetching", "fetched", "accepting", "accepted", "storing"}

IdeType ==
  /\ lock \in Procs \cup {Nothing}
  /\ stage \in [Procs -> IdeLabels]
  /\ request \in [Procs -> Requests \cup {Nothing}]
  /\ phase \in Phases /\ completion_wait \in Nat /\ line \in BOOLEAN
  /\ \A p \in Procs : stage[p] = "idle" <=> request[p] = Nothing
  /\ \A p \in Procs : stage[p] \notin {"idle", "lock"} <=> lock = p

\* No interrupt is pending and none was counted, or one of the two.
Clear == ~line /\ completion_wait = 0
Answered == (line /\ completion_wait = 0) \/ (~line /\ completion_wait = 1)

\* What the channel is doing while p reads,
Reading(p) ==
  \/ stage[p] \in {"select", "issue", "command", "release"} /\ phase = "idle" /\ Clear
  \/ stage[p] = "sema_down" /\ phase = "fetching" /\ Clear
  \/ stage[p] = "sema_down" /\ phase \in {"fetched", "idle"} /\ Answered
  \/ stage[p] = "busy" /\ phase \in {"fetched", "idle"} /\ Clear
  \/ stage[p] = "transfer" /\ phase = "fetched" /\ Clear

\* and while it writes.
Writing(p) ==
  \/ stage[p] \in {"select", "issue", "command", "release"} /\ phase = "idle" /\ Clear
  \/ stage[p] = "busy" /\ phase \in {"accepting", "accepted"} /\ Clear
  \/ stage[p] = "busy" /\ phase = "idle" /\ Answered
  \/ stage[p] = "transfer" /\ phase = "accepted" /\ Clear
  \/ stage[p] = "sema_down" /\ phase = "storing" /\ Clear
  \/ stage[p] = "sema_down" /\ phase = "idle" /\ Answered

\* The process that has the lock has the channel to itself.
Owns(p) ==
  /\ request[p].op = "read" => Reading(p)
  /\ request[p].op = "write" => Writing(p)
  /\ stage[p] # "select" => registers = request[p].where
  /\ stage[p] \notin {"select", "issue"} => expecting_interrupt
  /\ phase = "fetched" => sector_buffer = media[registers]
  /\ phase = "storing" => sector_buffer = request[p].data

\* The inductive invariant: an unlocked channel is idle, and a locked one is where the
\* holder's request left it.
IdeInv ==
  /\ IdeType
  /\ lock = Nothing => phase = "idle" /\ Clear
  /\ lock # Nothing => Owns(lock)

\* A step of p keeps what the others rely on if it leaves their requests alone and
\* only takes or gives back the lock.
LEMMA IdeType1 ==
  ASSUME IdeConstants, IdeType, NEW p \in Procs, NEW label \in IdeLabels,
         NEW r \in Requests \cup {Nothing},
         stage' = [stage EXCEPT ![p] = label], request' = [request EXCEPT ![p] = r],
         label = "idle" <=> r = Nothing,
         label \notin {"idle", "lock"} <=> lock' = p,
         lock' = lock \/ (lock \in {p, Nothing} /\ lock' \in {p, Nothing}),
         phase' \in Phases, completion_wait' \in Nat, line' \in BOOLEAN
  PROVE  /\ IdeType'
         /\ stage'[p] = label /\ request'[p] = r
         /\ \A q \in Procs \ {p} : stage'[q] = stage[q] /\ request'[q] = request[q]
<1>1. /\ stage' \in [Procs -> IdeLabels] /\ request' \in [Procs -> Requests \cup {Nothing}]
      /\ stage'[p] = label /\ request'[p] = r
      /\ \A q \in Procs \ {p} : stage'[q] = stage[q] /\ request'[q] = request[q]
  BY Zenon DEF IdeType
<1>2. Nothing \notin Procs
  BY Zenon DEF IdeConstants
<1> QED
  BY <1>1, <1>2 DEF IdeType

\* What the callers of the block device see.
Seen(p) == IF Returned(p) THEN Nothing ELSE request[p]

\* Nothing that the callers see changes.
LEMMA IdeQuiet ==
  ASSUME media' = media, result' = result,
         \A p \in Procs : Seen(p)' = Seen(p) /\ (Stored(p)' <=> Stored(p))
  PROVE  UNCHANGED Promise!vars
<1>1. [p \in Procs |-> Stored(p)]' = [p \in Procs |-> Stored(p)]
  <2>1. \A p \in Procs : Stored(p)' = Stored(p)
    BY Zenon DEF Stored
  <2> QED
    BY <2>1, Zenon
<1>2. [p \in Procs |-> Seen(p)]' = [p \in Procs |-> Seen(p)]
  BY Zenon
<1> QED
  BY <1>1, <1>2, Zenon DEF Promise!vars, Seen

\* The holder of the lock p goes on with its request.
Proceeds(p, label) ==
  /\ lock = p /\ lock' = p /\ request' = request /\ stage' = [stage EXCEPT ![p] = label]
  /\ phase' \in Phases /\ completion_wait' \in Nat /\ line' \in BOOLEAN

\* That concerns nobody else.
LEMMA IdeProceeds ==
  ASSUME IdeConstants, IdeInv, NEW p \in Procs, NEW label \in IdeLabels \ {"idle", "lock"},
         Proceeds(p, label)
  PROVE  /\ IdeType' /\ Owns(p) /\ stage'[p] = label /\ request[p] \in Requests
         /\ request[p].op \in {"read", "write"} /\ request[p] # Nothing
         /\ Owns(p)' => IdeInv'
         /\ \A q \in Procs \ {p} : Seen(q)' = Seen(q) /\ ~Stored(q) /\ ~Stored(q)'
<1>1. IdeType /\ Owns(p) /\ p # Nothing
  BY Zenon DEF IdeInv, Proceeds, IdeConstants
<1>2. stage[p] # "idle" /\ request[p] \in Requests /\ request[p] # Nothing
  BY <1>1 DEF IdeType, Proceeds, IdeConstants
<1>3. request' = [request EXCEPT ![p] = request[p]]
  BY <1>1, Zenon DEF Proceeds, IdeType
<1>4. /\ IdeType' /\ stage'[p] = label
      /\ \A q \in Procs \ {p} : stage'[q] = stage[q] /\ request'[q] = request[q]
  <2>1. label \in IdeLabels /\ label # "idle" /\ label # "lock" /\ lock' = p /\ lock = p
    BY Zenon DEF Proceeds
  <2>2. /\ stage' = [stage EXCEPT ![p] = label]
        /\ phase' \in Phases /\ completion_wait' \in Nat /\ line' \in BOOLEAN
    BY Zenon DEF Proceeds
  <2>3. request[p] \in Requests \cup {Nothing} /\ (label = "idle" <=> request[p] = Nothing)
    BY <1>2, <2>1, Zenon
  <2> QED
    BY ONLY IdeConstants, p \in Procs, <1>1, <1>3, <2>1, <2>2, <2>3, IdeType1, Zenon
<1>5. \A q \in Procs \ {p} : stage[q] \in {"idle", "lock"}
  BY <1>1, Zenon DEF IdeType, Proceeds
<1>6. \A q \in Procs \ {p} : Seen(q)' = Seen(q) /\ ~Stored(q) /\ ~Stored(q)'
  BY <1>4, <1>5, Zenon DEF Seen, Returned, Stored
<1>7. request[p].op \in {"read", "write"}
  BY <1>2, Zenon DEF IdeConstants
<1>8. Owns(p)' => IdeInv'
  BY <1>1, <1>4, Zenon DEF IdeInv, Proceeds
<1> QED
  BY <1>1, <1>2, <1>4, <1>6, <1>7, <1>8, Zenon

\* The holder of the lock goes on, and nothing is seen of it.
Quiet(p) == /\ select_sector(p) \/ issue_pio_command(p) \/ wait_while_busy(p)
               \/ sema_down(p) \/ output_sector(p)

\* Such a step keeps the invariant and maps to a stutter.
LEMMA IdeQuietStep ==
  ASSUME IdeConstants, IdeInv, NEW p \in Procs, Quiet(p)
  PROVE  IdeInv' /\ UNCHANGED Promise!vars
<1> USE DEF Reached, Enter, controller, driver, op, BSY, DRQ, After
<1> USE DEF select_sector, issue_pio_command, wait_while_busy,
            sema_down, output_sector
<1>1. PICK label \in IdeLabels \ {"idle", "lock"} : Proceeds(p, label)
  <2>1. IdeType
    BY Zenon DEF IdeInv
  <2>2. lock = p /\ lock' = p /\ request' = request
    BY <2>1, Zenon DEF Quiet, IdeType
  <2>3. phase' \in Phases /\ completion_wait' \in Nat /\ line' \in BOOLEAN
    BY <2>1 DEF Quiet, IdeType, Phases
  <2>4. \E label \in IdeLabels \ {"idle", "lock"} : stage' = [stage EXCEPT ![p] = label]
    BY Zenon DEF Quiet, IdeLabels
  <2> QED
    BY <2>2, <2>3, <2>4, Zenon DEF Proceeds
<1>2. /\ Owns(p) /\ stage'[p] = label /\ (Owns(p)' => IdeInv')
      /\ request[p].op \in {"read", "write"} /\ request'[p] = request[p]
      /\ \A q \in Procs \ {p} : Seen(q)' = Seen(q) /\ ~Stored(q) /\ ~Stored(q)'
  BY <1>1, IdeProceeds, Zenon DEF Proceeds
<1>3. stage' = [stage EXCEPT ![p] = label] /\ stage \in [Procs -> IdeLabels] /\ completion_wait \in Nat
  BY <1>1, Zenon DEF Proceeds, IdeInv, IdeType
<1>4. Owns(p)'
  <2>1. CASE select_sector(p)
    <3>1. stage[p] = "select" /\ stage'[p] = "issue" 
      BY <2>1, <1>3, Zenon
    <3> QED
      BY <2>1, <3>1, <1>2, Zenon DEF Owns, Reading, Writing, Clear
  <2>2. CASE issue_pio_command(p) /\ stage[p] = "issue"
    <3>1. stage'[p] = "command"
      BY <2>2, <1>3, Zenon
    <3> QED
      BY <2>2, <3>1, <1>2, Zenon DEF Owns, Reading, Writing, Clear
  <2>3. CASE issue_pio_command(p) /\ stage[p] = "command"
    <3>1. stage'[p] = IF request[p].op = "read" THEN "sema_down" ELSE "busy"
      BY <2>3, <1>3, Zenon
    <3> QED
      BY <2>3, <3>1, <1>2, Zenon DEF Owns, Reading, Writing, Clear
  <2>4. CASE wait_while_busy(p)
    <3>1. stage[p] = "busy" /\ stage'[p] = "transfer"
      BY <2>4, <1>3, ZenonT(40)
    <3> QED
      BY <2>4, <3>1, <1>2, Zenon DEF Owns, Reading, Writing, Clear
  <2>5. CASE sema_down(p)
    <3>1. stage[p] = "sema_down" /\ stage'[p] = IF request[p].op = "read" THEN "busy" ELSE "release"
      BY <2>5, <1>3, Zenon
    <3>2. Clear' /\ Answered
      BY <2>5, <3>1, <1>2, <1>3 DEF Owns, Reading, Writing, Clear, Answered
    <3> QED
      BY <2>5, <3>1, <3>2, <1>2 DEF Owns, Reading, Writing, Clear, Answered
  <2>6. CASE output_sector(p)
    <3>1. stage[p] = "transfer" /\ stage'[p] = "sema_down"
      BY <2>6, <1>3, Zenon
    <3> QED
      BY <2>6, <3>1, <1>2, Zenon DEF Owns, Reading, Writing, Clear
  <2> QED
    BY <2>1, <2>2, <2>3, <2>4, <2>5, <2>6, Zenon DEF Quiet
<1>5. Seen(p)' = Seen(p)
  <2>1. ~Returned(p)
    BY Zenon DEF Quiet, Returned
  <2>2. ~Returned(p)'
    BY <1>2, <1>3, Zenon DEF Quiet, Returned
  <2> QED
    BY <1>2, <2>1, <2>2, Zenon DEF Seen
<1>6. Stored(p)' <=> Stored(p)
  <2>1. CASE sema_down(p)
    BY <2>1, <1>2, <1>3, Zenon DEF Stored, Owns, Writing, Clear
  <2>2. CASE ~sema_down(p)
    BY <2>2, <1>2, <1>3, Zenon DEF Stored, Quiet
  <2> QED
    BY <2>1, <2>2, Zenon
<1>7. media' = media /\ result' = result
  BY Zenon DEF Quiet
<1>8. UNCHANGED Promise!vars
  BY <1>2, <1>5, <1>6, <1>7, IdeQuiet, Zenon
<1> QED
  BY <1>2, <1>4, <1>8, Zenon

\* A read returns to its caller with the sector the disk holds.
LEMMA IdeReturnsRead ==
  ASSUME IdeConstants, IdeInv, NEW p \in Procs, input_sector(p)
  PROVE  IdeInv' /\ Promise!ReturnRead(p)
<1> USE DEF Reached, Enter, controller, driver, op, After, input_sector
<1>1. Proceeds(p, "release")
  BY Zenon DEF Proceeds, IdeInv, IdeType, Phases
<1>2. /\ Owns(p) /\ stage'[p] = "release" /\ (Owns(p)' => IdeInv')
      /\ request[p] # Nothing /\ request'[p] = request[p]
      /\ \A q \in Procs \ {p} : Seen(q)' = Seen(q) /\ ~Stored(q) /\ ~Stored(q)'
  BY <1>1, IdeProceeds, Zenon DEF Proceeds, IdeLabels
<1>3. stage[p] = "transfer" /\ phase = "fetched" /\ sector_buffer = media[request[p].where] /\ Clear
  BY <1>2, Zenon DEF Owns, Reading
<1>4. Owns(p)'
  BY <1>2, <1>3, Zenon DEF Owns, Reading, Writing, Clear
<1>5. Seen(p) = request[p] /\ Seen(p)' = Nothing /\ ~Stored(p) /\ ~Stored(p)'
  BY <1>2, <1>3, Zenon DEF Seen, Returned, Stored
<1>6. [q \in Procs |-> Seen(q)'] = [[q \in Procs |-> Seen(q)] EXCEPT ![p] = Nothing]
  BY <1>2, <1>5, Zenon
<1>7. [q \in Procs |-> Stored(q)'] = [q \in Procs |-> Stored(q)]
  <2>1. \A q \in Procs : Stored(q)' = Stored(q)
    BY <1>2, <1>5, Zenon DEF Stored
  <2> QED
    BY <2>1, Zenon
<1>8. result' = [result EXCEPT ![p] = media[request[p].where]] /\ media' = media
  BY <1>3, Zenon
<1>9. Promise!ReturnRead(p)
  BY <1>2, <1>5, <1>6, <1>7, <1>8, Zenon DEF Promise!ReturnRead, Seen
<1> QED
  BY <1>2, <1>4, <1>9, Zenon

\* A caller makes a request.
LEMMA IdeInvokes ==
  ASSUME IdeConstants, IdeInv, NEW p \in Procs, block_request(p)
  PROVE  IdeInv' /\ Promise!Invoke(p)
<1> USE DEF Reached, Enter, controller, op, block_request
<1>1. PICK r \in Requests : request' = [request EXCEPT ![p] = r]
  BY Zenon
<1>2. IdeType /\ r # Nothing /\ stage[p] = "idle" /\ request[p] = Nothing /\ lock # p /\ lock' = lock
  BY Zenon DEF IdeInv, IdeType, IdeConstants
<1>3. /\ IdeType' /\ stage'[p] = "lock" /\ request'[p] = r
      /\ \A q \in Procs \ {p} : stage'[q] = stage[q] /\ request'[q] = request[q]
  <2>1. /\ "lock" \in IdeLabels /\ stage' = [stage EXCEPT ![p] = "lock"]
        /\ phase' \in Phases /\ completion_wait' \in Nat /\ line' \in BOOLEAN
    BY <1>2, Zenon DEF IdeLabels, IdeType
  <2> QED
    BY ONLY IdeConstants, p \in Procs, r \in Requests, <1>1, <1>2, <2>1, IdeType1, Zenon
<1>4. lock # Nothing => Owns(lock)'
  <2>1. ASSUME lock # Nothing PROVE Owns(lock) /\ lock \in Procs \ {p}
    BY <1>2, <2>1, Zenon DEF IdeInv, IdeType
  <2>2. ASSUME lock # Nothing PROVE Reading(lock)' = Reading(lock) /\ Writing(lock)' = Writing(lock)
    BY <1>2, <1>3, <2>1, <2>2, SMTT(30) DEF Reading, Writing, Clear, Answered
  <2> QED
    BY <1>2, <1>3, <2>1, <2>2, Zenon DEF Owns
<1>5. IdeInv'
  BY <1>2, <1>3, <1>4, Zenon DEF IdeInv, Clear
<1>6. /\ Seen(p) = Nothing /\ Seen(p)' = r
      /\ \A q \in Procs \ {p} : Seen(q)' = Seen(q)
  BY <1>2, <1>3, Zenon DEF Seen, Returned
<1>7. [q \in Procs |-> Seen(q)'] = [[q \in Procs |-> Seen(q)] EXCEPT ![p] = r]
  BY <1>6, Zenon
<1>8. [q \in Procs |-> Stored(q)'] = [q \in Procs |-> Stored(q)]
  <2>1. \A q \in Procs : Stored(q)' = Stored(q)
    BY <1>2, <1>3, Zenon DEF Stored
  <2> QED
    BY <2>1, Zenon
<1>9. Promise!Invoke(p)
  BY <1>6, <1>7, <1>8, Zenon DEF Promise!Invoke, Seen
<1> QED
  BY <1>5, <1>9, Zenon

\* The channel's lock is taken: the channel is as the last request left it, idle.
LEMMA IdeTakesLock ==
  ASSUME IdeConstants, IdeInv, NEW p \in Procs, lock_acquire(p)
  PROVE  IdeInv' /\ UNCHANGED Promise!vars
<1> USE DEF Reached, Enter, controller, op, lock_acquire
<1>1. /\ IdeType /\ stage[p] = "lock" /\ request[p] # Nothing /\ p # Nothing
      /\ request[p] \in Requests /\ phase = "idle" /\ Clear
  BY DEF IdeInv, IdeType, IdeConstants
<1>2. /\ IdeType' /\ stage'[p] = "select" /\ request'[p] = request[p]
      /\ \A q \in Procs \ {p} : stage'[q] = stage[q] /\ request'[q] = request[q]
  <2>1. /\ "select" \in IdeLabels /\ stage' = [stage EXCEPT ![p] = "select"]
        /\ phase' \in Phases /\ completion_wait' \in Nat /\ line' \in BOOLEAN
        /\ request' = [request EXCEPT ![p] = request[p]]
        /\ lock = Nothing /\ lock' = p
    BY <1>1, Zenon DEF IdeLabels, IdeType
  <2> QED
    BY ONLY IdeConstants, p \in Procs, <1>1, <2>1, IdeType1, Zenon
<1>3. IdeInv'
  <2>1. Owns(p)'
    BY <1>1, <1>2, Zenon DEF Owns, Reading, Writing, Clear
  <2> QED
    BY <1>1, <1>2, <2>1, Zenon DEF IdeInv
<1>4. \A q \in Procs : Seen(q)' = Seen(q) /\ (Stored(q)' <=> Stored(q))
  BY <1>1, <1>2, Zenon DEF Seen, Returned, Stored
<1> QED
  BY <1>3, <1>4, IdeQuiet, Zenon

\* The lock is given back.  With it a write returns, and the disk has its data; a read
\* has returned already.
LEMMA IdeGivesLock ==
  ASSUME IdeConstants, IdeInv, NEW p \in Procs, lock_release(p)
  PROVE  IdeInv' /\ [Promise!Next]_Promise!vars
<1> USE DEF Reached, Enter, controller, op, lock_release
<1>1. /\ IdeType /\ stage[p] = "release" /\ lock = p /\ p # Nothing /\ Owns(p)
      /\ request[p] # Nothing /\ request[p].op \in {"read", "write"}
  BY DEF IdeInv, IdeType, IdeConstants
<1>2. phase = "idle" /\ Clear
  BY <1>1, Zenon DEF Owns, Reading, Writing
<1>3. /\ IdeType' /\ stage'[p] = "idle" /\ request'[p] = Nothing
      /\ \A q \in Procs \ {p} : stage'[q] = stage[q] /\ request'[q] = request[q]
  <2>1. /\ "idle" \in IdeLabels /\ stage' = [stage EXCEPT ![p] = "idle"]
        /\ phase' \in Phases /\ completion_wait' \in Nat /\ line' \in BOOLEAN
        /\ request' = [request EXCEPT ![p] = Nothing] /\ lock' = Nothing
    BY <1>1, Zenon DEF IdeLabels, IdeType
  <2> QED
    BY ONLY IdeConstants, p \in Procs, <1>1, <2>1, IdeType1, Zenon
<1>4. IdeInv'
  BY <1>2, <1>3, Zenon DEF IdeInv, Clear
<1>5. \A q \in Procs \ {p} : stage[q] \in {"idle", "lock"}
  BY <1>1, Zenon DEF IdeType
<1>6. \A q \in Procs \ {p} : Seen(q)' = Seen(q) /\ ~Stored(q) /\ ~Stored(q)'
  BY <1>3, <1>5, Zenon DEF Seen, Returned, Stored
<1>7. Seen(p)' = Nothing /\ ~Stored(p)'
  BY <1>3, Zenon DEF Seen, Returned, Stored
<1>8. CASE request[p].op = "read"
  <2>1. Seen(p) = Nothing /\ ~Stored(p)
    BY <1>1, <1>8, Zenon DEF Seen, Returned, Stored
  <2>2. \A q \in Procs : Seen(q)' = Seen(q) /\ (Stored(q)' <=> Stored(q))
    BY <1>6, <1>7, <2>1, Zenon
  <2> QED
    BY <1>4, <2>2, IdeQuiet, Zenon
<1>9. CASE request[p].op = "write"
  <2>1. Seen(p) = request[p] /\ Stored(p)
    BY <1>1, <1>2, <1>9, Zenon DEF Seen, Returned, Stored
  <2>2. [q \in Procs |-> Seen(q)'] = [[q \in Procs |-> Seen(q)] EXCEPT ![p] = Nothing]
    BY <1>6, <1>7, Zenon
  <2>3. [q \in Procs |-> Stored(q)'] = [[q \in Procs |-> Stored(q)] EXCEPT ![p] = FALSE]
    <3>1. /\ Stored(p)' = FALSE
          /\ \A q \in Procs \ {p} : Stored(q)' = Stored(q)
      BY <1>6, <1>7, Zenon DEF Stored
    <3> QED
      BY <3>1, Zenon
  <2>4. Promise!ReturnWrite(p)
    BY <1>1, <1>9, <2>1, <2>2, <2>3, Zenon DEF Promise!ReturnWrite, Seen
  <2> QED
    BY <1>4, <2>4, Zenon DEF Promise!Next
<1> QED
  BY <1>1, <1>8, <1>9, Zenon

\* The controller and its interrupt act for the holder of the lock alone.
LEMMA IdeAlone ==
  ASSUME IdeConstants, IdeInv, stage' = stage, request' = request, lock' = lock, lock # Nothing,
         phase' \in Phases, completion_wait' \in Nat, line' \in BOOLEAN
  PROVE  /\ lock \in Procs /\ Owns(lock) /\ (Owns(lock)' => IdeInv')
         /\ request[lock] # Nothing /\ request[lock] \in Requests
         /\ request[lock].op \in {"read", "write"} /\ ~(stage[lock] \in {"idle", "lock"})
         /\ \A q \in Procs : Seen(q)' = Seen(q)
         /\ \A q \in Procs \ {lock} : ~Stored(q) /\ ~Stored(q)'
<1>1. IdeType /\ Owns(lock) /\ lock \in Procs
  BY Zenon DEF IdeInv, IdeType
<1>2. IdeType' /\ (Owns(lock)' => IdeInv')
  <2>1. IdeType'
    BY <1>1, Zenon DEF IdeType
  <2> QED
    BY <2>1, Zenon DEF IdeInv
<1>3. ~(stage[lock] \in {"idle", "lock"}) /\ request[lock] # Nothing /\ request[lock] \in Requests
  BY <1>1, Zenon DEF IdeType
<1>4. request[lock].op \in {"read", "write"}
  BY <1>3, Zenon DEF IdeConstants
<1>5. \A q \in Procs \ {lock} : ~Stored(q) /\ ~Stored(q)'
  BY <1>1, Zenon DEF IdeType, Stored
<1>6. \A q \in Procs : Seen(q)' = Seen(q)
  BY Zenon DEF Seen, Returned, op
<1> QED
  BY <1>1, <1>2, <1>3, <1>4, <1>5, <1>6, Zenon

\* An interrupt, and what the controller does short of storing a sector, is not seen.
Unseen == interrupt_handler \/ Fetch \/ Accept \/ Fail

\* Such a step keeps the invariant and maps to a stutter.
LEMMA IdeUnseen ==
  ASSUME IdeConstants, IdeInv, Unseen
  PROVE  IdeInv' /\ UNCHANGED Promise!vars
<1> USE DEF interrupt_handler, Fetch, Accept, Fail, driver, op
<1>1. lock # Nothing
  BY Zenon DEF Unseen, IdeInv, Clear
<1>2. /\ stage' = stage /\ request' = request /\ lock' = lock /\ result' = result
      /\ registers' = registers /\ media' = media /\ expecting_interrupt' = expecting_interrupt
  BY Zenon DEF Unseen
<1>3. completion_wait \in Nat /\ line \in BOOLEAN /\ phase \in Phases
  BY Zenon DEF IdeInv, IdeType
<1>4. phase' \in Phases /\ completion_wait' \in Nat /\ line' \in BOOLEAN
  <2>1. phase' \in Phases
    BY <1>3, Zenon DEF Unseen, Phases
  <2>2. completion_wait' \in Nat
    BY <1>3 DEF Unseen
  <2>3. line' \in BOOLEAN
    BY <1>3, Zenon DEF Unseen
  <2> QED
    BY <2>1, <2>2, <2>3, Zenon
<1>5. /\ lock \in Procs /\ Owns(lock) /\ (Owns(lock)' => IdeInv')
      /\ request[lock].op \in {"read", "write"}
      /\ \A q \in Procs : Seen(q)' = Seen(q)
      /\ \A q \in Procs \ {lock} : ~Stored(q) /\ ~Stored(q)'
  BY <1>1, <1>2, <1>4, IdeAlone, Zenon
<1>6. Owns(lock)'
  <2>1. /\ stage'[lock'] = stage[lock] /\ request'[lock'] = request[lock]
        /\ registers' = registers /\ media' = media /\ expecting_interrupt' = expecting_interrupt
    BY <1>2, Zenon
  <2>2. CASE interrupt_handler
    <3>1. phase' = phase /\ sector_buffer' = sector_buffer /\ line /\ ~line'
      BY <2>2, Zenon
    <3>2. ~Clear
      BY <3>1, Zenon DEF Clear
    <3>3. /\ Answered /\ stage[lock] \in {"sema_down", "busy"}
          /\ request[lock].op = "read" => stage[lock] = "sema_down" /\ phase \in {"fetched", "idle"}
          /\ request[lock].op = "write" => phase = "idle"
      BY <1>5, <3>2, Zenon DEF Owns, Reading, Writing
    <3>4. expecting_interrupt
      BY <1>5, <3>3, Zenon DEF Owns
    <3>5. Answered'
      BY <2>2, <3>1, <3>3, <3>4 DEF Answered
    <3>6. /\ request'[lock'].op = "read" => Reading(lock)'
          /\ request'[lock'].op = "write" => Writing(lock)'
      BY <2>1, <3>1, <3>3, <3>5, Zenon DEF Reading, Writing
    <3> QED
      BY <1>5, <2>1, <3>1, <3>6, Zenon DEF Owns
  <2>3. CASE Fetch
    <3>1. /\ phase = "fetching" /\ phase' = "fetched" /\ line' /\ completion_wait' = completion_wait
          /\ sector_buffer' = media[registers]
      BY <2>3, Zenon
    <3>2. request[lock].op = "read" /\ stage[lock] = "sema_down" /\ completion_wait = 0
      BY <1>5, <3>1, Zenon DEF Owns, Reading, Writing, Clear
    <3>3. Reading(lock)'
      BY <2>1, <3>1, <3>2, Zenon DEF Reading, Answered
    <3> QED
      BY <1>5, <2>1, <3>1, <3>2, <3>3, Zenon DEF Owns
  <2>4. CASE Accept
    <3>1. /\ phase = "accepting" /\ phase' = "accepted" /\ line' = line
          /\ completion_wait' = completion_wait
      BY <2>4, Zenon
    <3>2. request[lock].op = "write" /\ stage[lock] = "busy" /\ Clear
      BY <1>5, <3>1, Zenon DEF Owns, Reading, Writing
    <3>3. Writing(lock)'
      BY <2>1, <3>1, <3>2, Zenon DEF Writing, Clear
    <3> QED
      BY <1>5, <2>1, <3>1, <3>2, <3>3, Zenon DEF Owns
  <2>5. CASE Fail
    <3>1. /\ phase \in {"fetching", "accepting"} /\ phase' = "idle" /\ line'
          /\ completion_wait' = completion_wait
      BY <2>5, Zenon
    <3>2. /\ request[lock].op = "read" => stage[lock] = "sema_down"
          /\ request[lock].op = "write" => stage[lock] = "busy"
          /\ completion_wait = 0
      BY <1>5, <3>1, Zenon DEF Owns, Reading, Writing, Clear
    <3>3. /\ request[lock].op = "read" => Reading(lock)'
          /\ request[lock].op = "write" => Writing(lock)'
      BY <2>1, <3>1, <3>2, Zenon DEF Reading, Writing, Answered
    <3> QED
      BY <1>5, <2>1, <3>1, <3>3, Zenon DEF Owns
  <2> QED
    BY <2>2, <2>3, <2>4, <2>5, Zenon DEF Unseen
<1>7. Stored(lock)' <=> Stored(lock)
  <2>1. CASE interrupt_handler
    BY <2>1, <1>2, Zenon DEF Stored
  <2>2. CASE Fetch \/ Accept \/ Fail
    <3>1. phase # "storing" /\ phase' # "storing"
      BY <2>2, Zenon
    <3> QED
      BY <3>1, <1>2, Zenon DEF Stored
  <2> QED
    BY <2>1, <2>2, Zenon DEF Unseen
<1> QED
  BY <1>2, <1>5, <1>6, <1>7, IdeQuiet, Zenon

\* The controller stores the sector: the data of the write that holds the lock, in the
\* sector it is meant for.
LEMMA IdeStores ==
  ASSUME IdeConstants, IdeInv, StoreSector
  PROVE  IdeInv' /\ [Promise!Next]_Promise!vars
<1> USE DEF StoreSector, driver, op
<1>1. lock # Nothing
  BY Zenon DEF IdeInv
<1>2. phase' \in Phases /\ completion_wait' \in Nat /\ line' \in BOOLEAN
  BY Zenon DEF Phases, IdeInv, IdeType
<1>3. /\ lock \in Procs /\ Owns(lock) /\ (Owns(lock)' => IdeInv')
      /\ request[lock] # Nothing
      /\ request[lock].op \in {"read", "write"} /\ ~(stage[lock] \in {"idle", "lock"})
      /\ \A q \in Procs : Seen(q)' = Seen(q)
      /\ \A q \in Procs \ {lock} : ~Stored(q) /\ ~Stored(q)'
  BY <1>1, <1>2, IdeAlone, Zenon
<1>4. /\ request[lock].op = "write" /\ stage[lock] = "sema_down" /\ Clear
      /\ registers = request[lock].where /\ sector_buffer = request[lock].data
  BY <1>3, Zenon DEF Owns, Reading, Writing
<1>5. Owns(lock)'
  BY <1>3, <1>4, Zenon DEF Owns, Reading, Writing, Clear, Answered
<1>6. ~Stored(lock) /\ Stored(lock)' /\ Seen(lock) = request[lock]
  BY <1>3, <1>4, Zenon DEF Stored, Seen, Returned
<1>7. [q \in Procs |-> Stored(q)'] = [[q \in Procs |-> Stored(q)] EXCEPT ![lock] = TRUE]
  <2>1. /\ Stored(lock)' = TRUE
        /\ \A q \in Procs \ {lock} : Stored(q)' = Stored(q)
    BY <1>3, <1>6, Zenon DEF Stored
  <2> QED
    BY <2>1, Zenon
<1>8. [q \in Procs |-> Seen(q)'] = [q \in Procs |-> Seen(q)]
  BY <1>3, Zenon
<1>9. Promise!Store(lock)
  BY <1>3, <1>4, <1>6, <1>7, <1>8, Zenon DEF Promise!Store, Seen
<1> QED
  BY <1>3, <1>5, <1>9, Zenon DEF Promise!Next

\* The store fails: the write that holds the lock is lost, and no other sector changes.
LEMMA IdeLoses ==
  ASSUME IdeConstants, IdeInv, StoreFails
  PROVE  IdeInv' /\ [Promise!Next]_Promise!vars
<1> USE DEF StoreFails, driver, op
<1>1. lock # Nothing
  BY Zenon DEF IdeInv
<1>2. phase' \in Phases /\ completion_wait' \in Nat /\ line' \in BOOLEAN
  BY Zenon DEF Phases, IdeInv, IdeType
<1>3. /\ lock \in Procs /\ Owns(lock) /\ (Owns(lock)' => IdeInv')
      /\ request[lock] # Nothing
      /\ request[lock].op \in {"read", "write"} /\ ~(stage[lock] \in {"idle", "lock"})
      /\ \A q \in Procs : Seen(q)' = Seen(q)
      /\ \A q \in Procs \ {lock} : ~Stored(q) /\ ~Stored(q)'
  BY <1>1, <1>2, IdeAlone, Zenon
<1>4. /\ request[lock].op = "write" /\ stage[lock] = "sema_down" /\ Clear
      /\ registers = request[lock].where
  BY <1>3, Zenon DEF Owns, Reading, Writing
<1>5. Owns(lock)'
  BY <1>3, <1>4, Zenon DEF Owns, Reading, Writing, Clear, Answered
<1>6. ~Stored(lock) /\ Stored(lock)' /\ Seen(lock) = request[lock]
  BY <1>3, <1>4, Zenon DEF Stored, Seen, Returned
<1>7. [q \in Procs |-> Stored(q)'] = [[q \in Procs |-> Stored(q)] EXCEPT ![lock] = TRUE]
  <2>1. /\ Stored(lock)' = TRUE
        /\ \A q \in Procs \ {lock} : Stored(q)' = Stored(q)
    BY <1>3, <1>6, Zenon DEF Stored
  <2> QED
    BY <2>1, Zenon
<1>8. [q \in Procs |-> Seen(q)'] = [q \in Procs |-> Seen(q)]
  BY <1>3, Zenon
<1>9. Promise!Lose(lock)
  BY <1>3, <1>4, <1>6, <1>7, <1>8, Zenon DEF Promise!Lose, Seen
<1> QED
  BY <1>3, <1>5, <1>9, Zenon DEF Promise!Next

\* IdeInv holds at the start, and every step keeps it and is a step of the abstract disk
\* or none.
LEMMA IdeStart ==
  ASSUME IdeConstants, IdeInit
  PROVE  IdeInv /\ Promise!Init
<1>1. IdeInv
  BY Zenon DEF IdeInit, IdeConstants, IdeInv, IdeType, IdeLabels, Phases, Clear
<1>2. \A p \in Procs : Seen(p) = Nothing /\ ~Stored(p)
  BY Zenon DEF IdeInit, Seen, Returned, Stored
<1>3. [p \in Procs |-> Stored(p)] = [p \in Procs |-> FALSE]
  <2>1. \A p \in Procs : Stored(p) = FALSE
    BY <1>2, Zenon DEF Stored
  <2> QED
    BY <2>1, Zenon
<1>4. [p \in Procs |-> Seen(p)] = [p \in Procs |-> Nothing]
  BY <1>2, Zenon
<1> QED
  BY <1>1, <1>3, <1>4, Zenon DEF Promise!Init, Seen

\* Every step of the driver and the controller is a step of the disk, or a stutter.
LEMMA IdeStep ==
  ASSUME IdeConstants, IdeInv, [IdeNext]_channel
  PROVE  IdeInv' /\ [Promise!Next]_Promise!vars
<1>1. ASSUME NEW p \in Procs, block_request(p)
      PROVE  IdeInv' /\ [Promise!Next]_Promise!vars
  BY <1>1, IdeInvokes, Zenon DEF Promise!Next
<1>2. ASSUME NEW p \in Procs, Step(p)
      PROVE  IdeInv' /\ [Promise!Next]_Promise!vars
  <2>1. CASE lock_acquire(p)
    BY <2>1, IdeTakesLock, Zenon
  <2>2. CASE Quiet(p)
    BY <2>2, IdeQuietStep, Zenon
  <2>3. CASE disk_failed(p)
    <3>1. /\ stage' = stage /\ request' = request /\ lock' = lock /\ result' = result
          /\ completion_wait' = completion_wait /\ expecting_interrupt' = expecting_interrupt
          /\ UNCHANGED controller
      BY <2>3, Zenon DEF disk_failed
    <3>2. \A q \in Procs : Seen(q)' = Seen(q) /\ (Stored(q)' <=> Stored(q))
      BY <3>1, Zenon DEF Seen, Returned, Stored, op, controller
    <3>3. IdeInv'
      BY <3>1, Zenon DEF IdeInv, IdeType, Owns, Reading, Writing, Clear, Answered, controller
    <3> QED
      BY <3>1, <3>2, <3>3, IdeQuiet, Zenon DEF controller
  <2>4. CASE input_sector(p)
    BY <2>4, IdeReturnsRead, Zenon DEF Promise!Next
  <2>5. CASE lock_release(p)
    BY <2>5, IdeGivesLock, Zenon
  <2> QED
    BY <1>2, <2>1, <2>2, <2>3, <2>4, <2>5, Zenon DEF Step, Quiet
<1>3. CASE Unseen
  BY <1>3, IdeUnseen, Zenon
<1>4. CASE StoreSector
  BY <1>4, IdeStores, Zenon
<1>5. CASE StoreFails
  BY <1>5, IdeLoses, Zenon
<1>6. CASE UNCHANGED channel
  <2>1. \A q \in Procs : Seen(q)' = Seen(q) /\ (Stored(q)' <=> Stored(q))
    BY <1>6, Zenon DEF Seen, Returned, Stored, op, channel, controller, driver
  <2>2. IdeInv'
    BY <1>6, Zenon DEF IdeInv, IdeType, Owns, Reading, Writing, Clear, Answered, channel,
                controller, driver
  <2> QED
    BY <1>6, <2>1, <2>2, IdeQuiet, Zenon DEF channel, controller, driver
<1> QED
  BY <1>1, <1>2, <1>3, <1>4, <1>5, <1>6, Zenon DEF IdeNext, Controller, Unseen

\* What block.c promises of a block device, ide.c keeps, faults of the disk included:
\* however the requests of any number of processes interleave with the controller and its
\* interrupts, a read returns what the disk held, a write returns when the disk has taken
\* its data, which only a disk with faults may then lose and in that sector alone, and the
\* channel is idle whenever nobody holds its lock.
THEOREM DiskRefinement ==
  ASSUME IdeConstants
  PROVE  IdeSpec => IsDisk
<1>1. IdeInv => ChannelIdle
  BY Zenon DEF IdeInv, ChannelIdle, Clear
<1> QED
  BY <1>1, IdeStart, IdeStep, PTL DEF IdeSpec, IsDisk, Promise!Spec

-----------------------------------------------------------------------------
(* Partitions.                                                             *)

Frames == [sector : Words, primary_extended_sector : Words,
           pt : Seq(Entries)]
Found == [start : Words, size : Words, type : STRING, nr : Nat]

\* Once a request is made the scan is over.
PartitionInv ==
  /\ disk \in Disks /\ calls \in Seq(Frames) /\ found \in Seq(Found) /\ part_nr \in Nat
  /\ access # NoAccess => calls = << >>
  /\ InsidePartitions

\* A sum of two sector numbers wraps around once at most.
LEMMA Wraps ==
  ASSUME TableConstants, NEW x \in Words, NEW y \in Words
  PROVE  /\ Uint(x + y) \in Words
         /\ Uint(x + y) = IF x + y < WORD_SIZE THEN x + y ELSE x + y - WORD_SIZE
<1>1. WORD_SIZE \in Nat \ {0} /\ x \in Nat /\ y \in Nat /\ x + y < WORD_SIZE + WORD_SIZE
  BY DEF TableConstants, Words
<1>2. CASE x + y < WORD_SIZE
  <2>1. (x + y) % WORD_SIZE = x + y
    BY <1>1, <1>2
  <2> QED
    BY <1>1, <1>2, <2>1 DEF Uint, Words
<1>3. CASE WORD_SIZE <= x + y
  <2>1. (x + y) % WORD_SIZE = x + y - WORD_SIZE
    BY <1>1, <1>3
  <2> QED
    BY <1>1, <1>3, <2>1 DEF Uint, Words
<1> QED
  BY <1>1, <1>2, <1>3

\* A call of read_partition_table starts with the entries of a table, or with none.
LEMMA CallIs ==
  ASSUME TableConstants, disk \in Disks,
         NEW x \in Words, NEW y \in Words
  PROVE  Call(x, y) \in Frames
<1>1. Len(disk) \in Nat /\ \A s \in 1 .. Len(disk) : disk[s] # NoTable => disk[s] \in Seq(Entries)
  BY DEF TableConstants, Words
<1>2. Call(x, y).pt \in Seq(Entries)
  <2>1. CASE x < block_size /\ TableRead(x) # NoTable
    <3>1. 1 \in 1 .. Len(disk) /\ TableRead(x) = disk[1]
      BY <1>1, <2>1 DEF block_size, TableRead, Table, TableConstants, Words
    <3> QED
      BY <1>1, <2>1, <3>1, Zenon DEF Call
  <2>2. CASE ~(x < block_size /\ TableRead(x) # NoTable)
    BY <2>2 DEF Call
  <2> QED
    BY <2>1, <2>2, Zenon
<1> QED
  BY <1>2, Zenon DEF Call, Frames

\* The entry looked at, and what is left of the table.
LEMMA LooksAt ==
  ASSUME PartitionInv, Looking
  PROVE  /\ Frame \in Frames /\ Entry \in Entries
         /\ Rest \in Seq(Frames) /\ calls # << >>
<1>1. calls \in Seq(Frames) /\ calls # << >> /\ Len(calls) \in 1 .. Len(calls)
  BY DEF PartitionInv, Looking
<1>2. Frame = calls[Len(calls)] /\ Frame \in Frames
  BY <1>1 DEF Frame
<1>3. /\ Frame.pt \in Seq(Entries) /\ Frame.pt # << >>
  BY <1>2, Zenon DEF Frames, Looking
<1>4. Entry \in Entries /\ Tail(Frame.pt) \in Seq(Entries)
  BY <1>3 DEF Entry
<1>5. [Frame EXCEPT !.pt = Tail(Frame.pt)] \in Frames
  BY <1>2, <1>4, Zenon DEF Frames
<1>6. Rest = [calls EXCEPT ![Len(calls)] = [Frame EXCEPT !.pt = Tail(Frame.pt)]]
  BY <1>1, <1>2, Zenon DEF Rest
<1>7. Rest \in Seq(Frames)
  BY <1>1, <1>5, <1>6
<1> QED
  BY <1>1, <1>2, <1>4, <1>7, Zenon

\* A step of the scan that registers nothing.
LEMMA ScanStep ==
  ASSUME TableConstants, PartitionInv, UNCHANGED <<disk, found, access>>, part_nr' \in Nat,
         calls # << >>, calls' \in Seq(Frames)
  PROVE  PartitionInv'
<1>1. access = NoAccess
  BY Zenon DEF PartitionInv
<1> QED
  BY <1>1, Zenon DEF PartitionInv, InsidePartitions, PartitionsInside, AccessInside,
     block_size

\* found_partition.
LEMMA FoundStep ==
  ASSUME TableConstants, PartitionInv, found_partition
  PROVE  PartitionInv'
<1> DEFINE start == Uint(Entry.offset + Frame.sector)
           size == Entry.size
           new == [start |-> start, size |-> size, type |-> Entry.type, nr |-> part_nr']
<1>1. /\ Frame \in Frames /\ Entry \in Entries
      /\ Rest \in Seq(Frames) /\ calls # << >>
  BY LooksAt, Zenon DEF found_partition
<1>2. /\ calls' = Rest /\ part_nr' = part_nr + 1 /\ disk' = disk /\ access' = access
      /\ found' = IF Inside(start, size) THEN Append(found, new) ELSE found
      /\ size # 0
  BY Zenon DEF found_partition, Empty
<1>3. part_nr' \in Nat /\ found \in Seq(Found) /\ disk \in Disks
  BY <1>2 DEF PartitionInv
<1>4. CASE ~Inside(start, size)
  BY <1>1, <1>2, <1>3, <1>4, ScanStep, Zenon
<1>5. CASE Inside(start, size)
  <2>1. /\ start \in Words /\ size \in Words
        /\ block_size \in Words /\ WORD_SIZE \in Nat
    BY <1>1, <1>3, Wraps, Zenon DEF Frames, Entries, TableConstants, block_size
  <2>2. start + size <= block_size /\ size > 0
    <3>1. Uint(start + size) >= start /\ Uint(start + size) <= block_size
      BY <1>5, Zenon DEF Inside
    <3>2. Uint(start + size) = IF start + size < WORD_SIZE THEN start + size ELSE start + size - WORD_SIZE
      BY <2>1, Wraps, Zenon
    <3> HIDE DEF start, size
    <3> QED
      BY <1>2, <2>1, <3>1, <3>2 DEF Words
  <2>3. new \in Found
    BY <1>1, <1>3, <2>1, Zenon DEF Found, Entries
  <2>4. /\ found' = Append(found, new) /\ found' \in Seq(Found) /\ Len(found') = Len(found) + 1
        /\ found'[Len(found) + 1] = new /\ \A n \in 1 .. Len(found) : found'[n] = found[n]
    BY <1>2, <1>3, <1>5, <2>3
  <2>5. new.start = start /\ new.size = size
    BY Zenon
  <2>6. block_size' = block_size
    BY <1>2, Zenon DEF block_size
  <2>7. PartitionsInside'
    <3> HIDE DEF start, size, new
    <3>1. ASSUME NEW n \in 1 .. Len(found')
          PROVE  found'[n].size > 0 /\ found'[n].start + found'[n].size <= block_size
      <4>1. CASE n = Len(found) + 1
        BY <4>1, <2>2, <2>4, <2>5, Zenon
      <4>2. CASE n \in 1 .. Len(found)
        BY <4>2, <2>4, Zenon DEF PartitionInv, InsidePartitions, PartitionsInside
      <4> QED
        BY <1>3, <2>4, <4>1, <4>2
    <3> QED
      BY <2>6, <3>1, Zenon DEF PartitionsInside
  <2>8. access' = NoAccess
    BY <1>1, <1>2, Zenon DEF PartitionInv
  <2>9. AccessInside'
    BY <2>8, Zenon DEF AccessInside
  <2> QED
    BY <1>1, <1>2, <1>3, <2>4, <2>7, <2>8, <2>9, Zenon DEF PartitionInv, InsidePartitions
<1> QED
  BY <1>4, <1>5, Zenon

\* A sector of a partition that lies on the disk lies on the disk, below the word size.
LEMMA SumInside ==
  ASSUME WORD_SIZE \in Nat, NEW start \in Words, NEW size \in Words, NEW n \in Words,
         NEW limit \in Words, n < size, start + size <= limit
  PROVE  start + n < WORD_SIZE /\ start + n < limit
BY DEF Words

\* A request to a partition.
LEMMA RequestStep ==
  ASSUME TableConstants, PartitionInv, NEW kind \in {"read", "write"}, block_access(kind)
  PROVE  PartitionInv'
<1>1. PICK n \in 1 .. Len(found), sector \in Words :
        access' = [partition |-> n, sector |-> Uint(found[n].start + sector),
                   refused |-> ~check_sector(sector, found[n].size)
                                 \/ (kind = "write" /\ found[n].type = "foreign"),
                   panic |-> ~check_sector(Uint(found[n].start + sector), block_size)]
  BY Zenon DEF block_access, Words
<1>2. UNCHANGED <<disk, calls, found, part_nr>> /\ calls = << >>
  BY Zenon DEF block_access, Scanned
<1>3. found[n] \in Found /\ found[n].size > 0 /\ found[n].start + found[n].size <= block_size
  BY <1>1 DEF PartitionInv, InsidePartitions, PartitionsInside
<1>4. PartitionsInside'
  BY <1>2, Zenon DEF PartitionInv, InsidePartitions, PartitionsInside, block_size
<1>5. ASSUME ~access'.refused
      PROVE  /\ ~access'.panic
             /\ access'.sector - found[n].start \in 0 .. found[n].size - 1
  <2>1. sector < found[n].size
    BY <1>1, <1>5, Zenon DEF check_sector
  <2>2. /\ found[n].start \in Words /\ found[n].size \in Words
        /\ block_size \in Words /\ WORD_SIZE \in Nat
    BY <1>3, Zenon DEF Found, PartitionInv, TableConstants, block_size
  <2>3. found[n].start + sector < WORD_SIZE /\ found[n].start + sector < block_size
    <3>1. sector \in Words
      BY Zenon
    <3> QED
      BY <1>3, <2>1, <2>2, <3>1, SumInside, Zenon
  <2>4. Uint(found[n].start + sector) = found[n].start + sector
    BY <2>2, <2>3, Wraps, Zenon
  <2>5. ~access'.panic
    BY <1>1, <2>3, <2>4, Zenon DEF check_sector
  <2>6. access'.sector = found[n].start + sector
    BY <1>1, <2>4, Zenon
  <2> QED
    BY <2>1, <2>2, <2>5, <2>6 DEF Words
<1>6. access'.partition = n
  BY <1>1, Zenon
<1>7. AccessInside'
  BY <1>2, <1>5, <1>6, Zenon DEF AccessInside
<1> QED
  BY <1>2, <1>4, <1>7, Zenon DEF PartitionInv, InsidePartitions

\* What found_partition registers lies on the disk, for any disk and any word size, and a
\* request that a partition accepts stays inside it, whatever sums wrap around.
THEOREM InsidePartitionsHolds ==
  ASSUME TableConstants
  PROVE  ScanSpec => []InsidePartitions
<1>1. ScanInit => PartitionInv
  <2> SUFFICES ASSUME ScanInit PROVE PartitionInv
    BY Zenon
  <2>1. Call(0, 0) \in Frames
    BY CallIs DEF ScanInit, TableConstants, Words
  <2> QED
    BY <2>1 DEF ScanInit, PartitionInv, InsidePartitions, PartitionsInside,
       AccessInside
<1>2. PartitionInv /\ [ScanNext]_tables => PartitionInv'
  <2> SUFFICES ASSUME PartitionInv, [ScanNext]_tables PROVE PartitionInv'
    BY Zenon
  <2>1. CASE UNCHANGED tables
    BY <2>1, Zenon DEF tables, PartitionInv, InsidePartitions, PartitionsInside,
       AccessInside, block_size
  <2>2. CASE ignore_empty
    BY <2>2, LooksAt, ScanStep, Zenon DEF ignore_empty, PartitionInv
  <2>3. CASE read_extended
    <3>1. /\ Frame \in Frames /\ Entry \in Entries
          /\ Rest \in Seq(Frames) /\ calls # << >>
      BY <2>3, LooksAt, Zenon DEF read_extended
    <3>2. PICK x \in Words, y \in Words :
            calls' = Append(Rest, Call(x, y))
      BY <2>3, <3>1, Wraps, Zenon DEF read_extended, Frames, Entries
    <3>3. Call(x, y) \in Frames
      BY CallIs, Zenon DEF PartitionInv
    <3> QED
      BY <2>3, <3>1, <3>2, <3>3, ScanStep DEF read_extended, PartitionInv
  <2>4. CASE found_partition
    BY <2>4, FoundStep, Zenon
  <2>5. CASE table_done
    <3>1. calls' \in Seq(Frames)
      BY <2>5 DEF table_done, PartitionInv
    <3> QED
      BY <2>5, <3>1, ScanStep, Zenon DEF table_done, PartitionInv
  <2> QED
    BY <2>1, <2>2, <2>3, <2>4, <2>5, RequestStep, Zenon DEF ScanNext
<1>3. PartitionInv => InsidePartitions
  BY Zenon DEF PartitionInv
<1> QED
  BY <1>1, <1>2, <1>3, PTL DEF ScanSpec

-----------------------------------------------------------------------------
(* The queues of intq.c.                                                   *)

Slots == 0 .. BUFSIZE - 1

\* A queue of bytes of S.
QueueRecords(S) ==
  [buf : [Slots -> S \cup {NULL}], head : Slots, tail : Slots, lock : Threads \cup {NULL},
   not_full : Threads \cup {NULL}, not_empty : Threads \cup {NULL}]
QueueOf(S) == {q \in QueueRecords(S) : Contents(q) \in Seq(S)}

\* The distance from one slot to another, and the slot at a distance.
Ahead(h, t) == IF t <= h THEN h - t ELSE h - t + BUFSIZE
Slot(t, n) == IF t + n < BUFSIZE THEN t + n ELSE t + n - BUFSIZE

\* Positions wrap around once at most.
LEMMA Wrapped ==
  ASSUME Constants, NEW t \in Slots, NEW n \in Slots
  PROVE  /\ (t + n) % BUFSIZE = Slot(t, n) /\ Slot(t, n) \in Slots
         /\ (n - t) % BUFSIZE = Ahead(n, t) /\ Ahead(n, t) \in Slots
         /\ next(t) = IF t + 1 = BUFSIZE THEN 0 ELSE t + 1
<1>1. BUFSIZE \in Nat /\ BUFSIZE > 1 /\ t \in Nat /\ t < BUFSIZE /\ n \in Nat /\ n < BUFSIZE
  BY DEF Constants, Slots
<1>2. (t + n) % BUFSIZE = Slot(t, n)
  <2>1. CASE t + n < BUFSIZE
    BY <1>1, <2>1 DEF Slot
  <2>2. CASE BUFSIZE <= t + n
    BY <1>1, <2>2 DEF Slot
  <2> QED
    BY <1>1, <2>1, <2>2
<1>3. (n - t) % BUFSIZE = Ahead(n, t)
  <2>1. CASE t <= n
    BY <1>1, <2>1 DEF Ahead
  <2>2. CASE n < t
    BY <1>1, <2>2 DEF Ahead
  <2> QED
    BY <1>1, <2>1, <2>2
<1>4. next(t) = IF t + 1 = BUFSIZE THEN 0 ELSE t + 1
  <2>1. CASE t + 1 = BUFSIZE
    BY <1>1, <2>1 DEF next
  <2>2. CASE t + 1 < BUFSIZE
    BY <1>1, <2>2 DEF next
  <2> QED
    BY <1>1, <2>1, <2>2
<1> QED
  BY <1>1, <1>2, <1>3, <1>4 DEF Slot, Ahead, Slots

\* How the ends of a queue move.
LEMMA RingMoves ==
  ASSUME Constants, NEW h \in Slots, NEW t \in Slots
  PROVE  /\ Ahead(h, t) \in Nat /\ Ahead(h, t) < BUFSIZE /\ next(h) \in Slots
         /\ Ahead(h, t) = 0 <=> h = t
         /\ Ahead(h, t) = BUFSIZE - 1 <=> next(h) = t
         /\ next(h) # t => Ahead(next(h), t) = Ahead(h, t) + 1
         /\ h # t => Ahead(h, next(t)) = Ahead(h, t) - 1
         /\ Slot(t, Ahead(h, t)) = h /\ Slot(t, 0) = t
         /\ \A k \in 0 .. Ahead(h, t) - 1 : Slot(t, k) \in Slots /\ Slot(t, k) # h
         /\ \A k \in 0 .. BUFSIZE - 2 : Slot(next(t), k) = Slot(t, k + 1)
<1>1. BUFSIZE \in Nat /\ BUFSIZE > 1 /\ t \in Nat /\ t < BUFSIZE /\ h \in Nat /\ h < BUFSIZE
  BY DEF Constants, Slots
<1>2. /\ next(t) = IF t + 1 = BUFSIZE THEN 0 ELSE t + 1
      /\ next(h) = IF h + 1 = BUFSIZE THEN 0 ELSE h + 1
  BY Wrapped, Zenon
<1>3. Ahead(h, t) \in Nat /\ Ahead(h, t) < BUFSIZE /\ next(h) \in Slots
  BY <1>1, <1>2 DEF Ahead, Slots
<1>4. /\ Ahead(h, t) = 0 <=> h = t
      /\ Ahead(h, t) = BUFSIZE - 1 <=> next(h) = t
      /\ next(h) # t => Ahead(next(h), t) = Ahead(h, t) + 1
      /\ h # t => Ahead(h, next(t)) = Ahead(h, t) - 1
  BY <1>1, <1>2 DEF Ahead
<1>5. Slot(t, Ahead(h, t)) = h /\ Slot(t, 0) = t
  BY <1>1 DEF Ahead, Slot
<1>6. \A k \in 0 .. Ahead(h, t) - 1 : Slot(t, k) \in Slots /\ Slot(t, k) # h
  BY <1>1 DEF Ahead, Slot, Slots
<1>7. \A k \in 0 .. BUFSIZE - 2 : Slot(next(t), k) = Slot(t, k + 1)
  BY <1>1, <1>2 DEF Slot
<1> QED
  BY <1>3, <1>4, <1>5, <1>6, <1>7, Zenon

\* What a queue holds, without remainders.
LEMMA ContentsAre ==
  ASSUME Constants, NEW q, q.head \in Slots, q.tail \in Slots
  PROVE  /\ Contents(q) = [k \in 1 .. Ahead(q.head, q.tail) |-> q.buf[Slot(q.tail, k - 1)]]
         /\ intq_empty(q) <=> Ahead(q.head, q.tail) = 0
         /\ intq_full(q) <=> Ahead(q.head, q.tail) = BUFSIZE - 1
<1>1. (q.head - q.tail) % BUFSIZE = Ahead(q.head, q.tail) /\ Ahead(q.head, q.tail) \in Slots
  BY Wrapped, Zenon
<1>2. ASSUME NEW k \in 1 .. Ahead(q.head, q.tail)
      PROVE  (q.tail + k - 1) % BUFSIZE = Slot(q.tail, k - 1)
  <2>1. k - 1 \in Slots /\ q.tail + k - 1 = q.tail + (k - 1)
    BY <1>1 DEF Slots, Constants
  <2> QED
    BY <2>1, Wrapped, Zenon
<1>3. Contents(q) = [k \in 1 .. Ahead(q.head, q.tail) |-> q.buf[Slot(q.tail, k - 1)]]
  BY <1>1, <1>2, Zenon DEF Contents
<1> QED
  BY <1>3, RingMoves DEF intq_empty, intq_full

\* A sequence is the function of its elements.
LEMMA ElementsAre ==
  ASSUME NEW S, NEW s \in Seq(S)
  PROVE  s = [k \in 1 .. Len(s) |-> s[k]]
OBVIOUS

\* A byte that is put comes last.
LEMMA PutLast ==
  ASSUME Constants, NEW S, NEW q \in QueueOf(S), NEW b \in S, ~intq_full(q)
  PROVE  /\ intq_putc(q, b) \in QueueOf(S)
         /\ Contents(intq_putc(q, b)) = Append(Contents(q), b)
<1> DEFINE r == intq_putc(q, b)
           n == Ahead(q.head, q.tail)
           t == q.tail
<1>1. /\ q \in QueueRecords(S) /\ Contents(q) \in Seq(S)
      /\ q.head \in Slots /\ t \in Slots /\ q.buf \in [Slots -> S \cup {NULL}]
  BY Zenon DEF QueueOf, QueueRecords
<1>2. next(q.head) \in Slots
  BY <1>1, RingMoves, Zenon
<1>3. /\ r.buf = [q.buf EXCEPT ![q.head] = b] /\ r.head = next(q.head) /\ r.tail = t
      /\ r \in QueueRecords(S)
  BY <1>1, <1>2, Zenon DEF intq_putc, QueueRecords
<1>4. Contents(q) = [k \in 1 .. n |-> q.buf[Slot(t, k - 1)]] /\ n # BUFSIZE - 1
  BY <1>1, ContentsAre, Zenon
<1>5. /\ n \in Nat /\ Ahead(next(q.head), t) = n + 1 /\ Slot(t, n) = q.head
      /\ \A k \in 0 .. n - 1 : Slot(t, k) \in Slots /\ Slot(t, k) # q.head
  <2> DEFINE h == q.head
  <2>1. h \in Slots /\ t \in Slots
    BY <1>1, Zenon
  <2> HIDE DEF h, t
  <2>2. n = Ahead(h, t)
    BY Zenon DEF h, t
  <2>3. /\ Ahead(h, t) \in Nat
        /\ Ahead(h, t) = BUFSIZE - 1 <=> next(h) = t
        /\ next(h) # t => Ahead(next(h), t) = Ahead(h, t) + 1
        /\ Slot(t, Ahead(h, t)) = h
    BY <2>1, RingMoves
  <2>4. ASSUME NEW k \in 0 .. Ahead(h, t) - 1 PROVE Slot(t, k) \in Slots /\ Slot(t, k) # h
    BY <2>1, RingMoves, Zenon
  <2> HIDE DEF n
  <2> QED
    BY <1>4, <2>2, <2>3, <2>4, Zenon DEF h
<1>6. Contents(r) = [k \in 1 .. n + 1 |-> r.buf[Slot(t, k - 1)]]
  <2> HIDE DEF r, n, t
  <2>1. r.head \in Slots /\ r.tail \in Slots /\ Ahead(r.head, r.tail) = n + 1
    BY <1>1, <1>2, <1>3, <1>5, Zenon
  <2>2. Contents(r) = [k \in 1 .. Ahead(r.head, r.tail) |-> r.buf[Slot(r.tail, k - 1)]]
    BY <2>1, ContentsAre, Zenon
  <2>3. r.tail = t
    BY <1>3, Zenon
  <2> QED
    BY <2>1, <2>2, <2>3, Zenon
<1> HIDE DEF r, n, t
<1>7. Len(Contents(q)) = n
  BY <1>1, <1>4, <1>5
<1>8. Contents(r) = Append(Contents(q), b)
  <2> DEFINE a == Append(Contents(q), b)
  <2>1. /\ a \in Seq(S) /\ Len(a) = n + 1
        /\ \A k \in 1 .. n + 1 : a[k] = IF k = n + 1 THEN b ELSE Contents(q)[k]
    BY <1>1, <1>5, <1>7
  <2>2. ASSUME NEW k \in 1 .. n + 1
        PROVE  r.buf[Slot(t, k - 1)] = IF k = n + 1 THEN b ELSE Contents(q)[k]
    <3>1. CASE k = n + 1
      BY <1>1, <1>3, <1>5, <3>1
    <3>2. CASE k # n + 1
      <4>1. k \in 1 .. n /\ k - 1 \in 0 .. n - 1
        BY <1>5, <3>2
      <4>2. Contents(q)[k] = q.buf[Slot(t, k - 1)]
        BY <1>4, <4>1, Zenon
      <4> QED
        BY <1>1, <1>3, <1>5, <3>2, <4>1, <4>2, Zenon
    <3> QED
      BY <3>1, <3>2, Zenon
  <2> HIDE DEF a
  <2>3. Contents(r) = a
    BY <1>6, <2>1, <2>2, ElementsAre
  <2> QED
    BY <2>3, Zenon DEF a
<1>9. Append(Contents(q), b) \in Seq(S)
  BY <1>1
<1>10. r \in QueueOf(S)
  BY <1>3, <1>8, <1>9, Zenon DEF QueueOf
<1> QED
  BY <1>8, <1>10, Zenon DEF r

\* The byte that is got was first.
LEMMA GetFirst ==
  ASSUME Constants, NEW S, NEW q \in QueueOf(S), ~intq_empty(q)
  PROVE  /\ intq_getc(q) \in QueueOf(S) /\ ~intq_full(intq_getc(q))
         /\ Contents(q) # <<>> /\ First(q) = Head(Contents(q)) /\ First(q) \in S
         /\ Contents(intq_getc(q)) = Tail(Contents(q))
<1> DEFINE r == intq_getc(q)
           n == Ahead(q.head, q.tail)
           t == q.tail
<1>1. /\ q \in QueueRecords(S) /\ Contents(q) \in Seq(S)
      /\ q.head \in Slots /\ t \in Slots
  BY Zenon DEF QueueOf, QueueRecords
<1>2. next(t) \in Slots
  BY <1>1, RingMoves, Zenon
<1>3. r.buf = q.buf /\ r.head = q.head /\ r.tail = next(t) /\ r \in QueueRecords(S)
  BY <1>1, <1>2, Zenon DEF intq_getc, QueueRecords
<1>4. Contents(q) = [k \in 1 .. n |-> q.buf[Slot(t, k - 1)]] /\ n # 0
  BY <1>1, ContentsAre, Zenon
<1>5. /\ n \in Nat /\ n < BUFSIZE /\ Ahead(q.head, next(t)) = n - 1 /\ Slot(t, 0) = t
      /\ \A k \in 0 .. BUFSIZE - 2 : Slot(next(t), k) = Slot(t, k + 1)
  <2> DEFINE h == q.head
  <2>1. h \in Slots /\ t \in Slots
    BY <1>1, Zenon
  <2> HIDE DEF h, t
  <2>2. n = Ahead(h, t)
    BY Zenon DEF h, t
  <2>3. /\ Ahead(h, t) \in Nat /\ Ahead(h, t) < BUFSIZE
        /\ Ahead(h, t) = 0 <=> h = t
        /\ h # t => Ahead(h, next(t)) = Ahead(h, t) - 1
        /\ Slot(t, 0) = t
        /\ \A k \in 0 .. BUFSIZE - 2 : Slot(next(t), k) = Slot(t, k + 1)
    BY <2>1, RingMoves
  <2> HIDE DEF n
  <2> QED
    BY <1>4, <2>2, <2>3, Zenon DEF h
<1>6. /\ Contents(r) = [k \in 1 .. n - 1 |-> q.buf[Slot(next(t), k - 1)]]
      /\ intq_full(r) <=> n - 1 = BUFSIZE - 1
  <2> HIDE DEF r, n, t
  <2>1. r.head \in Slots /\ r.tail \in Slots /\ Ahead(r.head, r.tail) = n - 1
    BY <1>1, <1>2, <1>3, <1>5, Zenon
  <2> QED
    BY <1>3, <2>1, ContentsAre
<1>7. First(q) = q.buf[t]
  BY Zenon DEF First
<1> HIDE DEF r, n, t
<1>8. /\ Len(Contents(q)) = n /\ Contents(q)[1] = q.buf[t] /\ Contents(q) # <<>>
      /\ Head(Contents(q)) = Contents(q)[1] /\ Contents(q)[1] \in S
  <2>1. Len(Contents(q)) = n
    BY <1>1, <1>4, <1>5
  <2>2. 1 \in 1 .. n /\ 1 - 1 = 0
    BY <1>4, <1>5
  <2>3. Contents(q)[1] = q.buf[t]
    BY <1>4, <1>5, <2>2
  <2> QED
    BY <1>1, <2>1, <2>2, <2>3
<1>9. Contents(r) = Tail(Contents(q))
  <2> DEFINE a == Tail(Contents(q))
  <2>1. a \in Seq(S) /\ Len(a) = n - 1 /\ \A k \in 1 .. n - 1 : a[k] = Contents(q)[k + 1]
    BY <1>1, <1>5, <1>8
  <2>2. ASSUME NEW k \in 1 .. n - 1
        PROVE  Contents(q)[k + 1] = q.buf[Slot(next(t), k - 1)]
    <3>1. k + 1 \in 1 .. n /\ (k + 1) - 1 = k /\ k - 1 \in 0 .. BUFSIZE - 2 /\ (k - 1) + 1 = k
      BY <1>5 DEF Constants
    <3>2. Contents(q)[k + 1] = q.buf[Slot(t, k)]
      BY <1>4, <3>1, Zenon
    <3> QED
      BY <1>5, <3>1, <3>2, Zenon
  <2> HIDE DEF a
  <2>3. Contents(r) = a
    BY <1>6, <2>1, <2>2, ElementsAre, Zenon
  <2> QED
    BY <2>3, Zenon DEF a
<1>10. Tail(Contents(q)) \in Seq(S)
  BY <1>1, <1>8
<1>11. r \in QueueOf(S)
  BY <1>3, <1>9, <1>10, Zenon DEF QueueOf
<1>12. ~intq_full(r)
  BY <1>5, <1>6 DEF Constants
<1> QED
  BY <1>7, <1>8, <1>9, <1>11, <1>12, Zenon DEF r

\* A queue is empty when it holds nothing.
LEMMA EmptyIs ==
  ASSUME Constants, NEW S, NEW q \in QueueOf(S)
  PROVE  intq_empty(q) <=> Contents(q) = <<>>
<1>1. q.head \in Slots /\ q.tail \in Slots /\ Contents(q) \in Seq(S)
  BY Zenon DEF QueueOf, QueueRecords
<1>2. /\ Contents(q) = [k \in 1 .. Ahead(q.head, q.tail) |-> q.buf[Slot(q.tail, k - 1)]]
      /\ Ahead(q.head, q.tail) \in Nat
      /\ intq_empty(q) <=> Ahead(q.head, q.tail) = 0
  BY <1>1, ContentsAre, RingMoves, ZenonT(40)
<1>3. Len(Contents(q)) = Ahead(q.head, q.tail)
  BY <1>1, <1>2
<1> QED
  BY <1>1, <1>2, <1>3

\* Its lock and its waiters say nothing of what it holds.
LEMMA SameBytes ==
  ASSUME NEW S, NEW q \in QueueOf(S), NEW t \in Threads \cup {NULL},
         NEW r \in {[q EXCEPT !.lock = NULL], [q EXCEPT !.lock = t, !["not_full"] = t],
                    [q EXCEPT !.lock = t, !["not_empty"] = t]}
  PROVE  /\ r \in QueueOf(S) /\ Contents(r) = Contents(q)
         /\ r.head = q.head /\ r.tail = q.tail
<1>1. q \in QueueRecords(S) /\ Contents(q) \in Seq(S)
  BY Zenon DEF QueueOf
<1>2. r.buf = q.buf /\ r.head = q.head /\ r.tail = q.tail /\ r \in QueueRecords(S)
  BY <1>1, Zenon DEF QueueRecords
<1>3. Contents(r) = Contents(q)
  BY <1>2, Zenon DEF Contents
<1> QED
  BY <1>1, <1>2, <1>3, Zenon DEF QueueOf

-----------------------------------------------------------------------------
(* The terminal.                                                           *)

Labels == {"idle", "again", "printing", "locking", "waiting"}

\* Queues and registers, and the interrupts that are asked for.
PortInv ==
  /\ mode \in {"UNINIT", "POLL", "QUEUE"}
  /\ txq \in QueueOf(Bytes) /\ thr \in Bytes \cup {NULL}
  /\ buffer \in QueueOf(Keys) /\ rbr \in Keys \cup {NULL}
  /\ mode # "QUEUE" => Contents(txq) = <<>>
  /\ InterruptsMatchQueues

\* Who has the console: the thread that is inside messages, one or two of them; and
\* the outer one has characters left while the inner one is printed.
Turn(t) ==
  /\ todo[t] # <<>> <=> console_lock = t
  /\ pc[t] # "idle" => todo[t] # <<>>
  /\ Len(todo[t]) <= 2 /\ (Len(todo[t]) = 2 => todo[t][1] > 0)
  /\ console_lock = t => console_lock_depth = Len(todo[t]) - 1

\* What was put last belongs to a message that has characters left, or ended it.
LastOpen ==
  panic = NULL /\ Unsent # <<>> /\ ~Unsent[Len(Unsent)].last =>
    todo[Unsent[Len(Unsent)].by] # <<>> /\ todo[Unsent[Len(Unsent)].by][1] > 0

ConsoleInv ==
  /\ pc \in [Threads -> Labels] /\ todo \in [Writers -> Seq(Nat)]
  /\ console_lock \in Writers \cup {NULL} /\ console_lock_depth \in Nat
  /\ panic \in Writers \cup {NULL}
  /\ panic # NULL => Len(todo[panic]) = 1
  /\ panic = NULL => /\ console_lock = NULL => console_lock_depth = 0
                     /\ \A t \in Writers : Turn(t)
  /\ LastOpen /\ MessagesNotMixed

\* The inductive invariant.
TermInv == PortInv /\ ConsoleInv

\* What a step does to the output: nothing but to the messages in hand, or a byte is
\* put, or a byte is sent.
Puts(t) ==
  /\ panic = t \/ At(t, "printing")
  /\ Left(t) > 0 /\ Printed(t)
  /\ Unsent' = Append(Unsent, Byte(t))
  /\ UNCHANGED <<console, pc, panic>>

Rests ==
  /\ UNCHANGED <<todo, console, panic>>
  /\ pc' \in [Threads -> Labels] /\ \A t \in Writers : pc'[t] # "idle" => pc[t] # "idle"

Flows ==
  \/ Rests /\ (Unsent' = Unsent \/ (Unsent # <<>> /\ Unsent' = Tail(Unsent)))
  \/ Unsent' = Unsent /\ \E t \in Writers : putbuf(t) \/ PrintEnds(t) \/ debug_panic(t)
  \/ \E t \in Writers : Puts(t)

\* And to the input.
Typed ==
  \/ Contents(buffer)' = Contents(buffer)
  \/ \E k \in Keys : Contents(buffer)' = Append(Contents(buffer), k)
  \/ Contents(buffer) # <<>> /\ Contents(buffer)' = Tail(Contents(buffer))

\* The bytes of the transmitter and of its queue.
Stream(c, s) == (IF c = NULL THEN <<>> ELSE <<c>>) \o s

\* An empty transmitter adds nothing to the queue.
LEMMA StreamEmpty ==
  ASSUME NEW S, NEW s \in Seq(S)
  PROVE  Stream(NULL, s) = s
BY DEF Stream

\* The byte in the transmitter is the first to leave.
LEMMA StreamFirst ==
  ASSUME NEW S, NULL \notin S, NEW s \in Seq(S), NEW c \in S
  PROVE  Stream(c, s) \in Seq(S) /\ Stream(c, s) # <<>> /\ Tail(Stream(c, s)) = s
<1>1. Stream(c, s) \in Seq(S) /\ Stream(c, s) # <<>>
  BY DEF Stream
<1> QED
  BY <1>1 DEF Stream

\* What is put in the queue leaves last.
LEMMA StreamPut ==
  ASSUME NEW S, NULL \notin S, NEW s \in Seq(S), NEW c \in S \cup {NULL}, NEW b \in S
  PROVE  Stream(c, Append(s, b)) = Append(Stream(c, s), b)
<1>1. CASE c = NULL
  BY <1>1 DEF Stream
<1>2. CASE c \in S
  BY <1>2 DEF Stream
<1> QED
  BY <1>1, <1>2, Zenon

\* putc_poll gives its byte to an idle transmitter.
LEMMA StreamPolled ==
  ASSUME NEW S, NULL \notin S, NEW b \in S
  PROVE  Stream(b, <<>>) = Append(Stream(NULL, <<>>), b)
BY DEF Stream

\* The interrupt handler moves the oldest byte to the transmitter.
LEMMA StreamMoves ==
  ASSUME NEW S, NULL \notin S, NEW s \in Seq(S), s # <<>>
  PROVE  Stream(Head(s), Tail(s)) = s
BY DEF Stream

\* What write_ier asks for.
LEMMA IerWritten ==
  ASSUME NEW tq, NEW in, write_ier(tq, in)
  PROVE  /\ "XMIT" \in ier' <=> ~intq_empty(tq)
         /\ "RECV" \in ier' <=> ~intq_full(in)
BY Zenon DEF write_ier

\* Locks and waiters of the queues change, and nothing else.
SameQueues ==
  /\ txq' \in QueueOf(Bytes) /\ Contents(txq') = Contents(txq)
  /\ txq'.head = txq.head /\ txq'.tail = txq.tail
  /\ buffer' \in QueueOf(Keys) /\ Contents(buffer') = Contents(buffer)
  /\ buffer'.head = buffer.head /\ buffer'.tail = buffer.tail

\* Then all bytes stay where they are, and the interrupts match.
LEMMA QuietPort ==
  ASSUME TermInv, SameQueues, UNCHANGED <<mode, thr, rbr, ier>>, panic' = NULL => panic = NULL
  PROVE  PortInv' /\ Unsent' = Unsent /\ Typed
<1>1. InterruptsMatchQueues'
  BY Zenon DEF TermInv, PortInv, SameQueues, InterruptsMatchQueues, intq_empty, intq_full
<1>2. Unsent' = Unsent
  BY Zenon DEF SameQueues, Unsent
<1>3. Typed
  BY Zenon DEF SameQueues, Typed
<1> QED
  BY <1>1, <1>2, <1>3, Zenon DEF TermInv, PortInv, SameQueues

\* A step of a thread that does not begin a message leaves the console alone.
LEMMA Goes ==
  ASSUME TermInv, NEW t \in Threads, NEW label \in Labels, Goto(t, label),
         t \in Writers => pc[t] # "idle", UNCHANGED <<todo, console, panic>>
  PROVE  Rests
BY DEF TermInv, ConsoleInv, Goto, Rests

\* A thread that goes to sleep, or waits for the lock, takes no byte.
LEMMA SleepsQuietly ==
  ASSUME TermInv, NEW t \in Threads, NEW x \in {tx, rx}, SleepOn(t, x)
  PROVE  SameQueues /\ \E label \in Labels \ {"idle"} : Goto(t, label)
<1>1. txq \in QueueOf(Bytes) /\ buffer \in QueueOf(Keys)
  BY Zenon DEF TermInv, PortInv
<1>2. CASE x.q.lock # NULL
  BY <1>1, <1>2, Zenon DEF SleepOn, SameQueues, Labels
<1>3. CASE x.q.lock = NULL /\ x = tx
  <2>1. txq' = [txq EXCEPT !.lock = t, !["not_full"] = t] /\ buffer' = buffer /\ Goto(t, "waiting")
    BY <1>3, Zenon DEF SleepOn, Queues, tx
  <2>2. /\ txq' \in QueueOf(Bytes) /\ Contents(txq') = Contents(txq)
        /\ txq'.head = txq.head /\ txq'.tail = txq.tail
    BY <1>1, <2>1, SameBytes, ZenonT(40)
  <2> QED
    BY <1>1, <2>1, <2>2, Zenon DEF SameQueues, Labels
<1>4. CASE x.q.lock = NULL /\ x = rx
  <2>1. buffer' = [buffer EXCEPT !.lock = t, !["not_empty"] = t] /\ txq' = txq /\ Goto(t, "waiting")
    BY <1>4, Zenon DEF SleepOn, Queues, rx
  <2>2. /\ buffer' \in QueueOf(Keys) /\ Contents(buffer') = Contents(buffer)
        /\ buffer'.head = buffer.head /\ buffer'.tail = buffer.tail
    BY <1>1, <2>1, SameBytes, ZenonT(40)
  <2> QED
    BY <1>1, <2>1, <2>2, Zenon DEF SameQueues, Labels
<1> QED
  BY <1>2, <1>3, <1>4, Zenon

\* Nor does one that is woken.
LEMMA WokenQuietly ==
  ASSUME TermInv, NEW t \in Threads, NEW x \in {tx, rx}, NEW label, Woken(t, x, label)
  PROVE  SameQueues
<1>1. txq \in QueueOf(Bytes) /\ buffer \in QueueOf(Keys)
  BY Zenon DEF TermInv, PortInv
<1>2. CASE x = tx
  <2>1. txq' = [txq EXCEPT !.lock = NULL] /\ buffer' = buffer
    BY <1>2, Zenon DEF Woken, Queues, tx
  <2>2. /\ txq' \in QueueOf(Bytes) /\ Contents(txq') = Contents(txq)
        /\ txq'.head = txq.head /\ txq'.tail = txq.tail
    BY <1>1, <2>1, SameBytes, Zenon
  <2> QED
    BY <1>1, <2>1, <2>2, Zenon DEF SameQueues
<1>3. CASE x = rx
  <2>1. buffer' = [buffer EXCEPT !.lock = NULL] /\ txq' = txq
    BY <1>3, Zenon DEF Woken, Queues, rx
  <2>2. /\ buffer' \in QueueOf(Keys) /\ Contents(buffer') = Contents(buffer)
        /\ buffer'.head = buffer.head /\ buffer'.tail = buffer.tail
    BY <1>1, <2>1, SameBytes, Zenon
  <2> QED
    BY <1>1, <2>1, <2>2, Zenon DEF SameQueues
<1> QED
  BY <1>2, <1>3, Zenon

\* A byte goes into the input buffer or out of it, and the output stays.
LEMMA InputMoves ==
  ASSUME Constants, TermInv, buffer' \in QueueOf(Keys), Typed, rbr' \in Keys \cup {NULL},
         UNCHANGED <<mode, txq, thr>>, mode = "QUEUE" => write_ier(txq, buffer')
  PROVE  PortInv' /\ Unsent' = Unsent
<1>1. InterruptsMatchQueues'
  BY IerWritten, Zenon DEF InterruptsMatchQueues
<1>2. Unsent' = Unsent
  BY Zenon DEF Unsent
<1> QED
  BY <1>1, <1>2, Zenon DEF TermInv, PortInv

\* Steps of a reader.
LEMMA ReaderFlows ==
  ASSUME Constants, TermInv, NEW t \in Readers, Reader(t)
  PROVE  PortInv' /\ Flows /\ Typed
<1>1. t \in Threads /\ t \notin Writers
  BY Zenon DEF Constants, Threads
<1>2. CASE input_getc_waits(t)
  <2>1. SleepOn(t, rx) /\ UNCHANGED <<mode, thr, rbr, ier, todo, console, panic>>
    BY <1>2, Zenon DEF input_getc_waits, uart
  <2>2. SameQueues /\ \E label \in Labels \ {"idle"} : Goto(t, label)
    BY <1>1, <2>1, SleepsQuietly, Zenon
  <2>3. Rests
    BY <1>1, <2>1, <2>2, Goes, Zenon
  <2> QED
    BY <2>1, <2>2, <2>3, QuietPort, Zenon DEF Flows
<1>3. CASE input_getc(t)
  <2>1. /\ ~intq_empty(buffer) /\ buffer' = intq_getc(buffer) /\ Goto(t, "idle")
        /\ serial_notify(buffer') /\ UNCHANGED <<mode, txq, thr, rbr, todo, console, panic>>
    BY <1>3, Zenon DEF input_getc, rx
  <2>2. buffer \in QueueOf(Keys) /\ rbr \in Keys \cup {NULL}
    BY Zenon DEF TermInv, PortInv
  <2>3. /\ buffer' \in QueueOf(Keys) /\ Contents(buffer) # <<>>
        /\ Contents(buffer') = Tail(Contents(buffer))
    BY <2>1, <2>2, GetFirst, Zenon
  <2>4. Typed
    BY <2>3, Zenon DEF Typed
  <2>5. PortInv' /\ Unsent' = Unsent
    BY <2>1, <2>2, <2>3, <2>4, InputMoves, Zenon DEF serial_notify
  <2>6. Rests
    BY <1>1, <2>1, Goes, Zenon DEF Labels
  <2> QED
    BY <2>4, <2>5, <2>6, Zenon DEF Flows
<1>4. CASE LockGot(t, rx)
  <2>1. UNCHANGED <<mode, thr, rbr, ier, todo, console, panic>>
    BY <1>4, Zenon DEF LockGot, uart
  <2>2. CASE SleepOn(t, rx)
    <3>1. SameQueues /\ \E label \in Labels \ {"idle"} : Goto(t, label)
      BY <1>1, <2>2, SleepsQuietly, Zenon
    <3>2. Rests
      BY <1>1, <2>1, <3>1, Goes, Zenon
    <3> QED
      BY <2>1, <3>1, <3>2, QuietPort, Zenon DEF Flows
  <2>3. CASE UNCHANGED <<txq, buffer, pc>>
    <3>1. SameQueues
      BY <2>3, Zenon DEF SameQueues, TermInv, PortInv
    <3>2. Rests
      BY <2>1, <2>3, Zenon DEF Rests, TermInv, ConsoleInv
    <3> QED
      BY <2>1, <3>1, <3>2, QuietPort, Zenon DEF Flows
  <2> QED
    BY <1>4, <2>2, <2>3, Zenon DEF LockGot
<1>5. CASE Woken(t, rx, "again")
  <2>1. Goto(t, "again") /\ UNCHANGED <<mode, thr, rbr, ier, todo, console, panic>>
    BY <1>5, Zenon DEF Woken, uart
  <2>2. SameQueues
    BY <1>1, <1>5, WokenQuietly, Zenon
  <2>3. Rests
    BY <1>1, <2>1, Goes, Zenon DEF Labels
  <2> QED
    BY <2>1, <2>2, <2>3, QuietPort, Zenon DEF Flows
<1> QED
  BY <1>2, <1>3, <1>4, <1>5, Zenon DEF Reader

\* Steps of the UART, and keys that are typed.
LEMMA DeviceFlows ==
  ASSUME Constants, TermInv,
         SendByte \/ ByteArrives \/ serial_init_queue \/ \E k \in Keys : keyboard_interrupt(k)
  PROVE  PortInv' /\ Flows /\ Typed
<1>1. /\ txq \in QueueOf(Bytes) /\ thr \in Bytes \cup {NULL} /\ Contents(txq) \in Seq(Bytes)
      /\ buffer \in QueueOf(Keys) /\ rbr \in Keys \cup {NULL} /\ NULL \notin Bytes
  BY Zenon DEF TermInv, PortInv, QueueOf, Constants
<1>2. UNCHANGED <<todo, console, pc, panic>> => Rests
  BY Zenon DEF Rests, TermInv, ConsoleInv
<1>3. CASE SendByte
  <2>1. thr # NULL /\ thr' = NULL /\ UNCHANGED <<mode, txq, buffer, ier, rbr, todo, console, pc, panic>>
    BY <1>3, Zenon DEF SendByte
  <2>2. Unsent = Stream(thr, Contents(txq)) /\ Unsent' = Stream(NULL, Contents(txq))
    BY <2>1, Zenon DEF Unsent, Stream
  <2>3. Unsent # <<>> /\ Unsent' = Tail(Unsent)
    BY <1>1, <2>1, <2>2, StreamFirst, StreamEmpty, Zenon
  <2>4. PortInv' /\ Typed
    BY <2>1, Zenon DEF TermInv, PortInv, InterruptsMatchQueues, Typed
  <2> QED
    BY <1>2, <2>1, <2>3, <2>4, Zenon DEF Flows
<1>4. CASE ByteArrives
  <2>1. rbr' \in Keys /\ UNCHANGED <<mode, txq, buffer, ier, thr, todo, console, pc, panic>>
    BY <1>4, Zenon DEF ByteArrives
  <2>2. PortInv' /\ Typed /\ Unsent' = Unsent
    BY <2>1, Zenon DEF TermInv, PortInv, InterruptsMatchQueues, Typed, Unsent
  <2> QED
    BY <1>2, <2>1, <2>2, Zenon DEF Flows
<1>5. CASE serial_init_queue
  <2>1. /\ mode # "QUEUE" /\ mode' = "QUEUE" /\ write_ier(txq, buffer)
        /\ UNCHANGED <<txq, buffer, thr, rbr, todo, console, pc, panic>>
    BY <1>5, Zenon DEF serial_init_queue
  <2>2. InterruptsMatchQueues'
    BY <2>1, IerWritten, Zenon DEF InterruptsMatchQueues
  <2>3. PortInv' /\ Typed /\ Unsent' = Unsent
    BY <2>1, <2>2, Zenon DEF TermInv, PortInv, Typed, Unsent
  <2> QED
    BY <1>2, <2>1, <2>3, Zenon DEF Flows
<1>6. ASSUME NEW k \in Keys, keyboard_interrupt(k) PROVE PortInv' /\ Flows /\ Typed
  <2>1. /\ ~intq_full(buffer) /\ buffer' = intq_putc(buffer, k) /\ serial_notify(buffer')
        /\ UNCHANGED <<mode, txq, thr, rbr, todo, console, pc, panic>>
    BY <1>6, Zenon DEF keyboard_interrupt
  <2>2. buffer' \in QueueOf(Keys) /\ Contents(buffer') = Append(Contents(buffer), k)
    BY <1>1, <2>1, PutLast, Zenon
  <2>3. Typed
    BY <2>2, Zenon DEF Typed
  <2>4. PortInv' /\ Unsent' = Unsent
    BY <1>1, <2>1, <2>2, <2>3, InputMoves, Zenon DEF serial_notify
  <2> QED
    BY <1>2, <2>1, <2>3, <2>4, Zenon DEF Flows
<1> QED
  BY <1>3, <1>4, <1>5, <1>6, Zenon

\* The oldest byte of the queue goes to the transmitter.
LEMMA SendsOldest ==
  ASSUME Constants, TermInv, ~intq_empty(txq), thr = NULL, thr' = First(txq), txq' = intq_getc(txq)
  PROVE  txq' \in QueueOf(Bytes) /\ thr' \in Bytes /\ Unsent' = Unsent
<1>1. txq \in QueueOf(Bytes) /\ Contents(txq) \in Seq(Bytes) /\ NULL \notin Bytes
  BY Zenon DEF TermInv, PortInv, QueueOf, Constants
<1>2. /\ txq' \in QueueOf(Bytes) /\ thr' \in Bytes /\ Contents(txq) # <<>>
      /\ thr' = Head(Contents(txq)) /\ Contents(txq') = Tail(Contents(txq))
  BY <1>1, GetFirst, Zenon
<1>3. Unsent = Stream(NULL, Contents(txq)) /\ Unsent' = Stream(thr', Contents(txq'))
  BY Zenon DEF Unsent, Stream
<1> QED
  BY <1>1, <1>2, <1>3, StreamEmpty, StreamMoves, Zenon

\* The interrupt handler.
LEMMA InterruptFlows ==
  ASSUME Constants, TermInv, serial_interrupt
  PROVE  PortInv' /\ Flows /\ Typed
<1>1. /\ txq \in QueueOf(Bytes) /\ thr \in Bytes \cup {NULL}
      /\ buffer \in QueueOf(Keys) /\ rbr \in Keys \cup {NULL}
  BY Zenon DEF TermInv, PortInv
<1>2. /\ mode = "QUEUE" /\ Receive /\ Transmit /\ write_ier(txq', buffer')
      /\ UNCHANGED <<mode, todo, console, pc, panic>>
  BY Zenon DEF serial_interrupt
<1>3. txq' \in QueueOf(Bytes) /\ thr' \in Bytes \cup {NULL} /\ Unsent' = Unsent
  <2>1. CASE ~intq_empty(txq) /\ thr = NULL
    BY <1>2, <2>1, SendsOldest, Zenon DEF Transmit
  <2>2. CASE ~(~intq_empty(txq) /\ thr = NULL)
    BY <1>1, <1>2, <2>2, Zenon DEF Transmit, Unsent
  <2> QED
    BY <2>1, <2>2, Zenon
<1>4. buffer' \in QueueOf(Keys) /\ rbr' \in Keys \cup {NULL} /\ Typed
  <2>1. CASE ~intq_full(buffer) /\ rbr # NULL
    <3>1. rbr \in Keys /\ buffer' = intq_putc(buffer, rbr) /\ rbr' = NULL
      BY <1>1, <1>2, <2>1, Zenon DEF Receive
    <3>2. buffer' \in QueueOf(Keys) /\ Contents(buffer') = Append(Contents(buffer), rbr)
      BY <1>1, <2>1, <3>1, PutLast, Zenon
    <3> QED
      BY <3>1, <3>2, Zenon DEF Typed
  <2>2. CASE ~(~intq_full(buffer) /\ rbr # NULL)
    BY <1>1, <1>2, <2>2, Zenon DEF Receive, Typed
  <2> QED
    BY <2>1, <2>2, Zenon
<1>5. InterruptsMatchQueues'
  BY <1>2, IerWritten, Zenon DEF InterruptsMatchQueues
<1>6. PortInv'
  BY <1>2, <1>3, <1>4, <1>5, Zenon DEF PortInv
<1>7. Rests
  BY <1>2, Zenon DEF Rests, TermInv, ConsoleInv
<1> QED
  BY <1>3, <1>4, <1>6, <1>7, Zenon DEF Flows

\* A byte is put, by polling, into the queue, or behind a full queue.
LEMMA BytePut ==
  ASSUME Constants, TermInv, NEW b \in Bytes, UNCHANGED <<buffer, rbr, panic>>,
         \/ PutPolled(b) \/ PutQueued(b)
         \/ panic # NULL /\ PutFull(b)
  PROVE  PortInv' /\ Typed /\ Unsent' = Append(Unsent, b)
<1>1. /\ txq \in QueueOf(Bytes) /\ Contents(txq) \in Seq(Bytes) /\ NULL \notin Bytes
      /\ buffer \in QueueOf(Keys) /\ rbr \in Keys \cup {NULL} /\ thr \in Bytes \cup {NULL}
  BY Zenon DEF TermInv, PortInv, QueueOf, Constants
<1>2. Typed
  BY Zenon DEF Typed
<1>3. Unsent = Stream(thr, Contents(txq)) /\ Unsent' = Stream(thr', Contents(txq'))
  BY Zenon DEF Unsent, Stream
<1>4. CASE PutPolled(b)
  <2>1. mode # "QUEUE" /\ mode' = "POLL" /\ thr = NULL /\ thr' = b /\ txq' = txq
    BY <1>4, Zenon DEF PutPolled, putc_poll
  <2>2. Contents(txq) = <<>>
    BY <2>1, Zenon DEF TermInv, PortInv
  <2>3. PortInv'
    BY <1>1, <2>1, <2>2, Zenon DEF PortInv, InterruptsMatchQueues
  <2> QED
    BY <1>1, <1>2, <1>3, <2>1, <2>2, <2>3, StreamPolled, Zenon
<1>5. CASE PutQueued(b)
  <2>1. /\ mode = "QUEUE" /\ ~intq_full(txq) /\ txq' = intq_putc(txq, b)
        /\ write_ier(txq', buffer) /\ UNCHANGED <<mode, thr>>
    BY <1>5, Zenon DEF PutQueued
  <2>2. txq' \in QueueOf(Bytes) /\ Contents(txq') = Append(Contents(txq), b)
    BY <1>1, <2>1, PutLast, Zenon
  <2>3. InterruptsMatchQueues'
    BY <2>1, IerWritten, Zenon DEF InterruptsMatchQueues
  <2>4. PortInv'
    BY <1>1, <2>1, <2>2, <2>3, Zenon DEF PortInv
  <2>5. Unsent' = Append(Unsent, b)
    BY <1>1, <1>3, <2>1, <2>2, StreamPut
  <2> QED
    BY <1>2, <2>4, <2>5, Zenon
<1>6. CASE panic # NULL /\ PutFull(b)
  <2> DEFINE got == intq_getc(txq)
  <2>1. /\ mode = "QUEUE" /\ intq_full(txq) /\ thr = NULL /\ thr' = First(txq)
        /\ txq' = intq_putc(got, b) /\ UNCHANGED mode
    BY <1>6, Zenon DEF PutFull, putc_poll
  <2>2. ~intq_empty(txq)
    <3>1. txq.head \in Slots /\ txq.tail \in Slots /\ BUFSIZE \in Nat /\ BUFSIZE > 1
      BY <1>1, Zenon DEF QueueOf, QueueRecords, Constants
    <3> QED
      BY <2>1, <3>1, ContentsAre
  <2>3. /\ got \in QueueOf(Bytes) /\ ~intq_full(got) /\ Contents(txq) # <<>>
        /\ First(txq) = Head(Contents(txq)) /\ First(txq) \in Bytes
        /\ Contents(got) = Tail(Contents(txq))
    BY <1>1, <2>2, GetFirst, Zenon
  <2> HIDE DEF got
  <2>4. txq' \in QueueOf(Bytes) /\ Contents(txq') = Append(Contents(got), b)
    BY <2>1, <2>3, PutLast, Zenon
  <2>5. Unsent' = Append(Unsent, b)
    <3> DEFINE c == Contents(txq)
    <3>1. Unsent = c /\ Unsent' = Stream(Head(c), Append(Tail(c), b))
      BY <1>1, <1>3, <2>1, <2>3, <2>4, StreamEmpty, Zenon
    <3>2. c \in Seq(Bytes) /\ c # <<>> /\ Tail(c) \in Seq(Bytes) /\ Head(c) \in Bytes
      BY <1>1, <2>3
    <3> HIDE DEF c
    <3>3. \A h \in Bytes, d \in Seq(Bytes) : Stream(h, Append(d, b)) = Append(Stream(h, d), b)
      BY <1>1, StreamPut
    <3>4. Stream(Head(c), Tail(c)) = c
      BY <1>1, <3>2, StreamMoves, Zenon
    <3> QED
      BY <3>1, <3>2, <3>3, <3>4, Zenon
  <2>6. PortInv'
    BY <1>1, <1>6, <2>1, <2>3, <2>4, Zenon DEF PortInv, InterruptsMatchQueues
  <2> QED
    BY <1>2, <2>5, <2>6, Zenon
<1> QED
  BY <1>4, <1>5, <1>6, Zenon

\* The byte that a thread puts next.
LEMMA ByteIs ==
  ASSUME NEW t \in Writers
  PROVE  Byte(t) \in Bytes
BY Zenon DEF Byte, Bytes

\* Steps of a writer, and of the thread that panics.
LEMMA WriterFlows ==
  ASSUME Constants, TermInv, NEW t \in Writers, Writer(t) \/ debug_panic(t)
  PROVE  PortInv' /\ Flows /\ Typed
<1>1. t \in Threads
  BY Zenon DEF Threads
<1>2. ASSUME putbuf(t) \/ PrintEnds(t) \/ debug_panic(t) PROVE PortInv' /\ Flows /\ Typed
  <2>1. UNCHANGED <<mode, txq, buffer, thr, rbr, ier>> /\ (panic' = NULL => panic = NULL)
    BY <1>2, Zenon DEF putbuf, PrintEnds, debug_panic, uart, IntrOn
  <2>2. SameQueues
    BY <2>1, Zenon DEF SameQueues, TermInv, PortInv
  <2> QED
    BY <1>2, <2>1, <2>2, QuietPort, Zenon DEF Flows
<1>3. CASE serial_putc(t)
  <2>1. /\ At(t, "printing") /\ Left(t) > 0 /\ (PutPolled(Byte(t)) \/ PutQueued(Byte(t)))
        /\ Printed(t) /\ UNCHANGED <<buffer, rbr, console, pc, panic>>
    BY <1>3, Zenon DEF serial_putc
  <2>2. PortInv' /\ Typed /\ Unsent' = Append(Unsent, Byte(t))
    BY <2>1, ByteIs, BytePut, Zenon
  <2> QED
    BY <2>1, <2>2, Zenon DEF Flows, Puts
<1>4. CASE serial_putc_waits(t)
  <2>1. /\ At(t, "printing") /\ SleepOn(t, tx)
        /\ UNCHANGED <<mode, thr, rbr, ier, todo, console, panic>>
    BY <1>4, Zenon DEF serial_putc_waits, uart
  <2>2. SameQueues /\ \E label \in Labels \ {"idle"} : Goto(t, label)
    BY <1>1, <2>1, SleepsQuietly, Zenon
  <2>3. Rests
    BY <1>1, <2>1, <2>2, Goes, Zenon DEF At
  <2> QED
    BY <2>1, <2>2, <2>3, QuietPort, Zenon DEF Flows
<1>5. CASE Woken(t, tx, "printing")
  <2>1. /\ At(t, "waiting") /\ Goto(t, "printing")
        /\ UNCHANGED <<mode, thr, rbr, ier, todo, console, panic>>
    BY <1>5, Zenon DEF Woken, uart
  <2>2. SameQueues
    BY <1>1, <1>5, WokenQuietly, Zenon
  <2>3. Rests
    BY <1>1, <2>1, Goes, Zenon DEF Labels, At
  <2> QED
    BY <2>1, <2>2, <2>3, QuietPort, Zenon DEF Flows
<1> QED
  BY <1>2, <1>3, <1>4, <1>5, Zenon DEF Writer

\* A panic prints its message and sends what the queue holds.
LEMMA PanicFlows ==
  ASSUME Constants, TermInv, PanicPutc \/ serial_flush
  PROVE  PortInv' /\ Flows /\ Typed
<1>1. panic # NULL /\ panic \in Writers
  BY Zenon DEF TermInv, ConsoleInv, PanicPutc, serial_flush
<1>2. CASE PanicPutc
  <2> DEFINE b == Byte(panic)
  <2>1. /\ Left(panic) > 0 /\ (PutPolled(b) \/ PutQueued(b) \/ PutFull(b))
        /\ Printed(panic) /\ UNCHANGED <<buffer, rbr, console, pc, panic>>
    BY <1>2, Zenon DEF PanicPutc
  <2>2. b \in Bytes
    BY <1>1, ByteIs, Zenon
  <2> HIDE DEF b
  <2>3. PortInv' /\ Typed /\ Unsent' = Append(Unsent, b)
    BY <1>1, <2>1, <2>2, BytePut, Zenon
  <2>4. Puts(panic)
    BY <2>1, <2>3, Zenon DEF Puts, b
  <2> QED
    BY <1>1, <2>3, <2>4, Zenon DEF Flows
<1>3. CASE serial_flush
  <2>1. /\ ~intq_empty(txq) /\ thr = NULL /\ thr' = First(txq) /\ txq' = intq_getc(txq)
        /\ UNCHANGED <<mode, buffer, ier, rbr, console, todo, pc, panic>>
    BY <1>3, Zenon DEF serial_flush, putc_poll
  <2>2. txq' \in QueueOf(Bytes) /\ thr' \in Bytes /\ Unsent' = Unsent
    BY <2>1, SendsOldest, Zenon
  <2>3. mode = "QUEUE"
    <3>1. txq \in QueueOf(Bytes) /\ (mode # "QUEUE" => Contents(txq) = <<>>)
      BY Zenon DEF TermInv, PortInv
    <3> QED
      BY <2>1, <3>1, EmptyIs, Zenon
  <2>4. PortInv' /\ Typed
    BY <1>1, <2>1, <2>2, <2>3, Zenon DEF TermInv, PortInv, InterruptsMatchQueues, Typed
  <2>5. Rests
    BY <2>1, Zenon DEF Rests, TermInv, ConsoleInv
  <2> QED
    BY <2>2, <2>4, <2>5, Zenon DEF Flows
<1> QED
  BY <1>2, <1>3, Zenon

\* Every step moves bytes in order.
LEMMA NextFlows ==
  ASSUME Constants, TermInv, Next
  PROVE  PortInv' /\ Flows /\ Typed
BY ReaderFlows, WriterFlows, DeviceFlows, InterruptFlows, PanicFlows, Zenon DEF Next

\* Bytes of different messages are apart.
Separated(s) == \A k \in 1 .. Len(s) - 1 : s[k].by # s[k + 1].by => s[k].last

\* They stay so when the first is sent, and when a byte is put that goes on with the
\* message of the last one, or follows its end.
LEMMA SentSeparated ==
  ASSUME NEW S, NEW s \in Seq(S), s # <<>>, Separated(s)
  PROVE  /\ Tail(s) \in Seq(S) /\ Separated(Tail(s))
         /\ Tail(s) # <<>> => Tail(s)[Len(Tail(s))] = s[Len(s)]
<1> DEFINE r == Tail(s)
<1>1. r \in Seq(S) /\ Len(r) = Len(s) - 1 /\ \A k \in 1 .. Len(r) : r[k] = s[k + 1]
  OBVIOUS
<1>2. Len(s) \in Nat /\ Len(r) \in Nat
  BY <1>1
<1> HIDE DEF r
<1>3. Separated(r)
  <2> SUFFICES ASSUME NEW k \in 1 .. Len(r) - 1, r[k].by # r[k + 1].by PROVE r[k].last
    BY Zenon DEF Separated
  <2>1. /\ k \in 1 .. Len(r) /\ k + 1 \in 1 .. Len(r) /\ k + 1 \in 1 .. Len(s) - 1
        /\ r[k] = s[k + 1] /\ r[k + 1] = s[(k + 1) + 1]
    BY <1>1, <1>2
  <2> QED
    BY <2>1, Zenon DEF Separated
<1>4. r # <<>> => r[Len(r)] = s[Len(s)]
  <2> HAVE r # <<>>
  <2>1. Len(r) \in 1 .. Len(r) /\ Len(r) + 1 = Len(s)
    BY <1>1, <1>2
  <2> QED
    BY <1>1, <2>1, Zenon
<1> QED
  BY <1>1, <1>3, <1>4, Zenon DEF r

\* A byte may follow one of the same thread, or the end of a message.
LEMMA PutSeparated ==
  ASSUME NEW S, NEW s \in Seq(S), NEW b \in S, Separated(s),
         s # <<>> /\ s[Len(s)].by # b.by => s[Len(s)].last
  PROVE  /\ Append(s, b) # <<>> /\ Append(s, b)[Len(Append(s, b))] = b
         /\ Separated(Append(s, b))
<1> DEFINE r == Append(s, b)
           n == Len(s)
<1>1. /\ r \in Seq(S) /\ n \in Nat /\ Len(r) = n + 1 /\ r[n + 1] = b
      /\ \A k \in 1 .. n : r[k] = s[k]
  OBVIOUS
<1>2. n > 0 => s # <<>>
  OBVIOUS
<1> HIDE DEF r
<1>3. r # <<>>
  BY <1>1
<1>4. Separated(r)
  <2> SUFFICES ASSUME NEW k \in 1 .. n, r[k].by # r[k + 1].by PROVE r[k].last
    BY <1>1 DEF Separated
  <2>1. CASE k = n
    <3>1. r[k] = s[n] /\ r[k + 1] = b /\ s # <<>>
      BY <1>1, <1>2, <2>1
    <3> QED
      BY <3>1
  <2>2. CASE k \in 1 .. n - 1
    <3>1. r[k] = s[k] /\ r[k + 1] = s[k + 1]
      BY <1>1, <2>2
    <3> QED
      BY <2>2, <3>1, Zenon DEF Separated
  <2> QED
    BY <1>1, <2>1, <2>2
<1> QED
  BY <1>1, <1>3, <1>4, Zenon DEF r

\* The last element of a sequence that has one.
LEMMA LastOfSeq ==
  ASSUME NEW S, NEW s \in Seq(S), s # <<>>
  PROVE  s[Len(s)] \in S
OBVIOUS

\* The bytes that wait to be sent.
LEMMA UnsentType ==
  ASSUME Constants, PortInv
  PROVE  Unsent \in Seq(Bytes)
<1>1. thr \in Bytes \cup {NULL} /\ Contents(txq) \in Seq(Bytes) /\ NULL \notin Bytes
  BY Zenon DEF PortInv, QueueOf, Constants
<1>2. Unsent = Stream(thr, Contents(txq))
  BY Zenon DEF Unsent, Stream
<1> QED
  BY <1>1, <1>2, StreamEmpty, StreamFirst, Zenon

\* The console while messages stay as they are.
LEMMA RestsConsole ==
  ASSUME Constants, TermInv, Rests,
         Unsent' = Unsent \/ (Unsent # <<>> /\ Unsent' = Tail(Unsent))
  PROVE  ConsoleInv'
<1>1. Unsent \in Seq(Bytes)
  BY UnsentType, Zenon DEF TermInv
<1>2. UNCHANGED <<todo, console_lock, console_lock_depth, panic>>
  BY Zenon DEF Rests, console
<1>3. panic = NULL => \A t \in Writers : Turn(t)'
  BY <1>2, Zenon DEF TermInv, ConsoleInv, Turn, Rests
<1>4. panic = NULL => Separated(Unsent)
  BY Zenon DEF TermInv, ConsoleInv, MessagesNotMixed, Separated
<1>5. panic = NULL => /\ Separated(Unsent')
                      /\ Unsent' # <<>> => Unsent # <<>> /\ Unsent'[Len(Unsent')] = Unsent[Len(Unsent)]
  BY <1>1, <1>4, SentSeparated, Zenon
<1>6. MessagesNotMixed'
  BY <1>2, <1>5, Zenon DEF MessagesNotMixed, Separated
<1>7. LastOpen'
  BY <1>2, <1>5, Zenon DEF TermInv, ConsoleInv, LastOpen
<1> QED
  BY <1>2, <1>3, <1>6, <1>7, Zenon DEF TermInv, ConsoleInv, Rests

\* A message begins.
LEMMA BeginsConsole ==
  ASSUME Constants, TermInv, NEW t \in Writers, putbuf(t), Unsent' = Unsent
  PROVE  ConsoleInv'
<1>1. /\ panic = NULL /\ panic' = panic /\ acquire_console(t) /\ t \in Threads /\ t # NULL
      /\ todo' = [todo EXCEPT ![t] = Append(@, MsgLen)] /\ pc' = [pc EXCEPT ![t] = "printing"]
  BY Zenon DEF putbuf, At, IntrOn, Goto, Constants, Threads
<1>0. \A u \in Writers : u # NULL
  BY Zenon DEF Constants, Threads
<1>2. /\ todo \in [Writers -> Seq(Nat)] /\ todo[t] \in Seq(Nat) /\ MsgLen \in Nat
      /\ pc \in [Threads -> Labels] /\ console_lock_depth \in Nat /\ console_lock \in Writers \cup {NULL}
      /\ (console_lock = NULL => console_lock_depth = 0) /\ \A u \in Writers : Turn(u)
  BY <1>1, Zenon DEF TermInv, ConsoleInv, Constants
<1>3. /\ todo'[t] = Append(todo[t], MsgLen) /\ todo' \in [Writers -> Seq(Nat)]
      /\ todo'[t] # <<>> /\ Len(todo'[t]) = Len(todo[t]) + 1 /\ Len(todo[t]) \in Nat
      /\ \A u \in Writers \ {t} : todo'[u] = todo[u] /\ pc'[u] = pc[u]
      /\ pc' \in [Threads -> Labels]
  <2> DEFINE a == Append(todo[t], MsgLen)
  <2>1. a \in Seq(Nat) /\ Len(a) = Len(todo[t]) + 1 /\ Len(todo[t]) \in Nat
    BY <1>2
  <2>2. todo' = [todo EXCEPT ![t] = a]
    BY <1>1, Zenon
  <2> HIDE DEF a
  <2>3. a # <<>>
    BY <2>1
  <2>4. todo'[t] = a /\ todo' \in [Writers -> Seq(Nat)] /\ \A u \in Writers \ {t} : todo'[u] = todo[u]
    BY <1>2, <2>1, <2>2, Zenon
  <2>5. pc' \in [Threads -> Labels] /\ \A u \in Writers \ {t} : pc'[u] = pc[u]
    BY <1>1, <1>2, Zenon DEF Threads, Labels
  <2> QED
    BY <2>1, <2>3, <2>4, <2>5, Zenon DEF a
<1>4. CASE todo[t] = <<>>
  <2>1. console_lock = NULL /\ console_lock' = t /\ console_lock_depth' = 0
    BY <1>1, <1>2, <1>4, Zenon DEF Turn, acquire_console
  <2>2. Turn(t)'
    BY <1>1, <1>3, <1>4, <2>1 DEF Turn
  <2>3. \A u \in Writers \ {t} : Turn(u)'
    BY <1>0, <1>1, <1>2, <1>3, <2>1, Zenon DEF Turn
  <2>4. LastOpen'
    <3> SUFFICES ASSUME Unsent # <<>>, ~Unsent[Len(Unsent)].last,
                        todo[Unsent[Len(Unsent)].by] # <<>>, todo[Unsent[Len(Unsent)].by][1] > 0
                 PROVE  todo'[Unsent[Len(Unsent)].by] # <<>> /\ todo'[Unsent[Len(Unsent)].by][1] > 0
      BY <1>1, Zenon DEF LastOpen, TermInv, ConsoleInv
    <3>1. Unsent[Len(Unsent)].by \in Writers \ {t}
      <4>1. Unsent \in Seq(Bytes)
        BY UnsentType, Zenon DEF TermInv
      <4>2. Unsent[Len(Unsent)] \in Bytes
        BY <4>1, LastOfSeq, Zenon
      <4> QED
        BY <1>4, <4>2, Zenon DEF Bytes
    <3> QED
      BY <1>3, <3>1, Zenon
  <2> QED
    BY <1>1, <1>3, <2>1, <2>2, <2>3, <2>4, Zenon DEF TermInv, ConsoleInv, MessagesNotMixed
<1>5. CASE todo[t] # <<>>
  <2>1. Len(todo[t]) = 1 /\ todo[t][1] > 0
    BY <1>5, Zenon DEF putbuf
  <2>2. console_lock = t /\ console_lock' = t /\ console_lock_depth' = 1
    <3>1. Turn(t)
      BY <1>2, Zenon
    <3>2. console_lock = t /\ console_lock_depth = 0
      BY <1>5, <2>1, <3>1 DEF Turn
    <3> QED
      BY <1>1, <3>2 DEF acquire_console
  <2>3. todo'[t][1] = todo[t][1]
    BY <1>2, <1>3, <2>1
  <2>4. Turn(t)'
    BY <1>1, <1>3, <2>1, <2>2, <2>3 DEF Turn
  <2>5. \A u \in Writers \ {t} : Turn(u)'
    BY <1>1, <1>2, <1>3, <2>2, Zenon DEF Turn
  <2>6. LastOpen'
    <3> SUFFICES ASSUME Unsent # <<>>, ~Unsent[Len(Unsent)].last,
                        todo[Unsent[Len(Unsent)].by] # <<>>, todo[Unsent[Len(Unsent)].by][1] > 0
                 PROVE  todo'[Unsent[Len(Unsent)].by] # <<>> /\ todo'[Unsent[Len(Unsent)].by][1] > 0
      BY <1>1, Zenon DEF LastOpen, TermInv, ConsoleInv
    <3>1. Unsent[Len(Unsent)].by \in Writers
      <4>1. Unsent \in Seq(Bytes)
        BY UnsentType, Zenon DEF TermInv
      <4>2. Unsent[Len(Unsent)] \in Bytes
        BY <4>1, LastOfSeq, Zenon
      <4> QED
        BY <4>2, Zenon DEF Bytes
    <3> QED
      BY <1>3, <2>3, <3>1, Zenon
  <2> QED
    BY <1>1, <1>2, <1>3, <2>2, <2>4, <2>5, <2>6, Zenon DEF TermInv, ConsoleInv, MessagesNotMixed
<1> QED
  BY <1>4, <1>5, Zenon

\* A message ends: the outer one goes on, or the console is free.
LEMMA EndsConsole ==
  ASSUME Constants, TermInv, NEW t \in Writers, PrintEnds(t), Unsent' = Unsent
  PROVE  ConsoleInv'
<1> DEFINE outer == SubSeq(todo[t], 1, Len(todo[t]) - 1)
           n == Len(todo[t])
<1>1. /\ panic = NULL /\ panic' = panic /\ release_console /\ pc[t] = "printing" /\ t \in Threads
      /\ t # NULL /\ Left(t) = 0 /\ todo' = [todo EXCEPT ![t] = outer]
      /\ pc' = [pc EXCEPT ![t] = IF outer = <<>> THEN "idle" ELSE "printing"]
  BY Zenon DEF PrintEnds, At, IntrOn, Goto, Constants, Threads
<1>0. \A u \in Writers : u # NULL
  BY Zenon DEF Constants, Threads
<1>2. /\ todo \in [Writers -> Seq(Nat)] /\ todo[t] \in Seq(Nat)
      /\ pc \in [Threads -> Labels] /\ console_lock_depth \in Nat /\ console_lock \in Writers \cup {NULL}
      /\ (console_lock = NULL => console_lock_depth = 0) /\ \A u \in Writers : Turn(u)
  BY <1>1, Zenon DEF TermInv, ConsoleInv
<1>3. /\ todo[t] # <<>> /\ console_lock = t /\ n \in {1, 2} /\ console_lock_depth = n - 1
      /\ n = 2 => todo[t][1] > 0
  <2>1. Turn(t)
    BY <1>2, Zenon
  <2>2. todo[t] # <<>> /\ console_lock = t /\ n <= 2 /\ console_lock_depth = n - 1
    BY <1>1, <2>1, Zenon DEF Turn
  <2>3. n \in Nat /\ n # 0
    BY <1>2, <2>2
  <2> HIDE DEF n
  <2>4. n \in {1, 2}
    BY <2>2, <2>3
  <2> QED
    BY <2>1, <2>2, <2>4, Zenon DEF Turn, n
<1>4. outer \in Seq(Nat) /\ Len(outer) = n - 1 /\ (n = 2 => outer[1] = todo[t][1])
  BY <1>2, <1>3
<1> HIDE DEF outer, n
<1>5. outer # <<>> <=> n = 2
  BY <1>3, <1>4
<1>6. /\ todo'[t] = outer /\ todo' \in [Writers -> Seq(Nat)]
      /\ \A u \in Writers \ {t} : todo'[u] = todo[u] /\ pc'[u] = pc[u]
      /\ pc' \in [Threads -> Labels] /\ (pc'[t] # "idle" => outer # <<>>)
  BY <1>1, <1>2, <1>4, Zenon DEF Threads, Labels
<1>7. /\ n = 2 => console_lock' = t /\ console_lock_depth' = 0
      /\ n = 1 => console_lock' = NULL /\ console_lock_depth' = 0
  BY <1>1, <1>3 DEF release_console
<1>8. Turn(t)'
  <2>1. Len(outer) <= 2 /\ Len(outer) # 2 /\ (n = 2 => 0 = Len(outer) - 1)
    BY <1>3, <1>4
  <2>2. (outer # <<>> <=> console_lock' = t) /\ (console_lock' = t => console_lock_depth' = Len(outer) - 1)
    BY <1>1, <1>3, <1>5, <1>7, <2>1, Zenon
  <2> QED
    BY <1>6, <2>1, <2>2, Zenon DEF Turn
<1>9. \A u \in Writers \ {t} : Turn(u)'
  BY <1>0, <1>1, <1>2, <1>3, <1>6, <1>7 DEF Turn
<1>10. LastOpen'
  <2> SUFFICES ASSUME Unsent # <<>>, ~Unsent[Len(Unsent)].last,
                      todo[Unsent[Len(Unsent)].by] # <<>>, todo[Unsent[Len(Unsent)].by][1] > 0
               PROVE  todo'[Unsent[Len(Unsent)].by] # <<>> /\ todo'[Unsent[Len(Unsent)].by][1] > 0
    BY <1>1, Zenon DEF LastOpen, TermInv, ConsoleInv
  <2> DEFINE u == Unsent[Len(Unsent)].by
  <2>1. u \in Writers
    <3>1. Unsent \in Seq(Bytes)
      BY UnsentType, Zenon DEF TermInv
    <3>2. Unsent[Len(Unsent)] \in Bytes
      BY <3>1, LastOfSeq, Zenon
    <3> QED
      BY <3>2, Zenon DEF Bytes
  <2>2. todo[u][1] > 0
    BY Zenon
  <2>3. todo[u] # <<>>
    BY Zenon
  <2> HIDE DEF u
  <2>4. CASE u = t
    <3>1. n = 2
      BY <1>1, <1>3, <2>2, <2>4 DEF Left, n
    <3> QED
      BY <1>3, <1>4, <1>5, <1>6, <2>4, <3>1, Zenon DEF u
  <2>5. CASE u # t
    BY <1>6, <2>1, <2>2, <2>3, <2>5, Zenon DEF u
  <2> QED
    BY <2>4, <2>5, Zenon
<1>11. /\ console_lock' \in Writers \cup {NULL} /\ console_lock_depth' \in Nat
       /\ console_lock' = NULL => console_lock_depth' = 0
  BY <1>3, <1>7
<1>12. panic' = NULL /\ MessagesNotMixed'
  BY <1>1, Zenon DEF TermInv, ConsoleInv, MessagesNotMixed
<1>13. \A u \in Writers : Turn(u)'
  BY <1>8, <1>9, Zenon
<1> QED
  BY <1>6, <1>10, <1>11, <1>12, <1>13, Zenon DEF ConsoleInv

\* A byte is put.
LEMMA PutsConsole ==
  ASSUME Constants, TermInv, NEW t \in Writers, Puts(t)
  PROVE  ConsoleInv'
<1> DEFINE n == Len(todo[t])
<1>1. /\ Left(t) > 0 /\ Printed(t) /\ Unsent' = Append(Unsent, Byte(t))
      /\ UNCHANGED <<console_lock, console_lock_depth, pc, panic>>
  BY Zenon DEF Puts, console
<1>2. /\ todo \in [Writers -> Seq(Nat)] /\ todo[t] \in Seq(Nat)
      /\ pc \in [Threads -> Labels] /\ panic \in Writers \cup {NULL} /\ t # NULL
  BY Zenon DEF TermInv, ConsoleInv, Constants, Threads
<1>3. n \in {1, 2} /\ (n = 2 => panic = NULL /\ todo[t][1] > 0) /\ (panic = NULL => console_lock = t)
  <2>1. CASE panic = t
    <3>1. n = 1
      BY <1>2, <2>1, Zenon DEF TermInv, ConsoleInv
    <3> QED
      BY <1>2, <2>1, <3>1
  <2>2. CASE At(t, "printing")
    <3>1. panic = NULL /\ pc[t] = "printing" /\ Turn(t)
      BY <2>2, Zenon DEF At, IntrOn, TermInv, ConsoleInv
    <3>2. todo[t] # <<>> /\ console_lock = t /\ n <= 2 /\ (n = 2 => todo[t][1] > 0)
      BY <3>1, Zenon DEF Turn
    <3>3. n \in Nat /\ n # 0
      BY <1>2, <3>2
    <3> HIDE DEF n
    <3>4. n \in {1, 2}
      BY <3>2, <3>3
    <3> QED
      BY <3>1, <3>2, <3>4, Zenon
  <2> QED
    BY <2>1, <2>2, Zenon DEF Puts
<1>4. /\ todo' = [todo EXCEPT ![t] = [todo[t] EXCEPT ![n] = todo[t][n] - 1]]
      /\ todo[t][n] > 0 /\ todo[t][n] \in Nat
  BY <1>1, <1>2, <1>3 DEF Printed, Left
<1>5. /\ todo' \in [Writers -> Seq(Nat)] /\ Len(todo'[t]) = n /\ todo'[t][n] = todo[t][n] - 1
      /\ n = 2 => todo'[t][1] = todo[t][1]
      /\ \A u \in Writers \ {t} : todo'[u] = todo[u]
  <2> DEFINE a == [todo[t] EXCEPT ![n] = todo[t][n] - 1]
  <2>1. n \in 1 .. n /\ (n = 2 => 1 \in 1 .. n /\ 1 # n)
    <3> HIDE DEF n
    <3> QED
      BY <1>3
  <2>2. a \in Seq(Nat) /\ Len(a) = n /\ a[n] = todo[t][n] - 1
    <3>1. todo[t][n] - 1 \in Nat
      BY <1>4
    <3> QED
      BY <1>2, <2>1, <3>1
  <2>3. n = 2 => a[1] = todo[t][1]
    BY <1>2, <2>1
  <2> HIDE DEF a
  <2>4. todo' = [todo EXCEPT ![t] = a]
    BY <1>4, Zenon DEF a
  <2> QED
    BY <1>2, <2>2, <2>3, <2>4, Zenon
<1>6. todo'[t] # <<>> /\ todo[t] # <<>>
  BY <1>2, <1>3, <1>5
<1>7. Byte(t).by = t /\ (Byte(t).last <=> todo[t] = <<1>>) /\ Byte(t) \in Bytes
  <2>1. todo[t] = <<1>> => n = 1
    OBVIOUS
  <2> QED
    BY <2>1, ByteIs, Zenon DEF Byte
<1>8. Unsent \in Seq(Bytes)
  BY UnsentType, Zenon DEF TermInv
<1>9. panic = NULL => \A u \in Writers : Turn(u)'
  <2>1. ASSUME panic = NULL, NEW u \in Writers \ {t} PROVE Turn(u)'
    <3>1. Turn(u)
      BY <2>1, Zenon DEF TermInv, ConsoleInv
    <3> QED
      BY <1>1, <1>5, <2>1, <3>1, ZenonT(40) DEF Turn, console
  <2>2. ASSUME panic = NULL PROVE Turn(t)'
    <3>1. Turn(t) /\ console_lock' = console_lock /\ console_lock_depth' = console_lock_depth /\ pc' = pc
      BY <1>1, <2>2, Zenon DEF TermInv, ConsoleInv, console
    <3>2. Len(todo'[t]) = Len(todo[t]) /\ (Len(todo[t]) = 2 => todo'[t][1] = todo[t][1])
      BY <1>5, Zenon
    <3> QED
      BY <1>6, <3>1, <3>2, ZenonT(40) DEF Turn
  <2> QED
    BY <2>1, <2>2, Zenon
<1> HIDE DEF n
<1>10. ASSUME panic = NULL PROVE MessagesNotMixed' /\ LastOpen'
  <2>1. Separated(Unsent)
    BY <1>10, Zenon DEF TermInv, ConsoleInv, MessagesNotMixed, Separated
  <2>2. Unsent # <<>> /\ Unsent[Len(Unsent)].by # t => Unsent[Len(Unsent)].last
    <3> SUFFICES ASSUME Unsent # <<>>, ~Unsent[Len(Unsent)].last PROVE Unsent[Len(Unsent)].by = t
      BY Zenon
    <3>1. todo[Unsent[Len(Unsent)].by] # <<>>
      BY <1>10, Zenon DEF TermInv, ConsoleInv, LastOpen
    <3>2. Unsent[Len(Unsent)].by \in Writers
      <4>1. Unsent[Len(Unsent)] \in Bytes
        BY <1>8, LastOfSeq, Zenon
      <4> QED
        BY <4>1, Zenon DEF Bytes
    <3> QED
      BY <1>3, <1>10, <3>1, <3>2, Zenon DEF TermInv, ConsoleInv, Turn
  <2>3. Separated(Unsent') /\ Unsent' # <<>> /\ Unsent'[Len(Unsent')] = Byte(t)
    BY <1>1, <1>7, <1>8, <2>1, <2>2, PutSeparated
  <2>4. ~Byte(t).last => todo'[t][1] > 0
    <3>1. CASE n = 2
      BY <1>3, <1>5, <3>1, Zenon
    <3>2. CASE n = 1
      <4>1. todo[t] # <<1>> => todo[t][1] # 1
        BY <1>2, <3>2 DEF n
      <4> QED
        BY <1>4, <1>5, <1>7, <3>2, <4>1
    <3> QED
      BY <1>3, <3>1, <3>2, Zenon
  <2> QED
    BY <1>6, <1>7, <2>3, <2>4, Zenon DEF MessagesNotMixed, LastOpen, Separated
<1>11. MessagesNotMixed' /\ LastOpen'
  BY <1>1, <1>10, Zenon DEF MessagesNotMixed, LastOpen
<1>12. panic # NULL => Len(todo'[panic]) = 1
  BY <1>2, <1>3, <1>5, Zenon DEF TermInv, ConsoleInv
<1> QED
  BY <1>1, <1>2, <1>5, <1>9, <1>11, <1>12, Zenon DEF TermInv, ConsoleInv

\* A thread panics: from now on it has one message in hand, and the console does not
\* matter any more.
LEMMA PanicConsole ==
  ASSUME Constants, TermInv, NEW t \in Writers, debug_panic(t)
  PROVE  ConsoleInv'
<1>1. /\ panic' = t /\ t # NULL /\ todo' = [todo EXCEPT ![t] = <<MsgLen>>]
      /\ UNCHANGED <<console_lock, console_lock_depth, pc>> /\ MsgLen \in Nat
  BY Zenon DEF debug_panic, console, Constants, Threads
<1>2. <<MsgLen>> \in Seq(Nat) /\ Len(<<MsgLen>>) = 1
  BY <1>1
<1>3. todo \in [Writers -> Seq(Nat)]
  BY Zenon DEF TermInv, ConsoleInv
<1>4. todo' \in [Writers -> Seq(Nat)] /\ todo'[t] = <<MsgLen>>
  BY <1>1, <1>2, <1>3, Zenon
<1>5. MessagesNotMixed' /\ LastOpen'
  BY <1>1, Zenon DEF MessagesNotMixed, LastOpen
<1> QED
  BY <1>1, <1>2, <1>4, <1>5, Zenon DEF TermInv, ConsoleInv

\* Initially the queues are empty and nobody prints.
LEMMA TermInit ==
  ASSUME Constants, Init
  PROVE  TermInv /\ Unsent = <<>> /\ Contents(buffer) = <<>>
<1>1. BUFSIZE \in Nat /\ BUFSIZE > 1
  BY Zenon DEF Constants
<1>2. \A S : intq_init \in QueueRecords(S)
  BY <1>1 DEF intq_init, QueueRecords, Slots
<1>3. Contents(intq_init) = <<>>
  <2>1. (0 - 0) % BUFSIZE = 0
    BY <1>1
  <2> QED
    BY <2>1 DEF Contents, intq_init
<1>4. \A S : intq_init \in QueueOf(S)
  BY <1>2, <1>3 DEF QueueOf
<1>5. Unsent = <<>>
  BY <1>3 DEF Init, Unsent
<1>6. PortInv
  BY <1>3, <1>4, Zenon DEF Init, PortInv, InterruptsMatchQueues
<1>7. todo = [t \in Writers |-> <<>>] /\ pc = [t \in Threads |-> "idle"] /\ console_lock = NULL
      /\ console_lock_depth = 0 /\ panic = NULL
  BY Zenon DEF Init
<1>8. \A t \in Writers : Turn(t)
  BY <1>7 DEF Turn, Constants, Threads
<1>9. MessagesNotMixed /\ LastOpen
  BY <1>5 DEF MessagesNotMixed, LastOpen
<1>10. ConsoleInv
  BY <1>7, <1>8, <1>9 DEF ConsoleInv, Labels
<1> QED
  BY <1>3, <1>5, <1>6, <1>10, Zenon DEF TermInv, Init

\* Every step keeps the invariant, and moves bytes in order.
LEMMA TermNext ==
  ASSUME Constants, TermInv, [Next]_vars
  PROVE  TermInv' /\ [Output!Next]_Unsent /\ [Input!Next]_(Contents(buffer))
<1>1. CASE Next
  <2>1. PortInv' /\ Flows /\ Typed
    BY <1>1, NextFlows, Zenon
  <2>2. ConsoleInv'
    BY <2>1, RestsConsole, BeginsConsole, EndsConsole, PanicConsole, PutsConsole, Zenon DEF Flows
  <2>3. [Output!Next]_Unsent
    <3>1. CASE \E t \in Writers : Puts(t)
      BY <3>1, ByteIs, Zenon DEF Puts, Output!Next, Output!Put
    <3>2. CASE Unsent' = Unsent \/ (Unsent # <<>> /\ Unsent' = Tail(Unsent))
      BY <3>2, Zenon DEF Output!Next, Output!Get
    <3> QED
      BY <2>1, <3>1, <3>2, Zenon DEF Flows
  <2>4. [Input!Next]_(Contents(buffer))
    BY <2>1, Zenon DEF Typed, Input!Next, Input!Put, Input!Get
  <2> QED
    BY <2>1, <2>2, <2>3, <2>4, Zenon DEF TermInv
<1>2. CASE UNCHANGED vars
  <2>1. UNCHANGED <<mode, txq, buffer, ier, thr, rbr, thri, console_lock, console_lock_depth,
                    todo, pc, asleep, panic, failed>>
    BY <1>2, Zenon DEF vars, uart, console
  <2>2. Unsent' = Unsent /\ Contents(buffer)' = Contents(buffer)
    BY <2>1, Zenon DEF Unsent
  <2>3. PortInv'
    BY <2>1, Zenon DEF TermInv, PortInv, InterruptsMatchQueues
  <2>4. ConsoleInv'
    BY <2>1, <2>2, Zenon DEF TermInv, ConsoleInv, LastOpen, MessagesNotMixed, Turn
  <2> QED
    BY <2>2, <2>3, <2>4, Zenon DEF TermInv
<1> QED
  BY <1>1, <1>2, Zenon

(* Messages of different threads do not mix on the serial line, and the    *)
(* interrupts of the UART are enabled exactly for what the queues of       *)
(* serial.c and input.c can give and take: for any size of the queues, any *)
(* threads and messages of any length.                                     *)
THEOREM QueuesServedHolds ==
  ASSUME Constants
  PROVE  Spec => []QueuesServed
<1>1. Init => TermInv
  BY TermInit, Zenon
<1>2. TermInv /\ [Next]_vars => TermInv'
  BY TermNext, Zenon
<1>3. TermInv => QueuesServed
  BY Zenon DEF TermInv, PortInv, ConsoleInv, QueuesServed
<1> QED
  BY <1>1, <1>2, <1>3, PTL DEF Spec

(* Serial line and input buffer implement a channel: no byte is lost,      *)
(* doubled or overtaken between serial_putc and the line, whether it goes  *)
(* by polling, by interrupt or past a full queue, nor a key between the    *)
(* interrupt handlers and input_getc.                                      *)
THEOREM BytesInOrderHolds ==
  ASSUME Constants
  PROVE  Spec => BytesInOrder
<1>1. Init => TermInv /\ Output!Init /\ Input!Init
  BY TermInit, Zenon DEF Output!Init, Input!Init
<1>2. TermInv /\ [Next]_vars => TermInv' /\ [Output!Next]_Unsent /\ [Input!Next]_(Contents(buffer))
  BY TermNext, Zenon
<1> QED
  BY <1>1, <1>2, PTL DEF Spec, BytesInOrder, Output!Spec, Input!Spec
=============================================================================

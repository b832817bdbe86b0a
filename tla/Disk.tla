-------------------------------- MODULE Disk --------------------------------
(***************************************************************************)
(* What a block device promises its callers (devices/block.c): requests of *)
(* several processes at once need no locking of their own, and a write has *)
(* been received by the device when block_write returns.  A device with    *)
(* faults may receive a write and not store it.                            *)
(***************************************************************************)
CONSTANTS Procs, Requests, Data, Faults, NULL

VARIABLES store,    \* the contents of every sector
          request,  \* the request a process is waiting for, or NULL
          written,  \* has the device the data of the process's write?
          result    \* what the last read of a process returned

vars == <<store, request, written, result>>

Init == /\ request = [p \in Procs |-> NULL]
        /\ written = [p \in Procs |-> FALSE]

Invoke(p) == /\ request[p] = NULL
             /\ \E r \in Requests : request' = [request EXCEPT ![p] = r]
             /\ UNCHANGED <<store, written, result>>

Store(p) == /\ request[p] # NULL /\ request[p].op = "write" /\ ~written[p]
            /\ store' = [store EXCEPT ![request[p].where] = request[p].data]
            /\ written' = [written EXCEPT ![p] = TRUE]
            /\ UNCHANGED <<request, result>>

\* The data is received, but the sector is left as it was or spoilt.
Lose(p) == /\ Faults /\ request[p] # NULL /\ request[p].op = "write" /\ ~written[p]
           /\ \E v \in Data : store' = [store EXCEPT ![request[p].where] = v]
           /\ written' = [written EXCEPT ![p] = TRUE]
           /\ UNCHANGED <<request, result>>

ReturnWrite(p) == /\ request[p] # NULL /\ request[p].op = "write" /\ written[p]
                  /\ request' = [request EXCEPT ![p] = NULL]
                  /\ written' = [written EXCEPT ![p] = FALSE]
                  /\ UNCHANGED <<store, result>>

ReturnRead(p) == /\ request[p] # NULL /\ request[p].op = "read"
                 /\ result' = [result EXCEPT ![p] = store[request[p].where]]
                 /\ request' = [request EXCEPT ![p] = NULL]
                 /\ UNCHANGED <<store, written>>

Next == \E p \in Procs : Invoke(p) \/ Store(p) \/ Lose(p) \/ ReturnWrite(p) \/ ReturnRead(p)

Spec == Init /\ [][Next]_vars
=============================================================================

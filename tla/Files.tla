-------------------------------- MODULE Files --------------------------------
(***************************************************************************)
(* What the inode layer promises to its user: a file is a string of bytes. *)
(* Creating it and writing past its end fill it with zeros, a write        *)
(* replaces bytes inside it, and nothing else changes any file.            *)
(***************************************************************************)
EXTENDS Integers

CONSTANTS Inodes, Zero, Data, NoFile

VARIABLE file        \* the bytes of each file, numbered from 0, or NoFile

Init == file = [i \in Inodes |-> NoFile]

Create(i) ==
  /\ file[i] = NoFile /\ file'[i] # NoFile
  /\ file' = [file EXCEPT ![i] = [k \in DOMAIN file'[i] |-> Zero]]

\* Bytes are only added, and are zero.
Grow(i) ==
  /\ file[i] # NoFile /\ file'[i] # NoFile
  /\ DOMAIN file[i] \subseteq DOMAIN file'[i]
  /\ file' = [file EXCEPT ![i] = [k \in DOMAIN file'[i] |-> IF k \in DOMAIN @ THEN @[k] ELSE Zero]]

Write(i) ==
  /\ file[i] # NoFile /\ file'[i] # NoFile
  /\ DOMAIN file'[i] = DOMAIN file[i]
  /\ \A k \in DOMAIN file[i] : file'[i][k] \in {file[i][k], Data}
  /\ file' = [file EXCEPT ![i] = [k \in DOMAIN @ |-> file'[i][k]]]

Remove(i) ==
  /\ file[i] # NoFile
  /\ file' = [file EXCEPT ![i] = NoFile]

Next == \E i \in Inodes : Create(i) \/ Grow(i) \/ Write(i) \/ Remove(i)

Spec == Init /\ [][Next]_file
=============================================================================

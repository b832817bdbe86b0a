------------------------------- MODULE Channel -------------------------------
(***************************************************************************)
(* What a byte stream promises: bytes come out in the order in which they  *)
(* went in, each once.                                                     *)
(***************************************************************************)
EXTENDS Sequences

CONSTANT Bytes

VARIABLE pending    \* bytes that went in and have not come out

Init == pending = <<>>

Put == \E b \in Bytes : pending' = Append(pending, b)
Get == pending # <<>> /\ pending' = Tail(pending)

Next == Put \/ Get

Spec == Init /\ [][Next]_pending
=============================================================================

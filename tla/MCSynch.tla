------------------------------ MODULE MCSynch ------------------------------
(* Instances of Synch for TLC: three threads whose priorities, and the words *)
(* of whose names, are ordered in opposite ways.                             *)
EXTENDS Synch, TLC

CONSTANTS low, mid, high, l1, e1

MCInitPriority == (low :> 1) @@ (mid :> 2) @@ (high :> 3)
MCEqualPriority == (low :> 1) @@ (mid :> 1) @@ (high :> 1)
MCNameWord == (low :> 3) @@ (mid :> 2) @@ (high :> 1)

BootAlone == <<>>

\* A holder of l1 waits for e1 while the highest thread waits for l1 or e1.
UsesBoth == (low :> {l1, e1}) @@ (mid :> {e1}) @@ (high :> {l1, e1})
\* Two threads contend for l1 and two for e1.
UsesFair == (low :> {l1}) @@ (mid :> {e1}) @@ (high :> {l1})
UsesLock == [t \in Threads |-> {l1}]
=============================================================================

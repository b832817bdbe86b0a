----------------------------- MODULE Dictionary -----------------------------
(***************************************************************************)
(* What a hash table promises (lib/kernel/hash.h): a set of elements with  *)
(* no two equal ones, where elements are equal when their keys are.        *)
(***************************************************************************)
CONSTANTS Elements, Key(_), NULL

VARIABLES contents,    \* the elements in the table
          result       \* what the last call returned

vars == <<contents, result>>

Equal(e) == {o \in contents : Key(o) = Key(e)}
Returns(S) == result' = IF S = {} THEN NULL ELSE CHOOSE o \in S : TRUE

Init == contents = {} /\ result = NULL

Insert(e) == /\ contents' = IF Equal(e) = {} THEN contents \cup {e} ELSE contents
             /\ Returns(Equal(e))

Replace(e) == /\ contents' = (contents \ Equal(e)) \cup {e}
              /\ Returns(Equal(e))

Find(e) == UNCHANGED contents /\ Returns(Equal(e))

Delete(e) == /\ contents' = contents \ Equal(e)
             /\ Returns(Equal(e))

Clear == contents' = {} /\ UNCHANGED result

Next == Clear \/ \E e \in Elements : Insert(e) \/ Replace(e) \/ Find(e) \/ Delete(e)

Spec == Init /\ [][Next]_vars
=============================================================================

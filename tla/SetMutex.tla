------------------------------ MODULE SetMutex -------------------------------
(***************************************************************************)
(* What backup, retention and catalog rebuild take a set lock to be: a     *)
(* mutex with at most one owner, which only the owner gives back, and      *)
(* which is broken only when its owner died without giving it back.        *)
(***************************************************************************)
CONSTANT Proc

VARIABLES taken,  \* the lock exists
          owner   \* {p} while p is alive and owns it, {} otherwise

Init == taken = FALSE /\ owner = {}

Take(p) == ~ taken /\ taken' = TRUE /\ owner' = {p}

Leave(p) == owner = {p} /\ taken' = FALSE /\ owner' = {}

\* The owner dies, or gives up half-way through taking the lock.
Die(p) == owner = {p} /\ owner' = {} /\ UNCHANGED taken

Break == taken /\ owner = {} /\ taken' = FALSE /\ UNCHANGED owner

Next == (\E p \in Proc : Take(p) \/ Leave(p) \/ Die(p)) \/ Break

Spec == Init /\ [][Next]_<<taken, owner>>
==============================================================================

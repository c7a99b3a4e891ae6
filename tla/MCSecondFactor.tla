--------------------------- MODULE MCSecondFactor ---------------------------
(***************************************************************************)
(* Checks second factors. Attempts and users are numbered in the order     *)
(* they come up: nothing tells them apart before, so this leaves out no    *)
(* behaviour (unlike SYMMETRY, also not for liveness). Two attempts are    *)
(* left free; a third one, which the budget of two has no room for, comes  *)
(* only if all are for one user, with one recovery code and no restart.    *)
(***************************************************************************)
EXTENDS SecondFactor

CONSTANT Spare   \* the recovery code a third attempt leaves alone

Begun == {a \in Attempt : pc[a] # "idle"}

InOrder == /\ \A a \in Begun, b \in Attempt : b < a => b \in Begun
           /\ 1 \in Begun => user[1] = 1

Bounded == Cardinality(Begun) > 2 => /\ epoch = 0
                                     /\ \A a \in Begun : user[a] = 1 /\ code[a] # Spare

BoundedSpec == /\ Init /\ [][Next /\ InOrder' /\ Bounded']_vars
               /\ \A a \in Attempt : WF_vars(Step(a))
=============================================================================

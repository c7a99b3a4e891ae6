--------------------------- MODULE MCLoginSession ---------------------------
EXTENDS LoginSession, TLC

CONSTANTS c1, c2, pk, tp, sk, no

\* One user of each sort.
SecondOf == [u \in {pk, tp, sk, no} |-> CASE u = pk -> "passkey"
                                          [] u \in {tp, sk} -> "totp"
                                          [] u = no -> "none"]
SecondOfUsers == [u \in User |-> SecondOf[u]]
SkippingUsers == User \cap {sk}

Symmetry == Permutations(Request) \cup Permutations(Client)
=============================================================================

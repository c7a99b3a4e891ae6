------------------------ MODULE MCWorkloadIdentity ------------------------
EXTENDS WorkloadIdentity, TLC
CONSTANTS e1, e2, i1, s1, a, b

Rule(id, enabled, admin, claims) ==
  [id |-> id, enabled |-> enabled, admin |-> admin, claims |-> claims]
Of(enabled, verify, rules) ==
  [enabled |-> enabled, verify |-> verify, rules |-> rules]

\* An admin rule; the same demoted and the issuer disabled; another rule in
\* its place, and other keys.
Bodies == {Of(TRUE, 0, <<Rule(a, TRUE, TRUE, Exchange)>>),
           Of(FALSE, 0, <<Rule(a, TRUE, FALSE, Exchange)>>),
           Of(TRUE, 1, <<Rule(b, TRUE, FALSE, Exchange)>>)}

\* The configuration can repeat an id.
StaticBodies == {Of(TRUE, 0, <<Rule(a, TRUE, TRUE, {e1})>>),
                 Of(TRUE, 0, <<Rule(a, TRUE, TRUE, {e1}), Rule(a, TRUE, FALSE, {e2})>>)}
===========================================================================

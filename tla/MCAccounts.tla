------------------------------ MODULE MCAccounts ------------------------------
EXTENDS Accounts, TLC

CONSTANTS none, q1, q2

MCIds == 1 .. 3

\* The directory knows "ann", whom an OIDC identity is named after as well; a
\* second identity wants the same username.
MCDirectory == "ann" :> {"staff"}
MCGroupRoleMap == "staff" :> "user"
MCIdentities ==
  [s1 |-> [name |-> "ann", email |-> None, groups |-> {"ops"}, verified |-> FALSE],
   s2 |-> [name |-> None, email |-> [user |-> "ann", domain |-> "corp"], groups |-> {},
           verified |-> TRUE]]
Symmetry == Permutations({q1, q2})
=============================================================================

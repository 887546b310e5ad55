---------------------------- MODULE MCMfaSystem ----------------------------
EXTENDS MfaSystem

\* Codes of different secrets, and of different times, may coincide.
MCTotpCode(s, time) == (s + time) % 3

Symmetry == {p @@ q : p \in Permutations(Threads), q \in Permutations(Tokens)}

\* Without authenticators codes are only compared.
SmsSymmetry == {p @@ q @@ r : p \in Permutations(Threads), q \in Permutations(Numbers),
                              r \in Permutations(Codes)}
=============================================================================

-------------------------- MODULE MCPasswordLogin --------------------------
EXTENDS PasswordLogin

CONSTANTS p1

\* An administrator has created the account with a first password, which must
\* be changed, and asked for the verification of its address.
FirstPassword ==
  [a \in Accounts |-> [currentPassword |-> p1, lastPasswords |-> <<p1>>,
                       changePassword |-> TRUE, status |-> {"waitingForEmailCheck"}]]
=============================================================================

------------------------------ MODULE MCAccounts ------------------------------
EXTENDS Accounts, TLC

CONSTANTS p1, p2, e1, e2

MCProcess == {p1, p2}
MCEmail == {e1, e2}
Symmetric == Permutations(MCProcess) \cup Permutations(MCEmail)
===============================================================================

------------------------------ MODULE MCRowLocks -------------------------------
(* Small instances of RowLocks: two transactions on two invitations, of one       *)
(* address or of two, and three on one invitation, as cycles of three have.       *)
EXTENDS RowLocks, TLC

CONSTANTS t1, t2, t3, k1, k2, k3, i1, i2, mail, post

TwoTxns == {t1, t2}
ThreeTxns == {t1, t2, t3}
TwoKeys == {k1, k2}
ThreeKeys == {k1, k2, k3}
OneInvitation == {i1}
TwoInvitations == {i1, i2}
OneAddress == {mail}
TwoAddresses == {mail, post}
MCSymmetry == Permutations(Txns) \cup Permutations(Keys) \cup Permutations(Invitations)
              \cup Permutations(Addresses)
================================================================================

------------------------------- MODULE MCBatches -------------------------------
(* Two worker calls under two keys on a notification, an add_member command and   *)
(* an invitation, one row to a batch.                                             *)
EXTENDS WorkerBatches, TLC

CONSTANTS w1, w2, k1, k2, notice, member, i1

TwoCalls == {w1, w2}
TwoKeys == {k1, k2}
NoticeAndMember == {notice, member}
OnlyMember == {member}
OneInvitation == {i1}
MCSymmetry == Permutations(Calls) \cup Permutations(Keys)
================================================================================

------------------------------- MODULE MCLink -------------------------------
(***************************************************************************)
(* A program with two links of any type, and two programs at their ends.   *)
(***************************************************************************)
EXTENDS Link, TLC

TwoLinks   == {1, 2}
AllTypes   == {UDP, TCP, 3}
OnePort    == {9596}
NoPorts    == {}
AllFailures == {"socket", "bind", "accept", "connect", "poll"}

\* The two peers can be exchanged: nothing in Link tells them apart.
EitherPeer == Permutations(Peer)

=============================================================================

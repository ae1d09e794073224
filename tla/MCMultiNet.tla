----------------------------- MODULE MCMultiNet -----------------------------
(* Instances of MultiNet for TLC: descriptors for sets of two networks.      *)
EXTENDS MultiNet, TLC

CONSTANTS f1, f2, f3    \* descriptors

ThreeFds   == {f1, f2, f3}
TwoFds     == {f1, f2}
AnyFd      == Permutations(ThreeFds)
AllClients == Command
=============================================================================

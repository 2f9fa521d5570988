---------------------------- MODULE MCBffSession ----------------------------
(* Instances of BffSession for TLC.                                        *)
EXTENDS BffSession, TLC

CONSTANTS i1, i2, s1, u1

\* Every id signs in under the one OP session and subject there are.
OneSid == [id \in Ids |-> s1]
OneSub == [id \in Ids |-> u1]

HandlerSymmetry == Permutations(Handlers)
=============================================================================

------------------------- MODULE MCSignatureServer -------------------------
(* A small instance of SignatureServer: three users, two of whom (or one   *)
(* with the whole weight) make a quorum, one who is no owner any more.     *)
EXTENDS SignatureServer

CONSTANTS u1, u2, u3

TwoOfThree == [weights |-> (u1 :> 1 @@ u2 :> 1 @@ u3 :> 1), threshold |-> 2]
OneOfTwo   == [weights |-> (u1 :> 2 @@ u2 :> 1), threshold |-> 2]
Revoked    == [weights |-> (u1 :> 0 @@ u2 :> 1), threshold |-> 1]
NoQuorum   == [weights |-> (u1 :> 1 @@ u2 :> 1), threshold |-> 0]

MCSnapshots == {TwoOfThree, OneOfTwo, Revoked, NoQuorum}
MajoritySnapshots == {TwoOfThree}
TwoUserSnapshots == {OneOfTwo, Revoked}
=============================================================================

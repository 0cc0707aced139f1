----------------------------- MODULE MCVerifyProof -----------------------------
(***************************************************************************)
(* VerifyProof for TLC: a 4-bit "i64", and --pcr options that are missing, *)
(* repeated, to spare or unreadable.                                       *)
(***************************************************************************)
EXTENDS VerifyProof

Pcr(i, value) == <<"pcr", i, value>>
MCDocumentPcrs == {[i \in 0 .. 2 |-> i + 1], [i \in 0 .. 2 |-> ZERO_PCR], [i \in 0 .. 1 |-> i + 1]}
MCPcrArgs ==
  {<<>>,
   <<Pcr(0, 1), Pcr(1, 2), Pcr(2, 3)>>,
   <<Pcr(2, 3), Pcr(0, 1)>>,
   <<Pcr(0, 1), Pcr(1, 2), Pcr(2, 3), Pcr(1, 9)>>,
   <<Pcr(1, 9), Pcr(0, 1), Pcr(1, 2), Pcr(2, 3), Pcr(8, 7)>>,
   <<Pcr(0, 1), Pcr(1, 2), Pcr(2, 3), <<"garbage">>>>,
   [i \in 1 .. 3 |-> Pcr(i - 1, ZERO_PCR)]}

\* The options are signed: the smallest i64 and -1 are skews too.
MCSkews == {I64_MIN, -1, 0, 1, 3}

MCNitroRoot == [key |-> "aws", issuer |-> "aws", alg |-> ECDSA_SHA384,
                not_before |-> 0, not_after |-> I64_MAX]
MCLeaf == [key |-> "leaf", issuer |-> "root", name |-> HOST,
           not_before |-> I64_MIN, not_after |-> I64_MAX - 1]
================================================================================

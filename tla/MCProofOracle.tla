----------------------------- MODULE MCProofOracle -----------------------------
(***************************************************************************)
(* ProofOracle for TLC: one bucket, two prices, one second past the first  *)
(* in which a statement can be dated a skew after the bucket's end.        *)
(***************************************************************************)
EXTENDS ProofOracle

MC_Candles == [time : Buckets, price : {1, 2}]
================================================================================

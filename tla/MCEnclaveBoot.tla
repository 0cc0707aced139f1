----------------------------- MODULE MCEnclaveBoot -----------------------------
(***************************************************************************)
(* EnclaveBoot for TLC: names of up to five characters around the limits.  *)
(***************************************************************************)
EXTENDS EnclaveBoot

\* Two valid names, the longer of maximal length and with a valid proper prefix,
\* and one name for each way of being refused.
MC_Names ==
  {<<"x", ".", "x">>, <<"x", ".", "x", "x">>,
   <<>>, <<"x", "x">>, <<"x", ".", "-", "x">>, <<"?", ".", "x">>,
   <<"x", ".", "x", ".">>, <<"x", "x", "x", ".">>, <<"x", ".", "x", "x", "x">>}
================================================================================

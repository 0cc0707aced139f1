----------------------------- MODULE MCProofSystem -----------------------------
(***************************************************************************)
(* Instances of ProofSystem for TLC: certificates, requests and the ways   *)
(* Coinbase may answer.                                                    *)
(***************************************************************************)
EXTENDS ProofSystem, TLC

\* Seconds until everything in the model has long expired.
Late == 20

MCNitroRoot == [key |-> "aws", issuer |-> "aws", alg |-> ECDSA_SHA384,
                not_before |-> 0, not_after |-> Late]
MCOtherRoot == [MCNitroRoot EXCEPT !.key = "other", !.issuer = "other"]

Intermediate == [key |-> "ca", issuer |-> "root", name |-> "CA",
                 not_before |-> 0, not_after |-> Late]
Leaf(from, until) == [key |-> "leaf", issuer |-> "ca", name |-> HOST,
                      not_before |-> from, not_after |-> until]

\* The server's certificate is renewed at 2; the old one ends with second 3.
MCTlsChains == {<<Leaf(0, 3), Intermediate>>, <<Leaf(2, Late), Intermediate>>}
OneTlsChain == {<<Leaf(0, 3), Intermediate>>}

MCReleasePcrs == <<1, 2>> @@ (0 :> 3)
MCOtherPcrs   == <<1, 7>> @@ (0 :> 3)

-----------------------------------------------------------------------------
Get(start, end) ==
  [method |-> "GET",
   target |-> [path |-> <<"product", PRODUCT_ID>>,
               query |-> << <<"pair", "start", <<"int", start>>>>,
                            <<"pair", "end", <<"int", end>>>>,
                            <<"pair", "granularity", GRANULARITY_LABEL>>,
                            <<"pair", "limit", <<"int", 1>>>> >>]]

GoodRequests == {Get(b, b) : b \in Buckets}
BadRequests ==
  {[Get(0, 0) EXCEPT !.method = "POST"],
   [Get(0, 0) EXCEPT !.target.path = <<"other">>],
   Get(1, 1), Get(0, GRANULARITY_SECONDS)}
AllRequests == GoodRequests \cup BadRequests

\* --once with nothing, with one of two, with a good and with two bad ranges.
NoArgs == [start |-> <<>>, end |-> <<>>]
DefaultArgs == {NoArgs}
AllOnceArgs ==
  {NoArgs, [NoArgs EXCEPT !.start = <<0>>]} \cup
  {[start |-> <<x[1]>>, end |-> <<x[2]>>] :
     x \in {<<0, 0>>, <<1, 1>>, <<-GRANULARITY_SECONDS, -GRANULARITY_SECONDS>>}}

-----------------------------------------------------------------------------
GoodHead == [framing |-> "ok", status |-> 200,
             content_type |-> "application/json", date |-> "imf"]
GoodHeads == {GoodHead}

\* One fault at a time, in the order prover.rs meets them.
AllHeads ==
  {GoodHead,
   [GoodHead EXCEPT !.framing = "bad"],
   [GoodHead EXCEPT !.framing = "oversize"],
   [GoodHead EXCEPT !.status = 500],
   [GoodHead EXCEPT !.content_type = "absent"],
   [GoodHead EXCEPT !.content_type = "text/html"],
   [GoodHead EXCEPT !.date = "absent"],
   [GoodHead EXCEPT !.date = "text"]}

Full == CandleRow(0, 1)[2]
AllMalformedRows ==
  {<<"scalar">>,
   <<"object", [f \in {"start", "low"} |-> Full[f]]>>,
   <<"object", [Full EXCEPT !["start"] = <<"text">>]>>,
   <<"object", [Full EXCEPT !["volume"] = <<"string", -1>>]>>,
   <<"object", [Full EXCEPT !["close"] = <<"string", 0>>]>>}
\* Connections are interchangeable in the safety properties.
ConnSymmetry == Permutations(Conns)

AllOtherBodies == {<<"text">>, to_json(<<"other">>)}
================================================================================

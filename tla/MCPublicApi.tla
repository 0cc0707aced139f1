------------------------------ MODULE MCPublicApi ------------------------------
(***************************************************************************)
(* A client spells out a request target piece by piece; in every state the *)
(* service's answer to what is spelled so far is compared with the         *)
(* documented form of a request.                                           *)
(***************************************************************************)
EXTENDS PublicApi

CONSTANTS
  Methods,
  Paths,
  Pieces,     \* what may stand between two '&'
  MaxPieces

\* Paths, pieces and values are as PublicApi describes them; a text that
\* parse::<i64> reads is an i64.
ASSUME TargetAssumption ==
  /\ \A p \in Paths : p = <<"other">> \/ p = <<"product", p[2]>>
  /\ \A piece \in Pieces :
       \/ piece[1] # "pair"
       \/ /\ piece = <<"pair", piece[2], piece[3]>>
          /\ piece[3] = <<piece[3][1], piece[3][2]>>
          /\ piece[3][1] \in {"int", "int_alias"} => piece[3][2] \in I64

VARIABLES method, path, query

vars == <<method, path, query>>

Init == method \in Methods /\ path \in Paths /\ query = <<>>

Append1(piece) ==
  /\ Len(query) < MaxPieces
  /\ query' = Append(query, piece)
  /\ UNCHANGED <<method, path>>

Next == \E piece \in Pieces : Append1(piece)

Spec == Init /\ [][Next]_vars

-----------------------------------------------------------------------------
Answer == parse_public_proof_request(method, [path |-> path, query |-> query])

Reads(value, n) == value \in {<<"int", n>>, <<"int_alias", n>>}

\* README.md, Proof API: the four parameters, once each and in any order, and
\* nothing else; start and end read as the same aligned candle start.
Documented(start) ==
  /\ method = "GET"
  /\ path = <<"product", PRODUCT_ID>>
  /\ Len(query) = 4
  /\ start >= 0 /\ \E k \in 0 .. start : start = k * GRANULARITY_SECONDS
  /\ \E v, w \in {query[i][3] : i \in {j \in 1 .. 4 : query[j][1] = "pair"}} :
       /\ Reads(v, start) /\ Reads(w, start)
       /\ {query[i] : i \in 1 .. 4} =
            {<<"pair", "start", v>>, <<"pair", "end", w>>,
             <<"pair", "granularity", GRANULARITY_LABEL>>,
             <<"pair", "limit", <<"int", 1>>>>}

\* A request is taken exactly when it has the documented form, and then for
\* the candle it names; a query that is still incomplete, repeated, unknown or
\* unparsable is a refusal (parse_public_proof_request).
TakesExactlyTheDocumented ==
  /\ Answer.ok => /\ Documented(Answer.val.start)
                  /\ Answer.val.end = Answer.val.start
  /\ (\E start \in 0 .. I64_MAX : Documented(start)) => Answer.ok

-----------------------------------------------------------------------------
MCPaths == {<<"product", PRODUCT_ID>>, <<"product", "ETH-USD">>, <<"other">>}
MCPieces ==
  {<<"no_equals">>, <<"bad_encoding">>,
   <<"pair", "granularity", GRANULARITY_LABEL>>,
   <<"pair", "granularity", <<"text", "ONE_MINUTE">>>>,
   <<"pair", "limit", <<"int", 1>>>>,
   <<"pair", "limit", <<"int_alias", 1>>>>,
   <<"pair", "callback", <<"text", "x">>>>,
   <<"pair", "start", <<"int", 2>>>>,
   <<"pair", "start", <<"int", -2>>>>,
   <<"pair", "start", <<"int_alias", 2>>>>,
   <<"pair", "start", <<"int", 3>>>>,
   <<"pair", "end", <<"int", 2>>>>,
   <<"pair", "end", <<"int", -2>>>>,
   <<"pair", "end", <<"int", 3>>>>,
   <<"pair", "end", <<"int", 4>>>>,
   <<"pair", "end", <<"text", "x">>>>}
================================================================================

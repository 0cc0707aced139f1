------------------------------- MODULE PublicApi -------------------------------
(***************************************************************************)
(* The public proof API of src/src/bin/enclave-prover.rs: from the request *)
(* line to a ProofRequest or to the status of a refusal.                   *)
(*                                                                         *)
(* A target is split at the first '?' into a path and a query.  The path   *)
(* is <<"product", id>> when it has the route's prefix and suffix and      *)
(* <<"other">> when it has not.  The query is the sequence of its '&'      *)
(* pieces: <<"pair", key, value>> once percent-decoded, <<"no_equals">>,   *)
(* or <<"bad_encoding">>.  A value is <<"int", n>> for the decimal text of *)
(* n, <<"int_alias", n>> for another text that parse::<i64> reads as n     *)
(* ("+7", "007"), and <<"text", s>> for the rest.                          *)
(***************************************************************************)
EXTENDS ProofFormat

PRODUCT_ID == "BTC-USD"
GRANULARITY_LABEL == <<"text", "FIVE_MINUTE">>
Parameters == {"start", "end", "granularity", "limit"}

\* Mutant: the last of several equal keys wins.
parse_query_LastWins(query) ==
  LET is_pair(i) == query[i][1] = "pair"
      key(i) == query[i][2]
      last(k) == CHOOSE i \in 1 .. Len(query) :
                   /\ key(i) = k
                   /\ \A j \in i + 1 .. Len(query) : key(j) # k
  IN IF \A i \in 1 .. Len(query) : is_pair(i)
     THEN Ok([k \in {key(i) : i \in 1 .. Len(query)} |-> query[last(k)][3]])
     ELSE Err(400)

\* A query is read from left to right; every error is a 400.
parse_query(query) ==
  LET is_pair(i) == query[i][1] = "pair"
      key(i) == query[i][2]
  IN IF /\ \A i \in 1 .. Len(query) : is_pair(i)
        /\ \A i, j \in 1 .. Len(query) : key(i) = key(j) => i = j
     THEN Ok([k \in {key(i) : i \in 1 .. Len(query)} |->
                query[CHOOSE i \in 1 .. Len(query) : key(i) = k][3]])
     ELSE Err(400)

required_i64(params, name) ==
  IF name \in DOMAIN params /\ params[name][1] \in {"int", "int_alias"}
  THEN Ok(params[name][2])
  ELSE Err(400)

parse_public_proof_request(method, target) ==
  IF method # "GET" THEN Err(405)
  ELSE IF target.path[1] # "product" THEN Err(404)
  ELSE IF target.path[2] # PRODUCT_ID THEN Err(400)
  ELSE
    LET params == parse_query(target.query)
        start == required_i64(params.val, "start")
        end == required_i64(params.val, "end")
    IN IF /\ params.ok
          /\ DOMAIN params.val \subseteq Parameters
          /\ start.ok
          /\ end.ok
          /\ "granularity" \in DOMAIN params.val
          /\ params.val["granularity"] = GRANULARITY_LABEL
          /\ "limit" \in DOMAIN params.val
          /\ params.val["limit"] = <<"int", 1>>
          /\ validate_request(start.val, end.val)
       THEN Ok([start |-> start.val, end |-> end.val])
       ELSE Err(400)
================================================================================

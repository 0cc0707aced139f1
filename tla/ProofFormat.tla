------------------------------ MODULE ProofFormat ------------------------------
(***************************************************************************)
(* The vocabulary shared by the prover and the verifier: the crate's       *)
(* constants (src/src/lib.rs), the records of src/src/proof.rs, the        *)
(* conversions of src/src/crypto.rs, and the request checks that both      *)
(* sides repeat (src/src/prover.rs, src/src/http.rs).                      *)
(*                                                                         *)
(* Bytes are symbolic.  A conversion wraps its argument in a tagged tuple, *)
(* so that decoding is defined only on what was encoded, and digests are   *)
(* collision free.                                                         *)
(***************************************************************************)
EXTENDS Integers, Sequences

CONSTANTS
  GRANULARITY_SECONDS,  \* 300 in the code; small in the models
  I64_MAX               \* the largest i64; small in the models

ASSUME FormatAssumption ==
  /\ GRANULARITY_SECONDS \in Nat \ {0}
  /\ I64_MAX \in Nat \ {0}

I64_MIN == -I64_MAX - 1
I64 == I64_MIN .. I64_MAX

\* What a release build leaves in an i64 after one addition, subtraction or
\* negation whose exact result is n: two's complement, one wrap at most.
wrapping(n) ==
  IF n > I64_MAX THEN n - 2 * (I64_MAX + 1)
  ELSE IF n < I64_MIN THEN n + 2 * (I64_MAX + 1)
  ELSE n

wrapping_abs(n) == IF n < 0 THEN wrapping(-n) ELSE n

-----------------------------------------------------------------------------
Ok(v)  == [ok |-> TRUE, val |-> v]
Err(e) == [ok |-> FALSE, err |-> e]

b64_encode(bytes) == <<"b64", bytes>>
is_b64(text)      == text[1] = "b64"
b64_decode(text)  == text[2]

\* serde_json::to_vec and from_slice.
to_json(value)  == <<"json", value>>
is_json(bytes)  == bytes[1] = "json"
from_json(bytes) == bytes[2]

sha256_hex(bytes) == <<"sha256", bytes>>
sha384(bytes)     == <<"sha384", bytes>>

NONCE_BYTES == 32       \* the length of random_nonce()

-----------------------------------------------------------------------------
BUNDLE_SCHEMA == "coinbase-candle-proof-bundle/v1"
HOST == "api.coinbase.com"

\* The payload fields the prover fills with crate constants and the verifier
\* compares with the same constants (schema, proof_policy, source, host,
\* product_id, granularity, granularity_seconds, request_path) travel as one.
LABELS == "coinbase-candle-proof-payload/v1"

ProofBundle(payload_bytes, document) ==
  [schema |-> BUNDLE_SCHEMA,
   payload_json_b64 |-> b64_encode(payload_bytes),
   attestation_doc_b64 |-> b64_encode(document)]

-----------------------------------------------------------------------------
\* prover.rs and http.rs make the same five checks on a range.
validate_request(start, end) ==
  /\ start >= 0
  /\ end >= 0
  /\ start <= end
  /\ start = end
  /\ start % GRANULARITY_SECONDS = 0

\* The query text is determined by its two numbers.
coinbase_candle_query(start, end) ==
  IF validate_request(start, end)
  THEN Ok(<<"query", start, end>>)
  ELSE Err("bad_range")

\* "application/json", whatever its case and parameters.
is_json_content_type(content_type) ==
  content_type \in {"application/json", "application/json; charset=utf-8"}

\* timeutil.rs: an HTTP date is <<"imf", epoch>>; any other text fails to parse.
is_http_date(value) == value[1] = "imf" /\ value[2] >= 0
parse_http_date_epoch(value) == value[2]
================================================================================

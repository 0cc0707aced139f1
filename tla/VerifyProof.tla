------------------------------ MODULE VerifyProof ------------------------------
(***************************************************************************)
(* One run of the verify-proof command (src/src/bin/verify-proof.rs) on a  *)
(* bundle whose contents are in order, so that its PCRs, its times and the *)
(* command line decide: the attestation's time, Coinbase's Date and the    *)
(* verifier's own clock, over the whole range of an i64 on the             *)
(* attestation's side (the mock format states its time as any i64).        *)
(***************************************************************************)
EXTENDS Verify

CONSTANTS
  PcrArgs,      \* the --pcr options of a run, each <<"pcr", index, value>> or
                \* <<"garbage">>: no "=", no u16 before it, no 48 bytes after it
  Files,        \* what the artifact may be: "bundle", "text" or "absent"
  DocumentPcrs, \* PCRs the document may state
  Skews,        \* --max-skew-seconds and --max-future-skew-seconds
  Leaf,         \* Coinbase's certificate
  Times         \* non-negative times of the clock and of Date

\* Skews and clocks are i64; the options are as stated above; and the certificate
\* is one that Coinbase was issued.
ASSUME VerifyProofAssumption ==
  /\ Skews \subseteq I64
  /\ Times \subseteq 0 .. I64_MAX
  /\ \A list \in PcrArgs :
       /\ Len(list) \in Nat
       /\ \A k \in 1 .. Len(list) :
            list[k] = <<"garbage">> \/ list[k] = <<"pcr", list[k][2], list[k][3]>>
  /\ Leaf.name = HOST /\ Leaf.issuer \in WEBPKI_ROOTS

VARIABLES
  timestamp,    \* the document's timestamp_unix
  date,         \* the payload's http_date, in seconds
  pcrs,         \* the document's PCRs
  now,          \* now_utc()
  args,         \* the command line
  verdict       \* "none" before the run, then "OK" or "error"

vars == <<timestamp, date, pcrs, now, args, verdict>>

Body == to_json(<<"candles", << <<"object",
          [start  |-> <<"string", 0>>, low   |-> <<"string", 1>>,
           high   |-> <<"string", 1>>, open  |-> <<"string", 1>>,
           close  |-> <<"string", 1>>, volume |-> <<"string", 1>>]>> >> >>)

Payload ==
  [labels |-> LABELS, request_start |-> 0, request_end |-> 0,
   request_query |-> coinbase_candle_query(0, 0).val,
   http_status |-> 200, http_date |-> <<"imf", date>>,
   content_type |-> "application/json",
   body_sha256 |-> sha256_hex(Body), body_b64 |-> b64_encode(Body),
   selected_candle |-> select_candle(from_json(Body)).val,
   tls |-> [sni |-> HOST, cert_chain_der_b64 |-> <<b64_encode(Leaf)>>]]

Artifact ==
  ProofBundle(to_json(Payload),
              <<"mock", [timestamp_unix |-> timestamp, pcrs |-> pcrs,
                         user_data |-> sha384(to_json(Payload)),
                         nonce |-> NONCE_BYTES]>>)

parse_pcr(arg) == arg[1] = "pcr"

\* collect() into a BTreeMap: the last of equal indices stays.
LastPcr(list, i) ==
  LET at == {k \in 1 .. Len(list) : list[k][2] = i}
  IN list[CHOOSE k \in at : \A l \in at : l <= k][3]
collect(list) == [i \in {list[k][2] : k \in 1 .. Len(list)} |-> LastPcr(list, i)]

Config ==
  [expected_pcrs |-> collect(args.pcrs),
   max_skew_seconds |-> args.max_skew_seconds,
   max_future_skew_seconds |-> args.max_future_skew_seconds]

Init ==
  /\ timestamp \in I64
  /\ date \in Times
  /\ now \in Times
  /\ pcrs \in DocumentPcrs
  /\ args \in [pcrs : PcrArgs, file : Files, max_skew_seconds : Skews,
               max_future_skew_seconds : Skews]
  /\ verdict = "none"

\* clap refuses a --pcr it cannot parse; then the file is read, and parsed by
\* verify_bundle_json.
Verifies ==
  /\ \A k \in 1 .. Len(args.pcrs) : parse_pcr(args.pcrs[k])
  /\ args.file = "bundle"
  /\ verify_bundle(Artifact, "mock", Config, now)

Main ==
  /\ verdict = "none"
  /\ verdict' = IF Verifies THEN "OK" ELSE "error"
  /\ UNCHANGED <<timestamp, date, pcrs, now, args>>

Spec == Init /\ [][Main]_vars

-----------------------------------------------------------------------------
\* The differences the code takes wrap around in an i64, and abs() of the
\* smallest i64 is negative.  All the same no such run is accepted: what is
\* accepted meets both limits in exact arithmetic (verify_time_policy,
\* verify_attestation_time_bounds), because verify_tls_certificate_chain has
\* refused negative timestamps in between.
TimesMeetLimits ==
  verdict = "OK" =>
    /\ timestamp >= 0
    /\ timestamp <= now + args.max_future_skew_seconds
    /\ timestamp - date <= args.max_skew_seconds
    /\ date - timestamp <= args.max_skew_seconds

\* The document's PCR i is the one the operator gave last.
Pinned(i) ==
  \E k \in 1 .. Len(args.pcrs) :
    /\ i \in DOMAIN pcrs
    /\ args.pcrs[k] = <<"pcr", i, pcrs[i]>>
    /\ \A l \in k + 1 .. Len(args.pcrs) : args.pcrs[l][1] = "pcr" => args.pcrs[l][2] # i

\* "Pass PCR0, PCR1, and PCR2" (verify-proof.rs, --pcr): whatever options are
\* missing, repeated or to spare, OK is said only of a document whose three
\* PCRs the operator has named.
ImageIsPinned == verdict = "OK" => \A i \in 0 .. 2 : Pinned(i)

\* And no proof within the limits, of an image that is pinned, is refused.
LimitsSuffice ==
  /\ verdict # "none"
  /\ args.file = "bundle"
  /\ \A k \in 1 .. Len(args.pcrs) : args.pcrs[k] # <<"garbage">>
  /\ \A i \in 0 .. 2 : Pinned(i) /\ pcrs[i] # ZERO_PCR
  /\ timestamp >= 0
  /\ validate_at(Leaf, timestamp)
  /\ timestamp - now <= args.max_future_skew_seconds
  /\ timestamp - date \in -args.max_skew_seconds .. args.max_skew_seconds
  => verdict = "OK"
================================================================================

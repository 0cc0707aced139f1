--------------------------- MODULE VerifyProofProofs ---------------------------
(***************************************************************************)
(* What verify-proof accepts and refuses, for every width of the integers, *)
(* every skew, every certificate and every list of --pcr options.          *)
(***************************************************************************)
EXTENDS VerifyProof, WellFoundedInduction, TLAPS

\* The inputs of a run.
Inputs ==
  /\ timestamp \in I64
  /\ date \in 0 .. I64_MAX
  /\ now \in 0 .. I64_MAX
  /\ args.pcrs \in PcrArgs
  /\ args.max_skew_seconds \in I64
  /\ args.max_future_skew_seconds \in I64

\* The verdict, once there is one, is that of verify_bundle on these inputs.
Judged ==
  /\ Inputs
  /\ verdict = "OK" => Verifies
  /\ verdict # "none" /\ Verifies => verdict = "OK"

\* A run reads its inputs and changes none of them.
LEMMA NextJudged == Judged /\ [Main]_vars => Judged'
<1> SUFFICES ASSUME Judged, [Main]_vars PROVE Judged'
  OBVIOUS
<1>1. UNCHANGED <<timestamp, date, pcrs, now, args>>
  BY DEF Main, vars
<1>2. Inputs'
  BY <1>1 DEF Judged, Inputs
<1>3. Verifies' <=> Verifies
  BY <1>1 DEF Verifies, Artifact, Payload, Config
<1>4. verdict' = verdict \/ (verdict' = IF Verifies THEN "OK" ELSE "error")
  BY DEF Main, vars
<1> QED
  BY <1>2, <1>3, <1>4 DEF Judged

\* A run begins with inputs of these types and no verdict.
LEMMA InitJudged == Init => Judged
<1> SUFFICES ASSUME Init PROVE Judged
  OBVIOUS
<1>1. /\ timestamp \in I64 /\ date \in Times /\ now \in Times
      /\ args.pcrs \in PcrArgs
      /\ args.max_skew_seconds \in Skews /\ args.max_future_skew_seconds \in Skews
      /\ verdict = "none"
  BY DEF Init
<1>2. Skews \subseteq I64 /\ Times \subseteq 0 .. I64_MAX
  BY VerifyProofAssumption, Zenon
<1> QED
  BY <1>1, <1>2 DEF Judged, Inputs

\* The verdict is always that of verify_bundle.
LEMMA JudgedHolds == Spec => []Judged
BY InitJudged, NextJudged, PTL DEF Spec

\* The difference of two times that are not negative fits an i64, and so does
\* its absolute value.
LEMMA NoWrap ==
  ASSUME NEW t \in 0 .. I64_MAX, NEW u \in 0 .. I64_MAX
  PROVE  /\ wrapping(t - u) = t - u
         /\ wrapping_abs(wrapping(t - u)) = IF t < u THEN u - t ELSE t - u
BY FormatAssumption DEF wrapping, wrapping_abs, I64_MIN

\* The time checks verify_bundle makes, read off from its acceptance.
LEMMA AcceptedTimes ==
  ASSUME Inputs, verify_bundle(Artifact, "mock", Config, now)
  PROVE  /\ timestamp >= 0
         /\ wrapping(timestamp - now) <= args.max_future_skew_seconds
         /\ wrapping_abs(wrapping(timestamp - date)) <= args.max_skew_seconds
<1> DEFINE doc == <<"mock", [timestamp_unix |-> timestamp, pcrs |-> pcrs,
                             user_data |-> sha384(to_json(Payload)),
                             nonce |-> NONCE_BYTES]>>
           att == VerifiedAttestation("mock", doc)
<1>1. /\ b64_decode(Artifact.payload_json_b64) = to_json(Payload)
      /\ b64_decode(Artifact.attestation_doc_b64) = doc
  BY DEF Artifact, ProofBundle, b64_encode, b64_decode
<1>2. from_json(to_json(Payload)) = Payload
  BY DEF from_json, to_json
<1>3. att.timestamp_unix = timestamp
  BY DEF VerifiedAttestation
<1>4. Payload.http_date = <<"imf", date>>
  BY DEF Payload
<1> HIDE DEF doc
<1>5. /\ verify_attestation_time_bounds(att, Config, now)
      /\ verify_tls_certificate_chain(Payload.tls, att.timestamp_unix, HOST)
      /\ verify_time_policy(Payload, att, Config)
  BY <1>1, <1>2 DEF verify_bundle
<1> QED
  BY <1>3, <1>4, <1>5
  DEF Config, verify_attestation_time_bounds, verify_tls_certificate_chain,
      verify_time_policy, parse_http_date_epoch

\* An accepted proof meets both skew limits in exact arithmetic, although the
\* code computes them with i64 subtractions and abs() on a timestamp that may
\* be any i64.
THEOREM LimitsAreExact == Spec => []TimesMeetLimits
<1>1. Judged => TimesMeetLimits
  <2> SUFFICES ASSUME Judged, verdict = "OK" PROVE TimesMeetLimits
    BY DEF TimesMeetLimits
  <2>0. Inputs
    BY DEF Judged
  <2>1. /\ timestamp >= 0
        /\ wrapping(timestamp - now) <= args.max_future_skew_seconds
        /\ wrapping_abs(wrapping(timestamp - date)) <= args.max_skew_seconds
    BY <2>0, AcceptedTimes DEF Judged, Verifies
  <2>2. timestamp \in 0 .. I64_MAX
    BY <2>0, <2>1, FormatAssumption DEF Inputs, I64, I64_MIN
  <2>3. /\ wrapping(timestamp - now) = timestamp - now
        /\ wrapping_abs(wrapping(timestamp - date))
             = IF timestamp < date THEN date - timestamp ELSE timestamp - date
    BY <2>0, <2>2, NoWrap DEF Inputs
  <2> QED
    BY <2>0, <2>1, <2>2, <2>3, FormatAssumption DEF Inputs, TimesMeetLimits, I64, I64_MIN
<1> QED
  BY <1>1, JudgedHolds, PTL

-----------------------------------------------------------------------------
\* A non-empty set of positions of a list has a last one.
LEMMA LastExists ==
  ASSUME NEW n \in Nat, NEW at, at \subseteq 1 .. n, at # {}
  PROVE  \E k \in at : \A l \in at : l <= k
<1> DEFINE T == {n - k : k \in at}
<1>1. T \subseteq Nat /\ T # {}
  <2>1. \A k \in at : n - k \in Nat
    OBVIOUS
  <2> QED
    BY <2>1, Zenon
<1>2. \A x, y \in Nat : y < x => <<y, x>> \in OpToRel(<, Nat)
  BY DEF OpToRel
<1>3. PICK x \in T : \A y \in T : <<y, x>> \notin OpToRel(<, Nat)
  BY <1>1, NatLessThanWellFounded, WFMin, Zenon
<1>4. \A y \in T : ~(y < x)
  BY <1>1, <1>2, <1>3
<1>5. PICK k \in at : x = n - k
  BY <1>3
<1>6. \A l \in at : ~(n - l < n - k)
  BY <1>4, <1>5
<1>7. \A l \in at : l \in 1 .. n
  OBVIOUS
<1>8. \A l \in at : l <= k
  BY <1>6, <1>7
<1> QED
  BY <1>8, Zenon

\* collect() keeps the value of the last option for an index.
LEMMA LastCounts ==
  ASSUME NEW list, Len(list) \in Nat,
         NEW i, NEW k \in 1 .. Len(list), list[k][2] = i
  PROVE  \E m \in 1 .. Len(list) :
           /\ list[m][2] = i
           /\ \A l \in 1 .. Len(list) : list[l][2] = i => l <= m
           /\ LastPcr(list, i) = list[m][3]
<1> DEFINE at == {l \in 1 .. Len(list) : list[l][2] = i}
           last == CHOOSE m \in at : \A l \in at : l <= m
<1>1. at \subseteq 1 .. Len(list) /\ at # {}
  OBVIOUS
<1> HIDE DEF at
<1>2. \E m \in at : \A l \in at : l <= m
  BY <1>1, LastExists
<1>3. last \in at /\ \A l \in at : l <= last
  BY <1>2
<1>4. LastPcr(list, i) = list[last][3]
  BY DEF LastPcr, at
<1> HIDE DEF last
<1> QED
  BY <1>3, <1>4 DEF at

\* What the assumption says of one command line's options.
LEMMA Options ==
  ASSUME Inputs
  PROVE  /\ Len(args.pcrs) \in Nat
         /\ \A k \in 1 .. Len(args.pcrs) :
              \/ args.pcrs[k] = <<"garbage">>
              \/ args.pcrs[k] = <<"pcr", args.pcrs[k][2], args.pcrs[k][3]>>
BY VerifyProofAssumption, Zenon DEF Inputs

\* verify-proof says OK only of a document whose PCR0, PCR1 and PCR2 are the
\* values that the operator gave last for them, whatever the other options are.
THEOREM ImagesArePinned == Spec => []ImageIsPinned
<1>1. Judged => ImageIsPinned
  <2> SUFFICES ASSUME Judged, verdict = "OK", NEW i \in 0 .. 2 PROVE Pinned(i)
    BY DEF ImageIsPinned
  <2>0. PICK list : list = args.pcrs
    OBVIOUS
  <2>1. /\ Verifies
        /\ Len(list) \in Nat
        /\ \A k \in 1 .. Len(list) :
             \/ list[k] = <<"garbage">>
             \/ list[k] = <<"pcr", list[k][2], list[k][3]>>
    BY <2>0, Options DEF Judged
  <2>2. \A k \in 1 .. Len(list) : list[k] = <<"pcr", list[k][2], list[k][3]>>
    BY <2>0, <2>1 DEF Verifies, parse_pcr
  <2>3. /\ i \in DOMAIN collect(list)
        /\ i \in DOMAIN pcrs
        /\ pcrs[i] = collect(list)[i]
    <3> DEFINE doc == <<"mock", [timestamp_unix |-> timestamp, pcrs |-> pcrs,
                                 user_data |-> sha384(to_json(Payload)),
                                 nonce |-> NONCE_BYTES]>>
               att == VerifiedAttestation("mock", doc)
    <3>1. /\ b64_decode(Artifact.payload_json_b64) = to_json(Payload)
          /\ b64_decode(Artifact.attestation_doc_b64) = doc
      BY DEF Artifact, ProofBundle, b64_encode, b64_decode
    <3>2. att.pcrs = pcrs
      BY DEF VerifiedAttestation
    <3>3. Config.expected_pcrs = collect(list)
      BY <2>0 DEF Config
    <3> HIDE DEF doc
    <3>4. verify_attestation_binding(to_json(Payload), att, Config)
      BY <2>1, <3>1 DEF Verifies, verify_bundle
    <3>5. i \in required_pcrs
      BY DEF required_pcrs
    <3> HIDE DEF att
    <3> QED
      BY <3>2, <3>3, <3>4, <3>5, Zenon DEF verify_attestation_binding
  <2>4. PICK k \in 1 .. Len(list) : list[k][2] = i
    BY <2>3 DEF collect
  <2>5. collect(list)[i] = LastPcr(list, i)
    BY <2>4 DEF collect
  <2>6. PICK m \in 1 .. Len(list) :
          /\ list[m][2] = i
          /\ \A l \in 1 .. Len(list) : list[l][2] = i => l <= m
          /\ LastPcr(list, i) = list[m][3]
    <3>1. Len(list) \in Nat
      BY <2>1
    <3> QED
      BY <2>4, <3>1, LastCounts, Zenon
  <2>7. list[m] = <<"pcr", i, pcrs[i]>>
    BY <2>2, <2>3, <2>5, <2>6, Zenon
  <2>8. \A l \in m + 1 .. Len(list) : list[l][2] # i
    BY <2>1, <2>6
  <2> QED
    BY <2>0, <2>3, <2>7, <2>8 DEF Pinned
<1> QED
  BY <1>1, JudgedHolds, PTL

-----------------------------------------------------------------------------
\* The candle that the bundle of a run is about.
LEMMA BodyParses ==
  \E candle :
    /\ candle.time = 0
    /\ from_json(Body)[1] = "candles"
    /\ Len(from_json(Body)[2]) = 1
    /\ parse_candle_object(from_json(Body)[2][1]) = Ok(candle)
    /\ select_candle(from_json(Body)) = Ok(candle)
<1> DEFINE object == [start  |-> <<"string", 0>>, low   |-> <<"string", 1>>,
                      high   |-> <<"string", 1>>, open  |-> <<"string", 1>>,
                      close  |-> <<"string", 1>>, volume |-> <<"string", 1>>]
           row == <<"object", object>>
           candle == [time |-> object["start"][2], low |-> object["low"][2],
                      high |-> object["high"][2], open |-> object["open"][2],
                      close |-> object["close"][2], volume |-> object["volume"][2]]
<1>1. from_json(Body) = <<"candles", <<row>>>>
  BY DEF from_json, to_json, Body
<1>2. row[1] = "object" /\ row[2] = object
  OBVIOUS
<1>3. DOMAIN object = {"start", "low", "high", "open", "close", "volume"}
  OBVIOUS
<1>4. /\ object["start"] = <<"string", 0>>
      /\ object["volume"] = <<"string", 1>>
      /\ \A f \in PriceFields : object[f] = <<"string", 1>>
  BY DEF PriceFields
<1> HIDE DEF object
<1>5. \A i \in 1 .. Len(FieldOrder) :
        /\ FieldOrder[i] \in DOMAIN object
        /\ is_readable(FieldOrder[i], object[FieldOrder[i]])
  BY <1>3, <1>4 DEF FieldOrder, PriceFields, is_readable, is_numeric
<1>6. /\ \A f \in PriceFields : is_positive(object[f])
      /\ is_non_negative(object["volume"])
  BY <1>4 DEF is_positive, is_non_negative, is_numeric
<1> HIDE DEF row
<1>7. parse_candle_object(row) = Ok(candle)
  BY <1>2, <1>5, <1>6 DEF parse_candle_object
<1>8. candle.time = 0
  BY <1>4
<1> HIDE DEF candle
<1>9. select_candle(from_json(Body)) = Ok(candle)
  BY <1>1, <1>7 DEF select_candle
<1> QED
  BY <1>1, <1>7, <1>8, <1>9

\* The payload and its body satisfy the checks that do not look at the times.
LEMMA PayloadInOrder ==
  /\ verify_body_integrity(Payload)
  /\ verify_payload_policy(Payload, from_json(b64_decode(Payload.body_b64)))
<1>1. PICK candle :
        /\ candle.time = 0
        /\ from_json(Body)[1] = "candles"
        /\ Len(from_json(Body)[2]) = 1
        /\ parse_candle_object(from_json(Body)[2][1]) = Ok(candle)
        /\ select_candle(from_json(Body)) = Ok(candle)
  BY BodyParses
<1>2. /\ Payload.labels = LABELS
      /\ Payload.request_start = 0 /\ Payload.request_end = 0
      /\ Payload.request_query = coinbase_candle_query(0, 0).val
      /\ Payload.http_status = 200
      /\ Payload.content_type = "application/json"
      /\ Payload.body_sha256 = sha256_hex(Body)
      /\ Payload.body_b64 = b64_encode(Body)
      /\ Payload.selected_candle = select_candle(from_json(Body)).val
      /\ Payload.tls.sni = HOST
  BY DEF Payload
<1>3. Payload.selected_candle = candle
  BY <1>1, <1>2 DEF Ok
<1>4. b64_decode(Payload.body_b64) = Body
  BY <1>2 DEF b64_encode, b64_decode
<1>5. verify_body_integrity(Payload)
  BY <1>2, <1>4 DEF verify_body_integrity, sha256_hex, is_b64, b64_encode,
                    is_json, Body, to_json
<1>6. validate_request(0, 0) /\ 0 % GRANULARITY_SECONDS = 0
  BY FormatAssumption DEF validate_request
<1>7. Ok(Payload.request_query) = coinbase_candle_query(0, 0)
  BY <1>2, <1>6 DEF coinbase_candle_query, Ok
<1>8. contains_selected_candle(from_json(Body), candle)
  BY <1>1 DEF contains_selected_candle
<1>9. is_json_content_type("application/json")
  BY DEF is_json_content_type
<1>10. verify_payload_policy(Payload, from_json(Body))
  BY <1>1, <1>2, <1>3, <1>6, <1>7, <1>8, <1>9, Zenon DEF verify_payload_policy
<1> QED
  BY <1>4, <1>5, <1>10

\* What the operator pinned is what collect() gives to verify_bundle.
LEMMA PinnedIsExpected ==
  ASSUME Inputs, NEW i, Pinned(i),
         \A k \in 1 .. Len(args.pcrs) : args.pcrs[k] # <<"garbage">>
  PROVE  /\ i \in DOMAIN pcrs
         /\ i \in DOMAIN collect(args.pcrs)
         /\ collect(args.pcrs)[i] = pcrs[i]
<1>0. PICK list : list = args.pcrs
  OBVIOUS
<1>1. /\ Len(list) \in Nat
      /\ \A k \in 1 .. Len(list) : list[k] = <<"pcr", list[k][2], list[k][3]>>
  BY <1>0, Options
<1>2. PICK k \in 1 .. Len(list) :
        /\ i \in DOMAIN pcrs
        /\ list[k] = <<"pcr", i, pcrs[i]>>
        /\ \A l \in k + 1 .. Len(list) : list[l][1] = "pcr" => list[l][2] # i
  BY <1>0 DEF Pinned
<1>3. k \in 1 .. Len(list) /\ list[k][2] = i /\ list[k][3] = pcrs[i]
  BY <1>2
<1>4. Len(list) \in Nat
  BY <1>1
<1>5. PICK m \in 1 .. Len(list) :
        /\ list[m][2] = i
        /\ \A l \in 1 .. Len(list) : list[l][2] = i => l <= m
        /\ LastPcr(list, i) = list[m][3]
  BY <1>3, <1>4, LastCounts
<1>6. m = k
  <2>1. k <= m
    BY <1>3, <1>5
  <2>2. list[m][1] = "pcr"
    BY <1>1
  <2>3. m \notin k + 1 .. Len(list)
    BY <1>2, <1>5, <2>2
  <2> QED
    BY <1>4, <2>1, <2>3
<1>7. i \in DOMAIN collect(list) /\ collect(list)[i] = LastPcr(list, i)
  BY <1>3 DEF collect
<1>8. collect(list)[i] = pcrs[i]
  BY <1>3, <1>5, <1>6, <1>7, Zenon
<1> QED
  BY <1>0, <1>2, <1>7, <1>8

\* A chain of Coinbase's certificate alone passes when it is valid at the time.
LEMMA ChainPasses ==
  ASSUME NEW t \in Nat, validate_at(Leaf, t)
  PROVE  verify_tls_certificate_chain(Payload.tls, t, HOST)
<1>1. Payload.tls.cert_chain_der_b64 = <<b64_encode(Leaf)>>
  BY DEF Payload
<1> DEFINE chain == [i \in 1 .. Len(<<b64_encode(Leaf)>>)
                       |-> b64_decode(<<b64_encode(Leaf)>>[i])]
<1>2. Len(chain) = 1 /\ chain[1] = Leaf
  <2>1. Len(<<b64_encode(Leaf)>>) = 1 /\ b64_decode(<<b64_encode(Leaf)>>[1]) = Leaf
    BY DEF b64_encode, b64_decode
  <2> QED
    BY <2>1
<1> HIDE DEF chain
<1>3. Leaf.name = HOST /\ Leaf.issuer \in WEBPKI_ROOTS
  BY VerifyProofAssumption, Zenon
<1>4. /\ <<b64_encode(Leaf)>> # <<>> /\ t >= 0
      /\ \A i \in 1 .. Len(<<b64_encode(Leaf)>>) : is_b64(<<b64_encode(Leaf)>>[i])
  BY DEF b64_encode, is_b64
<1>5. webpki_accepts(chain, HOST, t)
  BY <1>2, <1>3 DEF webpki_accepts
<1> QED
  BY <1>1, <1>4, <1>5, Zenon DEF verify_tls_certificate_chain, chain

\* The converse of LimitsAreExact and ImagesArePinned: verify-proof refuses no
\* bundle in order whose image is pinned and whose times are within the limits,
\* the limits themselves included.
THEOREM LimitsAreEnough == Spec => []LimitsSuffice
<1>1. Judged => LimitsSuffice
  <2> SUFFICES ASSUME Judged,
                      verdict # "none",
                      args.file = "bundle",
                      \A k \in 1 .. Len(args.pcrs) : args.pcrs[k] # <<"garbage">>,
                      \A i \in 0 .. 2 : Pinned(i) /\ pcrs[i] # ZERO_PCR,
                      timestamp >= 0,
                      validate_at(Leaf, timestamp),
                      timestamp - now <= args.max_future_skew_seconds,
                      timestamp - date \in -args.max_skew_seconds .. args.max_skew_seconds
               PROVE  Verifies
    BY DEF LimitsSuffice, Judged
  <2>0. Inputs
    BY DEF Judged
  <2>1. timestamp \in 0 .. I64_MAX /\ timestamp \in Nat
    BY <2>0, FormatAssumption DEF Inputs, I64, I64_MIN
  <2> DEFINE doc == <<"mock", [timestamp_unix |-> timestamp, pcrs |-> pcrs,
                               user_data |-> sha384(to_json(Payload)),
                               nonce |-> NONCE_BYTES]>>
             att == VerifiedAttestation("mock", doc)
  <2>2. /\ Artifact.schema = BUNDLE_SCHEMA
        /\ is_b64(Artifact.payload_json_b64)
        /\ is_b64(Artifact.attestation_doc_b64)
        /\ b64_decode(Artifact.payload_json_b64) = to_json(Payload)
        /\ b64_decode(Artifact.attestation_doc_b64) = doc
    BY DEF Artifact, ProofBundle, b64_encode, b64_decode, is_b64
  <2>3. is_json(to_json(Payload)) /\ from_json(to_json(Payload)) = Payload
    BY DEF from_json, to_json, is_json
  <2>4. /\ att.timestamp_unix = timestamp
        /\ att.pcrs = pcrs
        /\ att.user_data = sha384(to_json(Payload))
        /\ att.nonce = 32
    BY DEF VerifiedAttestation, NONCE_BYTES
  <2>5. attestation_verifies("mock", doc, now)
    BY DEF attestation_verifies, mock_verify
  <2> HIDE DEF doc, att
  <2>6. verify_attestation_binding(to_json(Payload), att, Config)
    <3>1. Config.expected_pcrs = collect(args.pcrs)
      BY DEF Config
    <3>2. \A i \in required_pcrs :
            /\ i \in DOMAIN pcrs /\ pcrs[i] # ZERO_PCR
            /\ i \in DOMAIN collect(args.pcrs)
            /\ collect(args.pcrs)[i] = pcrs[i]
      <4>1. required_pcrs \subseteq 0 .. 2
        BY DEF required_pcrs
      <4> QED
        BY <2>0, <4>1, PinnedIsExpected, Zenon
    <3>3. att.nonce >= 16
      BY <2>4
    <3> QED
      BY <2>4, <3>1, <3>2, <3>3, Zenon DEF verify_attestation_binding
  <2>7. /\ wrapping(timestamp - now) = timestamp - now
        /\ wrapping_abs(wrapping(timestamp - date))
             = IF timestamp < date THEN date - timestamp ELSE timestamp - date
    BY <2>0, <2>1, NoWrap DEF Inputs
  <2>8. verify_attestation_time_bounds(att, Config, now)
    BY <2>4, <2>7 DEF verify_attestation_time_bounds, Config
  <2>9. verify_time_policy(Payload, att, Config)
    <3>1. Payload.http_date = <<"imf", date>>
      BY DEF Payload
    <3>2. is_http_date(Payload.http_date) /\ parse_http_date_epoch(Payload.http_date) = date
      BY <2>0, <3>1 DEF Inputs, is_http_date, parse_http_date_epoch
    <3>3. wrapping_abs(wrapping(timestamp - date)) <= args.max_skew_seconds
      BY <2>0, <2>1, <2>7, FormatAssumption DEF Inputs, I64, I64_MIN
    <3> QED
      BY <2>4, <3>2, <3>3 DEF verify_time_policy, Config
  <2>10. verify_tls_certificate_chain(Payload.tls, att.timestamp_unix, HOST)
    BY <2>1, <2>4, ChainPasses
  <2>11. verify_bundle(Artifact, "mock", Config, now)
    BY <2>2, <2>3, <2>5, <2>6, <2>8, <2>9, <2>10, PayloadInOrder, Zenon
    DEF verify_bundle, att
  <2>12. \A k \in 1 .. Len(args.pcrs) : parse_pcr(args.pcrs[k])
    BY <2>0, Options DEF parse_pcr
  <2> QED
    BY <2>11, <2>12 DEF Verifies
<1> QED
  BY <1>1, JudgedHolds, PTL
================================================================================

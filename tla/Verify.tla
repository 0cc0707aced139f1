--------------------------------- MODULE Verify --------------------------------
(***************************************************************************)
(* The offline verifier: src/src/verify.rs and the verifying half of       *)
(* src/src/attestation.rs.  Each operator is TRUE exactly when the         *)
(* function of that name returns Ok; the conjuncts are in the code's order *)
(* because a later check may rely on an earlier one.                       *)
(*                                                                         *)
(* Two document formats exist: <<"cose", d>> is a signed Nitro document,   *)
(* <<"mock", d>> the JSON document of --mock-attestation.  A certificate   *)
(* is a record; DER that does not parse is not a certificate.              *)
(***************************************************************************)
EXTENDS Candle

CONSTANTS
  NITRO_ROOT_G1,   \* the certificate whose fingerprint the code pins
  WEBPKI_ROOTS     \* keys of webpki_roots::TLS_SERVER_ROOTS

ECDSA_SHA384 == "ecdsa-with-SHA384"
ZERO_PCR == 0      \* 48 zero bytes
required_pcrs == {0, 1, 2}

-----------------------------------------------------------------------------
\* attestation.rs

validate_at(cert, t) == cert.not_before <= t /\ t <= cert.not_after

\* Mutant: the root is any certificate that signed itself.
verify_signature_AnyRoot(chain, i) ==
  /\ chain[i].alg = ECDSA_SHA384
  /\ chain[i].issuer = IF i = 1 THEN chain[i].key ELSE chain[i - 1].key

\* chain is cabundle followed by certificate, root first.
verify_signature(chain, i) ==
  /\ chain[i].alg = ECDSA_SHA384
  /\ IF i = 1 THEN chain[i] = NITRO_ROOT_G1
              ELSE chain[i].issuer = chain[i - 1].key

timestamp_unix(doc) == doc.timestamp_ms \div 1000

\* Mutant: certificates are judged by the verifier's clock.
parse_and_verify_nitro_attestation_AtNow(document, now) ==
  /\ document[1] = "cose"
  /\ LET doc == document[2]
     IN /\ \A i \in 1 .. Len(doc.chain) :
             verify_signature(doc.chain, i) /\ validate_at(doc.chain[i], now)
        /\ doc.signed_by = doc.chain[Len(doc.chain)].key

\* now is handed down by verify_bundle and not used: every certificate is
\* judged at the time the document states.  An absent user_data is <<>>, an
\* absent nonce has length -1.
parse_and_verify_nitro_attestation(document, now) ==
  /\ document[1] = "cose"
  /\ LET doc == document[2]
         t == timestamp_unix(doc)
     IN /\ t \in I64
        /\ \A i \in 1 .. Len(doc.chain) :
             verify_signature(doc.chain, i) /\ validate_at(doc.chain[i], t)
        /\ doc.chain # <<>>
        /\ doc.signed_by = doc.chain[Len(doc.chain)].key
        /\ doc.user_data # <<>>
        /\ doc.nonce # -1

mock_verify(document) == document[1] = "mock"

attestation_verifies(verifier, document, now) ==
  IF verifier = "mock" THEN mock_verify(document)
                       ELSE parse_and_verify_nitro_attestation(document, now)

\* The VerifiedAttestation both verifiers return; the Nitro one leaves out
\* the PCRs that are all zeroes.
VerifiedAttestation(verifier, document) ==
  LET doc == document[2]
  IN IF verifier = "mock"
     THEN [timestamp_unix |-> doc.timestamp_unix, pcrs |-> doc.pcrs,
           user_data |-> doc.user_data, nonce |-> doc.nonce]
     ELSE [timestamp_unix |-> timestamp_unix(doc),
           pcrs |-> [i \in {j \in DOMAIN doc.pcrs : doc.pcrs[j] # ZERO_PCR}
                       |-> doc.pcrs[i]],
           user_data |-> doc.user_data, nonce |-> doc.nonce]

-----------------------------------------------------------------------------
\* verify.rs

verify_body_integrity(payload) ==
  /\ payload.body_sha256[1] = "sha256"
  /\ is_b64(payload.body_b64)
  /\ sha256_hex(b64_decode(payload.body_b64)) = payload.body_sha256
  /\ is_json(b64_decode(payload.body_b64))

verify_payload_policy(payload, body_json) ==
  /\ payload.labels = LABELS
  /\ payload.http_status = 200
  /\ is_json_content_type(payload.content_type)
  /\ validate_request(payload.request_start, payload.request_end)
  /\ Ok(payload.request_query)
       = coinbase_candle_query(payload.request_start, payload.request_end)
  /\ payload.selected_candle.time % GRANULARITY_SECONDS = 0
  /\ payload.selected_candle.time = payload.request_start
  /\ contains_selected_candle(body_json, payload.selected_candle)
  /\ payload.tls.sni = HOST

\* Mutant: the operands are swapped, so that age is refused and not the future.
verify_attestation_time_bounds_Swapped(attestation, config, now) ==
  wrapping(now - attestation.timestamp_unix) <= config.max_future_skew_seconds

verify_attestation_time_bounds(attestation, config, now) ==
  wrapping(attestation.timestamp_unix - now) <= config.max_future_skew_seconds

\* Mutant: the document need not be about these payload bytes.
verify_attestation_binding_AnyData(payload_bytes, attestation, config) ==
  \A required \in required_pcrs :
    /\ required \in DOMAIN attestation.pcrs
    /\ attestation.pcrs[required] = config.expected_pcrs[required]

\* Mutant: the PCRs that were configured are checked, not the required ones.
verify_attestation_binding_Configured(payload_bytes, attestation, config) ==
  /\ attestation.user_data = sha384(payload_bytes)
  /\ attestation.nonce >= 16
  /\ \A i \in DOMAIN config.expected_pcrs :
       /\ i \in DOMAIN attestation.pcrs
       /\ attestation.pcrs[i] = config.expected_pcrs[i]

\* Mutant: whichever image attests, it is Nitro that signs.
verify_attestation_binding_AnyImage(payload_bytes, attestation, config) ==
  /\ attestation.user_data = sha384(payload_bytes)
  /\ attestation.nonce >= 16

verify_attestation_binding(payload_bytes, attestation, config) ==
  /\ attestation.user_data = sha384(payload_bytes)
  /\ attestation.nonce >= 16
  /\ \A required \in required_pcrs :
       /\ required \in DOMAIN config.expected_pcrs
       /\ required \in DOMAIN attestation.pcrs
       /\ attestation.pcrs[required] # ZERO_PCR
       /\ attestation.pcrs[required] = config.expected_pcrs[required]

\* rustls' WebPkiServerVerifier: leaf first, every link signed by the next,
\* the last by a trusted root, all valid at t, the leaf naming the host.
webpki_accepts(chain, host, t) ==
  /\ chain[1].name = host
  /\ \A i \in 1 .. Len(chain) : validate_at(chain[i], t)
  /\ \A i \in 1 .. Len(chain) - 1 : chain[i].issuer = chain[i + 1].key
  /\ chain[Len(chain)].issuer \in WEBPKI_ROOTS

\* Mutant: the timestamp goes to the certificate check with its sign.
verify_tls_certificate_chain_Signed(tls, t, host) ==
  webpki_accepts([i \in 1 .. Len(tls.cert_chain_der_b64) |->
                    b64_decode(tls.cert_chain_der_b64[i])], host, t)

verify_tls_certificate_chain(tls, t, host) ==
  LET b64_chain == tls.cert_chain_der_b64
  IN /\ b64_chain # <<>>
     /\ \A i \in 1 .. Len(b64_chain) : is_b64(b64_chain[i])
     /\ t >= 0
     /\ webpki_accepts([i \in 1 .. Len(b64_chain) |-> b64_decode(b64_chain[i])],
                       host, t)

\* Mutant: Date must parse, and that is all.
verify_time_policy_NoSkew(payload, attestation, config) ==
  is_http_date(payload.http_date)

\* Mutant: the limit itself is refused.
verify_time_policy_Strict(payload, attestation, config) ==
  /\ is_http_date(payload.http_date)
  /\ wrapping_abs(wrapping(attestation.timestamp_unix
                             - parse_http_date_epoch(payload.http_date)))
       < config.max_skew_seconds

verify_time_policy(payload, attestation, config) ==
  /\ is_http_date(payload.http_date)
  /\ wrapping_abs(wrapping(attestation.timestamp_unix
                             - parse_http_date_epoch(payload.http_date)))
       <= config.max_skew_seconds

\* now is the verifier's clock; verifier is "nitro" or "mock".
verify_bundle(bundle, verifier, config, now) ==
  /\ bundle.schema = BUNDLE_SCHEMA
  /\ is_b64(bundle.payload_json_b64)
  /\ LET payload_bytes == b64_decode(bundle.payload_json_b64)
         payload == from_json(payload_bytes)
         document == b64_decode(bundle.attestation_doc_b64)
         attestation == VerifiedAttestation(verifier, document)
     IN /\ is_json(payload_bytes)
        /\ verify_body_integrity(payload)
        /\ verify_payload_policy(payload,
                                 from_json(b64_decode(payload.body_b64)))
        /\ is_b64(bundle.attestation_doc_b64)
        /\ attestation_verifies(verifier, document, now)
        /\ verify_attestation_time_bounds(attestation, config, now)
        /\ verify_attestation_binding(payload_bytes, attestation, config)
        /\ verify_tls_certificate_chain(payload.tls, attestation.timestamp_unix,
                                        HOST)
        /\ verify_time_policy(payload, attestation, config)
================================================================================

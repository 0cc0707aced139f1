------------------------------ MODULE ProofSystem ------------------------------
(***************************************************************************)
(* The prover and the offline verifier together.  Between them bundles     *)
(* travel as files, so what reaches a verifier is any payload ever         *)
(* attested beside any document ever made, at any time on the verifier's   *)
(* clock.  Documents are also made outside the release enclave: by an      *)
(* enclave in debug mode, by another image, and by a signer without AWS's  *)
(* root.                                                                   *)
(***************************************************************************)
EXTENDS EnclaveProver

CONSTANTS
  MaxSkew,        \* --max-skew-seconds
  MaxFutureSkew,  \* --max-future-skew-seconds
  VerifierTimes,  \* what a verifier's clock may read
  OnceArgs,       \* what --once may be started with
  OtherRoot,      \* a root certificate that is not AWS's
  MaxOutside      \* documents made outside the release enclave

ASSUME SystemAssumption ==
  /\ MaxTime <= I64_MAX
  /\ OtherRoot # NITRO_ROOT_G1
  /\ MaxSkew \in Nat
  /\ MaxFutureSkew \in Nat
  /\ VerifierTimes \subseteq Int
  /\ MaxOutside \in Nat

\* The limits and every clock are i64; a release has been measured; and AWS's
\* root certificate is valid for as long as the model runs.
ASSUME ReleaseAssumption ==
  /\ MaxSkew <= I64_MAX /\ MaxFutureSkew <= I64_MAX
  /\ VerifierTimes \subseteq I64
  /\ \A d \in NsmDrifts : \A t \in 0 .. MaxTime + d :
       t <= I64_MAX /\ validate_at(NITRO_ROOT_G1, t)
  /\ NITRO_ROOT_G1.alg = ECDSA_SHA384
  /\ NsmLifetime \in Nat
  /\ \A i \in required_pcrs : i \in DOMAIN ReleasePcrs /\ ReleasePcrs[i] # ZERO_PCR

VARIABLES
  outside,    \* history: documents made outside so far
  defaulted   \* history: the --once runs without --start and --end

systemVars == <<vars, outside, defaulted>>

\* verify-proof's configuration: the PCRs published for the release.
Config ==
  [expected_pcrs |-> IF MockAttestation THEN mock_pcrs ELSE ReleasePcrs,
   max_skew_seconds |-> MaxSkew,
   max_future_skew_seconds |-> MaxFutureSkew]

Verifier == IF MockAttestation THEN "mock" ELSE "nitro"

Accepts(bundle, now) == verify_bundle(bundle, Verifier, Config, now)

Circulating == {ProofBundle(x.payload, y.document) : x, y \in issued}

PayloadOf(bundle) == from_json(b64_decode(bundle.payload_json_b64))
DocumentOf(bundle) == b64_decode(bundle.attestation_doc_b64)
AttestedAt(bundle) == VerifiedAttestation(Verifier, DocumentOf(bundle)).timestamp_unix

-----------------------------------------------------------------------------
\* A payload the release code could have built, for a candle nobody served.
OutsidePayloads ==
  {ObservedPayload([start |-> b, end |-> b],
                   [framing |-> "ok", status |-> 200,
                    content_type |-> "application/json",
                    date |-> <<"imf", clock>>,
                    body |-> to_json(<<"candles", <<CandleRow(b, p)>>>>),
                    chain |-> chain]).val :
     b \in Buckets, p \in Prices, chain \in TlsChains}

OtherSigner(user_data, t) ==
  <<"cose", [timestamp_ms |-> t * 1000, pcrs |-> ReleasePcrs,
             user_data |-> user_data, nonce |-> NONCE_BYTES,
             chain |-> <<OtherRoot,
                         [key |-> "signer", issuer |-> OtherRoot.key,
                          alg |-> ECDSA_SHA384,
                          not_before |-> 0, not_after |-> I64_MAX]>>,
             signed_by |-> "signer"]>>

debug_pcrs == [i \in required_pcrs |-> ZERO_PCR]

OutsideDocuments(user_data) ==
  {NsmDocument(OtherPcrs, user_data, NONCE_BYTES, clock),
   NsmDocument(debug_pcrs, user_data, NONCE_BYTES, clock),
   OtherSigner(user_data, clock)}

OutsideAttests ==
  /\ ~MockAttestation
  /\ outside < MaxOutside
  /\ outside' = outside + 1
  /\ \E p \in OutsidePayloads :
       \E doc \in OutsideDocuments(sha384(to_json(p))) :
         issued' = issued \cup {[payload |-> to_json(p), document |-> doc]}
  /\ UNCHANGED <<coinbaseVars, enclave, restarts, pc, request, attester, nsm_fds,
                 quiet, answer, payload, reply, observed, defaulted>>

\* The operator's own proofs, beside those that clients ask for.
OneShot(c, args) ==
  /\ RunOnce(c, args)
  /\ defaulted' = IF args.start = <<>> /\ args.end = <<>>
                  THEN defaulted \cup {c} ELSE defaulted
  /\ UNCHANGED outside

-----------------------------------------------------------------------------
Init == CoinbaseInit /\ ProverInit /\ outside = 0 /\ defaulted = {}

Next ==
  \/ /\ \/ Tick
        \/ \E b \in Buckets, p \in Prices : Trade(b, p)
     /\ UNCHANGED <<proverVars, outside, defaulted>>
  \/ ProverNext /\ UNCHANGED <<outside, defaulted>>
  \/ \E c \in Conns, args \in OnceArgs : OneShot(c, args)
  \/ OutsideAttests

Spec == Init /\ [][Next]_systemVars

Fairness ==
  \A c \in Conns :
    /\ WF_systemVars(ThreadStep(c) /\ UNCHANGED <<outside, defaulted>>)
    /\ WF_systemVars(CoinbaseQuiet(c) /\ UNCHANGED <<outside, defaulted>>)
    /\ WF_systemVars(ReadTimesOut(c) /\ UNCHANGED <<outside, defaulted>>)

FairSpec == Spec /\ Fairness

-----------------------------------------------------------------------------
States == {"idle", "reading", "opening", "connecting", "fetching", "attesting",
           "replying", "answered", "dropped"}

\* Types: every variable keeps the shape its comment gives it, a thread that has
\* an attester serves a request that validate_request passes, wherever it came
\* from, and documents are COSE or mock as configured.
TypeOK ==
  /\ clock \in 0 .. MaxTime
  /\ market \in [Buckets -> Prices]
  /\ enclave \in {"release", "other"}
  /\ restarts \in 0 .. MaxRestarts
  /\ pc \in [Conns -> States]
  /\ \A c \in Conns : pc[c] \in {"connecting", "fetching", "attesting"} =>
                        validate_request(request[c].start, request[c].end)
  /\ attester \in [Conns -> 0 .. MaxTime]
  /\ nsm_fds \subseteq Conns
  /\ quiet \in [Conns -> BOOLEAN]
  /\ \A c \in Conns : reply[c].status \in {0, 200, 400, 404, 405, 500, 502}
  /\ \A o \in observed : o.at \in 0 .. clock
  /\ \A x \in issued : x.document[1] = (IF MockAttestation THEN "mock" ELSE "cose")
  /\ outside \in 0 .. MaxOutside
  /\ defaulted \subseteq Conns

\* An open /dev/nsm belongs to a thread that is inside prove(): every way out
\* of it (each `?`, the success path, the end of the enclave) has closed it,
\* and none is closed while it may still be used (attestation.rs, Drop).
NsmFdsAreHeld ==
  nsm_fds = {c \in Conns : /\ pc[c] \in {"connecting", "fetching", "attesting"}
                           /\ ~MockAttestation}

\* The observation that a bundle's payload speaks of.
WasObserved(bundle) ==
  LET p == PayloadOf(bundle)
  IN \E o \in observed :
       /\ o.image = "release"
       /\ o.start = p.request_start
       /\ o.answer.date = p.http_date
       /\ o.answer.body = b64_decode(p.body_b64)
       /\ is_json(o.answer.body)
       /\ select_candle(from_json(o.answer.body)) = Ok(p.selected_candle)
       /\ tls_info(o.answer.chain) = p.tls
       /\ webpki_accepts(o.answer.chain, HOST, o.at)
       /\ AttestedAt(bundle) - o.at \in -MaxSkew .. MaxSkew

\* What verify_bundle accepts was observed: the release enclave received, over
\* a TLS connection whose chain was valid for HOST, an answer to a request for
\* this candle with exactly this body and Date, whose first candle is the one
\* the payload states, and it did so within the skew of the attested time.
AcceptedWasObserved ==
  \A bundle \in Circulating : \A now \in VerifierTimes :
    Accepts(bundle, now) => WasObserved(bundle)

\* What the release enclave saw of the market.
SeenCandle(o) == select_candle(from_json(o.answer.body))
Quotes ==
  {[candle |-> SeenCandle(o).val, at |-> o.at] :
     o \in {x \in observed : /\ x.image = "release"
                             /\ is_json(x.answer.body)
                             /\ SeenCandle(x).ok}}

\* What a verifier may be brought to accept.
Endorsed ==
  {[candle |-> PayloadOf(bundle).selected_candle, at |-> AttestedAt(bundle)] :
     bundle \in {x \in Circulating : \E now \in VerifierTimes : Accepts(x, now)}}

Oracle ==
  INSTANCE ProofOracle
  WITH Candles <- {CandleAt(b, p) : b \in Buckets, p \in Prices},
       Granularity <- GRANULARITY_SECONDS,
       market <- [b \in Buckets |-> CandleAt(b, market[b])],
       quotes <- Quotes,
       endorsed <- Endorsed

\* Enclaves, documents, certificates and verifiers together are an oracle: each
\* step either is invisible to somebody who only verifies bundles, or lets time
\* pass, moves an open candle, quotes the market as it stands, or makes
\* acceptable what is backed by a quote within the skew; and nothing that was
\* acceptable ever stops being so (README.md, "Verification").
ImplementsOracle == Oracle!Spec

\* A proof may state a candle that is still moving; but one attested MaxSkew
\* after the bucket's end states the candle's final value, however long the
\* answer was under way (verify.rs, verify_time_policy).
AcceptedCandleIsFinal ==
  \A bundle \in Circulating : \A now \in VerifierTimes :
    LET candle == PayloadOf(bundle).selected_candle
    IN /\ Accepts(bundle, now)
       /\ AttestedAt(bundle) >= candle.time + GRANULARITY_SECONDS + MaxSkew
       => candle = CandleAt(candle.time, market[candle.time])

\* enclave-prover --once without arguments asks for the last completed bucket,
\* so what it proves cannot move any more: an accepted bundle of such a run
\* states the final candle of that bucket, at whatever second of a bucket the
\* run began and however long it took (timeutil.rs, last_completed_bucket).
DefaultProofIsFinal ==
  \A c \in defaulted : \A now \in VerifierTimes :
    LET b == request[c].start
    IN /\ reply[c].status = 200
       /\ Accepts(reply[c].bundle, now)
       => PayloadOf(reply[c].bundle).selected_candle = CandleAt(b, market[b])

\* What the verifier insists on and the prover does not look at.
VerifierPreconditions(bundle) ==
  LET p == PayloadOf(bundle)
      t == AttestedAt(bundle)
  IN /\ p.selected_candle.time = p.request_start
     /\ is_http_date(p.http_date)
     /\ t - parse_http_date_epoch(p.http_date) \in -MaxSkew .. MaxSkew
     /\ verify_tls_certificate_chain(p.tls, t, HOST)

\* The prover does not check what the verifier later insists on: that the
\* first candle is the requested one, that Date parses and is near the
\* attestation, and that the chain is valid at that time.  When these hold, a
\* 200 from the release enclave verifies on every clock that is not too slow.
ServedProofVerifies ==
  \A c \in Conns :
    /\ reply[c].status = 200
    /\ DocumentOf(reply[c].bundle)[2].pcrs = Config.expected_pcrs
    /\ VerifierPreconditions(reply[c].bundle)
    => /\ PayloadOf(reply[c].bundle).request_start = request[c].start
       /\ \A now \in VerifierTimes :
            now >= AttestedAt(reply[c].bundle) - MaxFutureSkew
              => Accepts(reply[c].bundle, now)

\* README.md: certificates are validated at the attestation timestamp "so
\* historical proofs remain verifiable".  No later clock, whatever expired
\* since, turns an accepted bundle into a refused one.
HistoricalProofsRemainVerifiable ==
  [][\A bundle \in Circulating :
       Accepts(bundle, clock) => Accepts(bundle, clock')]_systemVars

\* Once a request is parsed, prove() returns, if Coinbase does not go on for
\* ever sending a few bytes within every read timeout (prover.rs,
\* connect_coinbase: the timeouts are per read).
ProveReturns ==
  \A c \in Conns :
    <>[][~CoinbaseDrips(c)]_systemVars
      => (pc[c] = "opening" ~> pc[c] \in {"replying", "answered", "dropped"})
================================================================================

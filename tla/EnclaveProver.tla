----------------------------- MODULE EnclaveProver -----------------------------
(***************************************************************************)
(* The enclave HTTP service: src/src/bin/enclave-prover.rs (one thread per *)
(* connection), src/src/prover.rs, the fetching half of src/src/http.rs    *)
(* and the attesting half of src/src/attestation.rs.                       *)
(*                                                                         *)
(* A thread's steps are separated where it waits for something outside:    *)
(* the client, /dev/nsm, the TCP connection, Coinbase, the NSM.  Dropping  *)
(* the attester belongs to the step in which prove() returns.              *)
(***************************************************************************)
EXTENDS Coinbase, PublicApi

CONSTANTS
  Conns,            \* client connections; each carries one request
  HttpRequests,     \* what a client may send: [method, target]
  MockAttestation,  \* the --mock-attestation flag
  NsmDrifts,        \* NSM clock minus wall clock, in seconds
  NsmLifetime,      \* validity of an NSM signing certificate, in seconds
  ReleasePcrs,      \* PCR0..2 of the release image
  OtherPcrs,        \* PCR0..2 of an image built from another source_ref
  MaxRestarts

ASSUME ProverAssumption ==
  /\ MockAttestation \in BOOLEAN
  /\ NsmDrifts \subseteq Int
  /\ \E i \in required_pcrs : OtherPcrs[i] # ReleasePcrs[i]
  /\ MaxRestarts \in Nat

VARIABLES
  enclave,    \* which image runs: "release" or "other"
  restarts,
  pc,         \* where each connection's thread is
  request,    \* the ProofRequest it parsed
  attester,   \* MockAttester's timestamp_unix, fixed when it is made
  nsm_fds,    \* the connections whose RealNsmAttester has /dev/nsm open
  quiet,      \* Coinbase has been silent for the read timeout
  answer,     \* Coinbase's answer, on its way
  payload,    \* the ProofPayload to attest
  reply,      \* the response to write
  observed,   \* history: answers that came over a verified TLS connection
  issued      \* history: payload bytes and the document attesting them

proverVars == <<enclave, restarts, pc, request, attester, nsm_fds, quiet,
                answer, payload, reply, observed, issued>>
vars == <<coinbaseVars, proverVars>>

NoRequest == [start |-> -1, end |-> -1]
NoAnswer  == [framing |-> "none"]
NoPayload == [labels |-> "none"]
NoReply   == [status |-> 0]

-----------------------------------------------------------------------------
\* The text of an error decides its status.  These mention "Coinbase",
\* "HTTPS", "TLS", "api.coinbase.com" or "HTTP body"; broken framing, an
\* unreadable candle field and the NSM's errors do not.
NamesCoinbase ==
  {"connect", "https", "body_not_json", "status", "content_type", "no_date",
   "no_candle_array", "no_candles", "row_not_object", "field_omitted"}

error_status(err) == IF err \in NamesCoinbase THEN 502 ELSE 500

parse_http_response(a) ==
  IF a.framing # "ok" THEN Err("framing")
  ELSE IF ~is_json(a.body) THEN Err("body_not_json")
  ELSE Ok(a)

tls_info(chain) ==
  [sni |-> HOST,
   cert_chain_der_b64 |-> [i \in 1 .. Len(chain) |-> b64_encode(chain[i])]]

\* Prover::prove from the fetched response to the payload.
ObservedPayload(req, a) ==
  LET fetch == parse_http_response(a)
      selected == select_candle(from_json(a.body))
  IN IF ~fetch.ok THEN fetch
     ELSE IF a.status # 200 THEN Err("status")
     ELSE IF ~is_json_content_type(a.content_type) THEN Err("content_type")
     ELSE IF a.date = <<"absent">> THEN Err("no_date")
     ELSE IF ~selected.ok THEN selected
     ELSE Ok([labels |-> LABELS,
              request_start |-> req.start,
              request_end |-> req.end,
              request_query |-> coinbase_candle_query(req.start, req.end).val,
              http_status |-> a.status,
              http_date |-> a.date,
              content_type |-> a.content_type,
              body_sha256 |-> sha256_hex(a.body),
              body_b64 |-> b64_encode(a.body),
              selected_candle |-> selected.val,
              tls |-> tls_info(a.chain)])

-----------------------------------------------------------------------------
\* The NSM signs with a short-lived certificate under AWS's pinned root.
NsmChain(t) ==
  <<NITRO_ROOT_G1,
    [key |-> "nsm", issuer |-> NITRO_ROOT_G1.key, alg |-> ECDSA_SHA384,
     not_before |-> t, not_after |-> t + NsmLifetime]>>

\* t in whole seconds; the NSM stamps milliseconds.
NsmDocument(pcrs, user_data, nonce, t) ==
  <<"cose", [timestamp_ms |-> t * 1000 + 999, pcrs |-> pcrs,
             user_data |-> user_data, nonce |-> nonce,
             chain |-> NsmChain(t), signed_by |-> "nsm"]>>

mock_pcrs == [i \in required_pcrs |-> i + 1]

MockDocument(t, user_data, nonce) ==
  <<"mock", [timestamp_unix |-> t, pcrs |-> mock_pcrs, user_data |-> user_data,
             nonce |-> nonce]>>

ImagePcrs == IF enclave = "release" THEN ReleasePcrs ELSE OtherPcrs

\* What attest() may return for connection c.
AttestationDocs(c, user_data, nonce) ==
  IF MockAttestation
  THEN {MockDocument(attester[c], user_data, nonce)}
  ELSE {NsmDocument(ImagePcrs, user_data, nonce, clock + d) :
          d \in {x \in NsmDrifts : clock + x >= 0}}

-----------------------------------------------------------------------------
ProverInit ==
  /\ enclave = "release"
  /\ restarts = 0
  /\ pc = [c \in Conns |-> "idle"]
  /\ request = [c \in Conns |-> NoRequest]
  /\ attester = [c \in Conns |-> 0]
  /\ nsm_fds = {}
  /\ quiet = [c \in Conns |-> FALSE]
  /\ answer = [c \in Conns |-> NoAnswer]
  /\ payload = [c \in Conns |-> NoPayload]
  /\ reply = [c \in Conns |-> NoReply]
  /\ observed = {}
  /\ issued = {}

At(c, l) == pc[c] = l
Goto(c, l) == pc' = [pc EXCEPT ![c] = l]

\* run_http_server: accept and spawn.
Accept(c) ==
  /\ At(c, "idle")
  /\ Goto(c, "reading")
  /\ UNCHANGED <<coinbaseVars, enclave, restarts, request, attester, nsm_fds,
                 quiet, answer, payload, reply, observed, issued>>

\* read_http_request fails: the thread ends and the client gets no response.
ReadFails(c) ==
  /\ At(c, "reading")
  /\ Goto(c, "dropped")
  /\ UNCHANGED <<coinbaseVars, enclave, restarts, request, attester, nsm_fds,
                 quiet, answer, payload, reply, observed, issued>>

ReadRequest(c, h) ==
  LET parsed == parse_public_proof_request(h.method, h.target)
  IN /\ At(c, "reading")
     /\ IF parsed.ok
        THEN /\ request' = [request EXCEPT ![c] = parsed.val]
             /\ Goto(c, "opening")
             /\ UNCHANGED reply
        ELSE /\ reply' = [reply EXCEPT ![c] = [status |-> parsed.err]]
             /\ Goto(c, "replying")
             /\ UNCHANGED request
     /\ UNCHANGED <<coinbaseVars, enclave, restarts, attester, nsm_fds,
                    quiet, answer, payload, observed, issued>>

\* Mutant: RealNsmAttester without its Drop.
Leave_NoDrop(c, l) ==
  /\ attester' = [attester EXCEPT ![c] = 0]
  /\ quiet' = [quiet EXCEPT ![c] = FALSE]
  /\ answer' = [answer EXCEPT ![c] = NoAnswer]
  /\ payload' = [payload EXCEPT ![c] = NoPayload]
  /\ Goto(c, l)
  /\ UNCHANGED <<coinbaseVars, enclave, restarts, request, nsm_fds, observed>>

\* The thread is done with prove(), by a return or by a panic: its Prover, and
\* with it the attester, is dropped, and its locals are gone.
Leave(c, l) ==
  /\ nsm_fds' = nsm_fds \ {c}
  /\ attester' = [attester EXCEPT ![c] = 0]
  /\ quiet' = [quiet EXCEPT ![c] = FALSE]
  /\ answer' = [answer EXCEPT ![c] = NoAnswer]
  /\ payload' = [payload EXCEPT ![c] = NoPayload]
  /\ Goto(c, l)
  /\ UNCHANGED <<coinbaseVars, enclave, restarts, request, observed>>

Return(c, response) ==
  /\ reply' = [reply EXCEPT ![c] = response]
  /\ Leave(c, "replying")

Fail(c, err) ==
  /\ Return(c, [status |-> error_status(err)])
  /\ UNCHANGED issued

-----------------------------------------------------------------------------
\* Mutant: the bucket that now lies in.
last_completed_bucket_Open(now) ==
  LET start == (now \div GRANULARITY_SECONDS) * GRANULARITY_SECONDS
  IN [start |-> start, end |-> start]

last_completed_bucket(now) ==
  LET end == (now \div GRANULARITY_SECONDS) * GRANULARITY_SECONDS
      start == end - GRANULARITY_SECONDS
  IN [start |-> start, end |-> start]

\* --start and --end are each <<>> or <<seconds>>.
request_from_args(args) ==
  IF args.start # <<>> /\ args.end # <<>>
  THEN Ok([start |-> args.start[1], end |-> args.end[1]])
  ELSE IF args.start = <<>> /\ args.end = <<>> THEN Ok(last_completed_bucket(clock))
  ELSE Err("args")

\* enclave-prover --once: a process of its own that asks prove() without
\* parse_public_proof_request before it.  Its reply is the bundle it writes;
\* a status other than 200 stands for main's Err.
RunOnce(c, args) ==
  LET parsed == request_from_args(args)
  IN /\ At(c, "idle")
     /\ IF parsed.ok
        THEN /\ request' = [request EXCEPT ![c] = parsed.val]
             /\ Goto(c, "opening")
        ELSE /\ Goto(c, "dropped")
             /\ UNCHANGED request
     /\ UNCHANGED <<coinbaseVars, enclave, restarts, attester, nsm_fds, quiet,
                    answer, payload, reply, observed, issued>>

-----------------------------------------------------------------------------
\* Mutant: the HTTP API has checked the request, so prove() need not.
OpenAttester_Trusts(c) ==
  /\ At(c, "opening")
  /\ IF MockAttestation
     THEN /\ attester' = [attester EXCEPT ![c] = clock]
          /\ UNCHANGED nsm_fds
     ELSE /\ nsm_fds' = nsm_fds \cup {c}
          /\ UNCHANGED attester
  /\ Goto(c, "connecting")
  /\ UNCHANGED <<coinbaseVars, enclave, restarts, request, quiet, answer,
                 payload, reply, observed, issued>>

\* prove() checks the request once more and makes the attester.
OpenAttester(c) ==
  /\ At(c, "opening")
  /\ validate_request(request[c].start, request[c].end)
  /\ IF MockAttestation
     THEN /\ attester' = [attester EXCEPT ![c] = clock]
          /\ UNCHANGED nsm_fds
     ELSE /\ nsm_fds' = nsm_fds \cup {c}
          /\ UNCHANGED attester
  /\ Goto(c, "connecting")
  /\ UNCHANGED <<coinbaseVars, enclave, restarts, request, quiet, answer,
                 payload, reply, observed, issued>>

OpenFails(c) ==
  /\ At(c, "opening")
  /\ \/ ~MockAttestation
     \/ ~validate_request(request[c].start, request[c].end)
  /\ Fail(c, "nsm_open")

ConnectCoinbase(c) ==
  /\ At(c, "connecting")
  /\ Goto(c, "fetching")
  /\ UNCHANGED <<coinbaseVars, enclave, restarts, request, attester, nsm_fds,
                 quiet, answer, payload, reply, observed, issued>>

ConnectFails(c) ==
  /\ At(c, "connecting")
  /\ Fail(c, "connect")

\* Coinbase completes the handshake and sends its answer.
CoinbaseAnswers(c, a) ==
  /\ At(c, "fetching")
  /\ answer[c] = NoAnswer
  /\ answer' = [answer EXCEPT ![c] = a]
  /\ quiet' = [quiet EXCEPT ![c] = FALSE]
  /\ observed' = observed \cup {[start |-> request[c].start, at |-> clock,
                                 image |-> enclave, answer |-> a]}
  /\ UNCHANGED <<coinbaseVars, enclave, restarts, pc, request, attester,
                 nsm_fds, payload, reply, issued>>

\* Coinbase is silent for as long as the read timeout ...
CoinbaseQuiet(c) ==
  /\ At(c, "fetching") /\ ~quiet[c]
  /\ quiet' = [quiet EXCEPT ![c] = TRUE]
  /\ UNCHANGED <<coinbaseVars, enclave, restarts, pc, request, attester,
                 nsm_fds, answer, payload, reply, observed, issued>>

\* ... or some bytes, but not the end, arrive before it has run out.
CoinbaseDrips(c) ==
  /\ At(c, "fetching") /\ quiet[c]
  /\ quiet' = [quiet EXCEPT ![c] = FALSE]
  /\ UNCHANGED <<coinbaseVars, enclave, restarts, pc, request, attester,
                 nsm_fds, answer, payload, reply, observed, issued>>

\* Mutant: set_read_timeout failed, and .ok() hid it.
ReadTimesOut_Never(c) == At(c, "fetching") /\ FALSE

ReadTimesOut(c) ==
  /\ At(c, "fetching") /\ quiet[c]
  /\ Fail(c, "https")

\* A TLS alert, a bad certificate, a reset, or an end without close_notify.
FetchFails(c) ==
  /\ At(c, "fetching")
  /\ Fail(c, "https")

ReceiveAnswer(c) ==
  LET built == ObservedPayload(request[c], answer[c])
  IN /\ At(c, "fetching")
     /\ answer[c] # NoAnswer /\ answer[c].framing # "oversize"
     /\ IF built.ok
        THEN /\ payload' = [payload EXCEPT ![c] = built.val]
             /\ answer' = [answer EXCEPT ![c] = NoAnswer]
             /\ quiet' = [quiet EXCEPT ![c] = FALSE]
             /\ Goto(c, "attesting")
             /\ UNCHANGED <<coinbaseVars, enclave, restarts, request, attester,
                            nsm_fds, reply, observed, issued>>
        ELSE Fail(c, built.err)

\* A chunk size at the end of usize (HttpResponse, ChunkPanics): the thread
\* unwinds, and the client gets no response.
DecodePanics(c) ==
  /\ At(c, "fetching")
  /\ answer[c].framing = "oversize"
  /\ Leave(c, "dropped")
  /\ UNCHANGED <<reply, issued>>

Attest(c) ==
  LET payload_bytes == to_json(payload[c])
  IN /\ At(c, "attesting")
     /\ \E doc \in AttestationDocs(c, sha384(payload_bytes), NONCE_BYTES) :
          /\ issued' = issued \cup {[payload |-> payload_bytes, document |-> doc]}
          /\ Return(c, [status |-> 200, bundle |-> ProofBundle(payload_bytes, doc)])

AttestFails(c) ==
  /\ At(c, "attesting")
  /\ ~MockAttestation
  /\ Fail(c, "attest")

WriteReply(c) ==
  /\ At(c, "replying")
  /\ Goto(c, "answered")
  /\ UNCHANGED <<coinbaseVars, enclave, restarts, request, attester, nsm_fds,
                 quiet, answer, payload, reply, observed, issued>>

WriteFails(c) ==
  /\ At(c, "replying")
  /\ Goto(c, "dropped")
  /\ UNCHANGED <<coinbaseVars, enclave, restarts, request, attester, nsm_fds,
                 quiet, answer, payload, reply, observed, issued>>

\* choracle-run-enclave.sh: the enclave is terminated with every connection in
\* it, and the image on disk, rebuilt from source_ref, is started.
RestartEnclave(image) ==
  /\ ~MockAttestation
  /\ restarts < MaxRestarts
  /\ restarts' = restarts + 1
  /\ enclave' = image
  /\ pc' = [c \in Conns |-> IF pc[c] \in {"idle", "answered"} THEN pc[c] ELSE "dropped"]
  /\ attester' = [c \in Conns |-> 0]
  /\ nsm_fds' = {}
  /\ quiet' = [c \in Conns |-> FALSE]
  /\ answer' = [c \in Conns |-> NoAnswer]
  /\ payload' = [c \in Conns |-> NoPayload]
  /\ UNCHANGED <<coinbaseVars, request, reply, observed, issued>>

-----------------------------------------------------------------------------
\* The steps of a thread that wait on nothing but the code, the kernel and the
\* NSM.  Waiting for a client's request has no timeout and is not among them.
ThreadStep(c) ==
  \/ OpenAttester(c) \/ OpenFails(c)
  \/ ConnectCoinbase(c) \/ ConnectFails(c)
  \/ ReceiveAnswer(c) \/ DecodePanics(c)
  \/ Attest(c) \/ AttestFails(c)

ProverNext ==
  \/ \E c \in Conns :
       \/ Accept(c)
       \/ ReadFails(c)
       \/ \E h \in HttpRequests : ReadRequest(c, h)
       \/ ThreadStep(c)
       \/ \E a \in Answers : CoinbaseAnswers(c, a)
       \/ CoinbaseQuiet(c)
       \/ CoinbaseDrips(c)
       \/ ReadTimesOut(c)
       \/ FetchFails(c)
       \/ WriteReply(c)
       \/ WriteFails(c)
  \/ \E image \in {"release", "other"} : RestartEnclave(image)
================================================================================

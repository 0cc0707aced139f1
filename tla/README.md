# choracle in TLA+

choracle is a price oracle. A program in an AWS Nitro enclave fetches one
five-minute candle of `BTC-USD` from Coinbase over TLS, puts the answer, the
server's certificate chain and the selected candle into a payload, has the
enclave's security module (NSM) sign the payload's digest together with the
enclave's measurements (PCRs), and returns payload and attestation document as
a *proof bundle*. Anyone can later check a bundle offline with `verify-proof`.

This directory models that program, checks the models with TLC on small
instances, and proves theorems about them with TLAPS for all instances. Paths
below are relative to the repository; the Rust crate is in `src/`.

## 1. Inventory

| Component | Source | State it keeps | Operations |
|---|---|---|---|
| proof format | `lib.rs`, `proof.rs`, `crypto.rs`, `timeutil.rs` | none | encode, decode, digest, build a query, parse an HTTP date |
| candle parsing | `candle.rs` | none | `select_candle` (first row), `contains_selected_candle` (scan) |
| offline verifier | `verify.rs`, verifying half of `attestation.rs` | none | `verify_bundle`: document, PCRs, nonce, digest, payload, request, body, TLS chain, times |
| `verify-proof` | `bin/verify-proof.rs` | none | one run: `--pcr` options, artifact, skews, verdict |
| public proof API | `bin/enclave-prover.rs` (parsing) | none | `parse_public_proof_request`, `parse_query` |
| enclave prover | `bin/enclave-prover.rs`, `prover.rs`, attesting half of `attestation.rs` | per connection: thread position, request, attester (an open `/dev/nsm`), TLS stream, payload, reply | accept, read, open, connect, fetch, attest, write; each can fail; `--once` without HTTP |
| Coinbase client | `http.rs`, `prover.rs` | the bytes read, the decoder's position | HTTPS GET, per-read timeouts, headers, chunked coding, `Content-Length` |
| runtime config | `bin/choracle-runtime-config.rs` | a vsock connection, retry count | `serve_fqdn`, `fetch_fqdn`, `validate_fqdn` |
| readiness | `bin/enclave-prover.rs` (`signal_nitriding_ready`) | retry count | bind, then tell nitriding; up to 60 tries |
| deployment | `terraform/scripts`, `deploy/` | which image runs | build, run, terminate, restart |
| reproducible build, infrastructure | `flake.nix`, `terraform/*.tf` | none at run time | none |

How they interact. Clients reach the prover through nitriding; every accepted
connection gets a thread of its own and the threads share nothing but the
kernel, the NSM and Coinbase. The prover talks to Coinbase once per request.
Prover and verifier never talk: bundles travel as files, long after they were
made, and parts of different bundles can end up in one file. The enclave may be
terminated at any time and another image started, while bundles of the old one
remain in circulation.

What is hard here, and hardly reached by the repository's tests:

* the candle of an open bucket moves, between two answers and while one is
  under way; the timeouts are per read, so "under way" has no fixed limit;
* prover and verifier check different things about the same answer, at
  different times, against different clocks;
* the prover holds an NSM handle through a function with many early returns;
* certificates expire between handshake, attestation and verification;
* skews are computed with i64 subtraction and `abs()` on times a document may
  state freely;
* threads stall: on a silent client, on a silent or a dripping Coinbase;
* connections break at any byte: in a client's request, in Coinbase's answer, in
  the name on its way into the enclave, in nitriding's reply;
* chunk sizes at the end of a usize, names and requests at their length limits;
* restarts of the enclave, on another image too, with requests in flight, and of
  the server it gets its name from.

`PROJECT.json` lists these hazards line by line with the properties that cover
them.

What makes each component correct: the *verifier* accepts only what the release
enclave observed, and keeps accepting it; its time limits mean what they say.
The *prover* serves what the verifier will take, answers every request it
parsed, and returns every NSM handle. The *API* takes exactly the documented
requests. The *HTTP decoding* yields the bytes that were sent or nothing. The
*runtime configuration* delivers the parent's name, whichever side restarts;
*readiness* is signalled only when connections are accepted.

## 2. Modules and the code

Operators keep the names of the functions they translate.

| Module | Models |
|---|---|
| `ProofFormat` | the vocabulary both sides share: symbolic bytes and digests, bundles, request range and query, i64 arithmetic (`wrapping`, `wrapping_abs`) |
| `Candle` | `candle.rs`: which row is selected, in which order fields are read, which failures occur |
| `Verify` | `verify.rs` and the verifying half of `attestation.rs`; each operator is TRUE exactly when the function returns `Ok` |
| `VerifyProof` | one run of `verify-proof` over the whole i64 range of times |
| `PublicApi` | the parsing of a client's request to a range or to 400, 404, 405 |
| `Coinbase` | external: a clock, a market whose open candle moves, and every answer the server may give |
| `EnclaveProver` | the service: one thread per connection, `prove()`, the attester's life, restarts |
| `ProofSystem` | prover, world and verifier together; the properties |
| `ProofOracle` | the abstract specification: what somebody who only verifies bundles can rely on |
| `RequestReader` | `read_http_request`: one client's request, read by read |
| `HttpResponse` | `parse_http_response` and `decode_chunked`, with a server and a connection before them |
| `RuntimeConfig` | `choracle-runtime-config`: `serve-fqdn` on the parent, `fetch-fqdn` in the enclave |
| `EnclaveBoot` | the enclave's start: `RuntimeConfig`, the entrypoint, nitriding (external), bind and the readiness signal |
| `...Proofs` | the theorems of the module so named; `PublicApiProofs` is about `MCPublicApi` |
| `ProofSystemRefinement` | further theorems of `ProofSystem`: that it implements `ProofOracle`, and what its replies are worth |
| `MC...` | instances for TLC, one for each of the modules that are run |

`EnclaveProver` extends `Coinbase` and `PublicApi`; these extend `Verify`,
`Candle` and `ProofFormat`. `ProofSystem` extends `EnclaveProver` and shows, with
`Oracle == INSTANCE ProofOracle WITH ...`, that it implements `ProofOracle`.
`EnclaveBoot` extends `RuntimeConfig`. `RequestReader` and `HttpResponse` are the
insides of two steps of `EnclaveProver` (`ReadRequest` or `ReadFails`, and
`ReceiveAnswer` or `DecodePanics`), where a request is taken as the client wrote
it and an answer's framing is sound, broken or oversized.

**State of `EnclaveProver`.** `pc[c]` is where connection c's thread is: `idle`,
`reading` (in `read_http_request`), `opening` (about to make the attester),
`connecting`, `fetching`, `attesting`, `replying`, then `answered` or `dropped`.
A thread's steps are separated where it waits for something outside: the
client, `/dev/nsm`, the TCP connection, Coinbase, the NSM. `request`, `attester`,
`answer` and `payload` are the thread's locals, `nsm_fds` the open handles,
`quiet` whether a read timeout's worth of silence has passed. `observed` and
`issued` are history: which answers came over a verified connection and when,
and which documents were made for which payload bytes. No action reads them.

**Actions.** `Accept`, `ReadRequest` and `ReadFails` are `run_http_server` and
`handle_connection` up to the parsed request; `OpenAttester`/`OpenFails` the second
request check and `RealNsmAttester::open` (or the mock's timestamp, taken here,
before the fetch); `ConnectCoinbase`/`ConnectFails` the TCP connection;
`CoinbaseAnswers`, `CoinbaseQuiet`, `CoinbaseDrips` are the server's;
`ReadTimesOut` and `FetchFails` end the read loop with an error;
`ReceiveAnswer` is the decoding and all checks of `Prover::prove` in their
order; `Attest`/`AttestFails` the NSM; `WriteReply`/`WriteFails` the response.
Every way out of `prove()` goes through `Leave`, which includes the `Drop` of
the attester: `Return` with a reply, and `DecodePanics`, in which the thread
unwinds without one. `RunOnce` is `enclave-prover --once`, a process of its own
that calls `prove()` without the API's checks before it, for a given range or
for the last completed bucket. `RestartEnclave` is `choracle-run-enclave.sh`.

**`VerifyProof`.** `args` is the command line: the list of `--pcr` options, each
an index and a value or text that `parse_pcr` refuses, the artifact, both skews.
`collect` is the `BTreeMap` made of the list, in which the last of equal indices
stays. `Main` is one run; the artifact is in the mock format, whose times may be
any i64.

**`ProofOracle`.** Four variables: a clock, a market, the quotes seen and the
statements endorsed. `Quote` looks at the market as it stands; `Endorse` adds one
statement within the skew of a quote. The mapping takes `market` to the candles
it stands for, `quotes` to what the release enclave observed and could select a
candle from, and `endorsed` to what some verifier would accept of all the
bundles that can be put together.

**`RequestReader`.** `stream` is the request as the client wrote it, `bytes` the
vector. `Read(n)` is one `read` of any length with the two checks after it, in
their order; `EndOfStream` a `read` of 0, which ends the loop without an error
wherever the request stands; `Parse` the rest of the function. Bytes are ASCII
characters, "SP" being the space and "HTTP/" two of them, one byte that is never
UTF-8, and the two bytes of a character, so that a read can stop inside it.

**`HttpResponse`.** First the server frames a body as its headers say
(`SendRaw`, `SendChunk`, `SendOversize`, `SendLast`), then the connection ends
with any prefix delivered (`Arrives`, `ArrivesWithoutHead`), then the client runs:
`ParseHead`, one step per chunk (`TakeChunk`, or one of its failures,
`ChunkPanics` when `pos + size + 2` has wrapped), `LastChunk`, and `CheckBody`
for `Content-Length` and JSON. The sum is taken modulo `USIZE_MAX + 1`, since the
release build does not check it. The server spells a size line as spaces, a sign,
digits, spaces and an extension (`SizeLine`); what the client makes of the line is
`SizeOf`. `MaxWire` bounds a response, and with it the server's sending.
`EnclaveProver` knows of all this as the framings "bad" and "oversize".

**`RuntimeConfig`.** `server` and `enclave` are the positions of the two
processes, `queue` the listen backlog, `peer` and `left` the accepted connection
and what is still to be written to it, `link` and `wire` the client's end. One
`write` may take less than it was given; an enclave that ends leaves connections
which the server still accepts and then fails on (`WriteFails`: the whole server
returns the error), and a server that ends (`ServerDies`) closes or resets what it
had open. `fetch_fqdn_with_retry` sleeps and tries again; with no attempt left
the entrypoint fails and the enclave is started anew.

**`EnclaveBoot`.** nitriding is "off", "waiting" for the app, or "public".
`Bind` comes before the first call; a call is refused (`ConnectRefused`), breaks
before or after nitriding acted on it (`CallBreaks`), or returns a status.
A repeated ready call is answered with a status of `RepeatStatuses`: with
another status than 200 a lost answer would use up all the attempts, and the
prover would end behind an open port.

**Abstractions.**

* Bytes are symbolic. base64 and JSON are tagged pairs, so decoding is defined
  only on what was encoded. Digests are collision free. A certificate is a
  record, and signatures are "who signed".
* The payload fields that the prover fills with crate constants and the
  verifier compares with the same constants are one field, `labels`.
* One price stands for the four prices of a candle; decimal texts are numbers.
  Volume and the positivity of prices are kept.
* The TLS handshake and the server's answer are one step. What matters of their
  order is kept: the chain is valid when the answer is made, and any time may
  pass before the thread has read all of it.
* Broken HTTP framing is one fault of an answer in `EnclaveProver`; how it comes
  about is `HttpResponse`.
* In `RuntimeConfig` a character is a letter or digit, a hyphen, a dot, a newline
  or one of the rest; the connection is a sequence of them.
* Coinbase is truthful in its candles, its Date (to the second) and its
  certificates; otherwise it answers badly in each way the code looks at: bad
  framing, other statuses, content types, absent or unreadable Date, bodies that
  are not JSON or hold no candles, no rows, several rows in any order, rows that
  are malformed in each field check.
* The error text decides between 500 and 502 in the code; `NamesCoinbase` is the
  set of errors whose text has one of the marker words.
* The nonce is its length, the one thing the verifier looks at.
* Of UTF-8, `RequestReader` has one character of two bytes, which is no white
  space; of white space, the space, CR and LF. In `HttpResponse` all bytes are
  ASCII, so that decode_chunked's check that a size line is UTF-8 never fails.
  Its JSON is one bracketed value without others inside; a body that is a bare
  number, which could be cut to a shorter number, is not among them (the prover
  wants an object).
* In `Verify` a Nitro timestamp is good when it is an i64, where the code wants a
  year that `from_unix_timestamp` takes; PCR indices need no conversion; a mock
  document whose indices, hex or base64 do not decode is a text that is not a
  mock document.
* `VerifyProof` runs the command with `--mock-attestation`, where the attested time
  is any i64; the Nitro branch is judged in `ProofSystem`.

## 3. Runs

| Run | Checks | Instance |
|---|---|---|
| `answers` | `TypeOK`, `ServedProofVerifies` | one connection or `--once` run, every fault of a request or an answer, NSM clock up to 1 s ahead |
| `two_clients` | `AcceptedWasObserved`, `AcceptedCandleIsFinal`, `ImplementsOracle`, `HistoricalProofsRemainVerifiable` | two connections, a moving market, one restart |
| `other_images` | `AcceptedWasObserved` | one connection, one restart, one document made outside the release enclave |
| `mock` | `ServedProofVerifies`, `DefaultProofIsFinal` | `--mock-attestation` on both sides, requests and `--once` runs, two buckets |
| `liveness` | `NsmFdsAreHeld`, `ProveReturns` | two connections, all faults of an answer's head, a panic, one restart, fairness |
| `public_api` | `TakesExactlyTheDocumented` | every query of up to five pieces out of sixteen |
| `verify_proof` | `TimesMeetLimits`, `LimitsSuffice`, `ImageIsPinned` | all times and signed skews of a 4-bit "i64"; missing, repeated, malformed and superfluous PCRs |
| `proof_oracle` | `EndorsedIsFinal` | one bucket, two prices, three seconds |
| `request_reader` | `ActsOnWhatWasAsked`, `ShortRequestIsTaken`, `BufferIsBounded` | 224 requests of 7 to 23 bytes, with a character of two bytes in the target, in a header or behind the headers, reads of up to 4, a limit of 14 |
| `http_response` | `BodyIsWhatWasSent`, `HonestBodyIsTaken` | three bodies, ten heads, up to two chunks, an 8-bit usize |
| `enclave_boot` | `TypeOK`, `NameIsServed`, `PublicMeansListening`, `NameArrives`, `ServiceComesUp` | nine names, two deaths of the server, two terminations, two lost ready calls of three, fairness |

What they show:

* **`ServedProofVerifies`.** The service may answer 200 with a bundle the
  verifier refuses: it does not compare the first candle's time with the
  request, does not parse Date, and does not look at the skew or at the chain's
  validity at the attested time. The property says these four are the only
  reasons: in every other case a 200 of the release enclave verifies, for the
  candle that was asked for, on every clock that is not more than the future
  skew behind. That includes answers whose second row is malformed, since the
  verifier's scan stops at the first match.
* **`AcceptedWasObserved`.** The verifier is given every payload ever attested
  beside every document ever made, by the release enclave, by another image, by
  an enclave in debug mode, and by a signer with a root of its own, on
  several clocks. Whatever it accepts, the release enclave received from a
  server with a valid chain, for that request, with that body and Date, within
  the skew of the attested time.
* **`AcceptedCandleIsFinal`.** A bundle may state a candle that is still moving.
  One attested at least `max_skew` after the bucket's end states the final
  candle, however slow the answer was. A consumer can rely on this rule.
* **`ImplementsOracle`.** The detailed system refines `ProofOracle`: every step of
  a thread, the market, a restart or an outside signer is invisible to somebody
  who only verifies bundles, or is one of the oracle's four steps. So nothing
  becomes acceptable that is not within the skew of a quote, one bundle at a time,
  and nothing acceptable stops being so. **`EndorsedIsFinal`** is what the oracle's
  own steps imply.
* **`DefaultProofIsFinal`.** What `--once` without arguments proves is final at
  whatever second it was started and however long it took.
* **`NsmFdsAreHeld`.** Handles are open exactly while their thread is inside
  `prove()`, on every return, on a panic in the decoder, and across restarts.
* **`HistoricalProofsRemainVerifiable`.** No passing of time and no expiry makes
  an accepted bundle refused.
* **`ProveReturns`.** A parsed request leads to a result unless Coinbase sends a
  few bytes within every timeout for ever.
* **`TakesExactlyTheDocumented`.** The parser takes a request exactly when the
  four parameters stand there once each, in any order, and name one aligned
  candle.
* **`TimesMeetLimits`, `LimitsSuffice`.** Wrapping differences and a negative
  `abs()` never let a time through or keep one out: the sign check inside
  `verify_tls_certificate_chain` comes before the skew is used.
* **`ImageIsPinned`.** OK is said only of a document whose PCR0, PCR1 and PCR2 the
  operator named, the last of repeated options counting; `LimitsSuffice` is the
  converse.
* **`ActsOnWhatWasAsked`, `ShortRequestIsTaken`, `BufferIsBounded`.** TCP's cuts and a
  client's early close never make a request into another one: a target cut
  short lacks its version. A UTF-8 request whose headers end within the limit is
  taken, with whatever follows them in the same read, unless that read stops
  inside a character: the code asks for UTF-8 of all that was read, the part of a
  body that came along included, so the same request is taken or refused by where
  TCP cut it. The property states this as its one exception, and TLC finds it
  when the exception is left out. The buffer may pass the limit by one read and
  no more.
* **`BodyIsWhatWasSent`, `HonestBodyIsTaken`.** A body is what the server said,
  or is refused; where nothing states its length, JSON's own brackets do, and
  what is lost can only be white space. A chunk size that makes the sum wrap
  passes the length check, but the slice behind it panics, so that the thread
  ends without a response and never with a body. Extensions, padding, signs
  and bodies that look like chunk ends are no obstacle.
* **`NameIsServed`.** nitriding gets a valid name. It is the parent's, except that
  a server killed between two writes leaves a prefix, which the client cannot
  tell from a name: the newline that the server sends is trimmed and not
  required.
* **`NameArrives`, `ServiceComesUp`, `PublicMeansListening`.** Clients that went away
  bring the server down, a server that is down uses up attempts, and a fetch out
  of attempts brings the enclave down; all the same, once these stop, every
  enclave gets its name and goes public, and the port is never open without a
  prover that has bound its listener. The last two hold as long as fewer calls are
  lost than the prover makes and a repeated call is answered 200
  (`MaxLosses < NITRIDING_READY_RETRIES`, `RepeatStatuses = {200}`).

**Bounds.** A candle lasts 2 s and the skew is 1 s, so that a history of 3 or 4
seconds has an open bucket, its end, and an attestation more than a skew after
it; an answer made in the open bucket can be attested inside the skew, at its
edge, and past it. A TLS leaf ends with second 3 and, where there are two chains,
is replaced at 2; histories of 4 seconds see it expire before the attestation. NSM
certificates live for 1 s and are long expired at the last verifier time, 9.
Two rows are enough for "first row" and "some row" to differ. An answer's head
has one fault at a time: the code's checks are a sequence of early returns, so
a second fault is never looked at. Two connections are the least with which a
bundle can be put together from two proofs; the theorem covers any number. Up
to five query pieces cover each parameter missing, replaced, or repeated beside
the other three. Names have up to 5 characters with limits of 4 and 2: one name of
maximal length, one with a valid proper prefix, and one for each refusal. Two
terminations leave two connections behind, a full backlog of 2. Three attempts
and two losses are enough for an answer lost after nitriding went public. An
8-bit usize has sizes below the response's length, above it, and at its end, in
a first and in a second chunk, and `MaxWire` is more than the longest response with
two chunks; a request limit of 14 bytes lies one before, at and
one after the end of some request's headers. The small `I64_MAX` of `verify_proof` lets TLC try every attested time; the theorem
covers every width.

**Deadlock** checking is off: clock, connections and restarts are bounded, and
a history in which every connection is done and the clock has reached its bound
has no next step. `ProveReturns` is what says that no thread is stuck, and
`ServiceComesUp` that no enclave is; the other models run to a verdict and end.

**Fairness of `ProofSystem`** (`FairSpec`, used by `liveness`). Weak fairness per connection
of `ThreadStep` (the thread's own code, opening `/dev/nsm`, the NSM's answer and
the TCP connection, which the kernel bounds), of `CoinbaseQuiet` (real time
passes, so a silence grows to the read timeout) and of `ReadTimesOut` (the
timeout that `connect_coinbase` sets). None is assumed of Coinbase answering,
of clients sending a request or reading a reply: the code sets no timeout on
the client's socket. Drips are excluded explicitly in the property, since each
read has its own timeout and the code has no overall one.

**Fairness of `EnclaveBoot`** (`FairSpec`). Weak fairness of the server's and the
client's own steps, where systemd's `Restart=always` is what starts both again
and a sleep is what ends; of nitriding starting, starting the app and answering;
of the prover's steps. None is assumed of faults, which are bounded instead:
deaths, terminations and lost calls may happen at any moment up to their bound,
and the properties say what follows when they have stopped. `send_local_http`
reads without a timeout, so that nitriding's answer (or the loss of the
connection) is an assumption. systemd also restarts the enclave when the
services it `Requires=` are restarted; for the model this is one more
termination. `MaxLosses` is less than `NITRIDING_READY_RETRIES`: with as many
losses as attempts the prover gives up, as the code says.

**Mutants.** An operator named `Definition_Change`, standing before a
definition, is that definition with a plausible slip in the code: a dropped
guard, a lost `Drop`, the verifier's clock in place of the attested time, the
last of two equal parameters winning. Each property fails when its
mutant takes the definition's place; `PROJECT.json` names the pairs.

## 4. Theorems

All are for every value of the constants under the named assumptions, which TLC
evaluates in the runs. In particular they hold for any number of connections,
restarts, outside documents, retries, query pieces and bytes, and for any history
length.

**Assumptions.** `FormatAssumption`, `CoinbaseAssumption`, `ProverAssumption`,
`SystemAssumption`, `OracleAssumption`, `ReaderAssumption`, `RuntimeConfigAssumption` and
`BootAssumption` say that bounds are naturals, that at least one of the other
image's PCRs differs from the release's, that the other signer's root is not
AWS's, that malformed rows do not parse as candles and that bodies without candles
have none. Four say more:

* `ReleaseAssumption`: limits and clocks are i64 (the options are parsed as i64,
  `now_utc` is one, and the NSM's milliseconds divided by 1000 always fit);
  the release's PCR0, PCR1 and PCR2 have been measured, so they are there and not
  zero; AWS's root signs with ECDSA and SHA-384 and does not expire within the
  model's time (the real one is valid until 2049). Only `ServedProofsVerify` needs
  it: safety against wrong proofs does not depend on it.
* `VerifyProofAssumption`: a `--pcr` option is an index and a value or something
  `parse_pcr` refuses, and Coinbase's certificate is for its host name under a
  public root. The latter is for the converse theorem only.
* `TargetAssumption` (`MCPublicApi`): paths and pieces have the forms that
  `PublicApi` gives them, and text that `parse::<i64>` reads is an i64.
* `ServerAssumption` and `HttpAssumption` (`HttpResponse`): a response fits a usize
  (it is in memory); the server writes sizes in hexadecimal, as HTTP has it, with
  what the code takes besides; an oversized size is more than any response holds,
  or no number; the last Content-Length, if it is a number, leaves nothing of the
  body out; and a body is not a JSON value with something else behind it. The last
  two are needed: a server that understates its Content-Length, or sends more after
  its JSON without a length, can be cut where the client cannot tell. None of them
  speaks of what the code reads, which is for the proof to show.

**The proof system.**

* `TypeCorrect` (`Spec => []TypeOK`). `TypeOK` leaves open that `request`,
  `answer`, `payload` and `reply` are functions on the connections, which every
  `EXCEPT` needs; `Shape` adds it and `Types` is the inductive form. `Checked`
  is the part that a request inside `prove()` passes `validate_request`, which
  `--once` needs since no API stands before it. `ApiAnswers` says what the parser
  may answer.
* `NsmHandlesAreHeld` (`Spec => []NsmFdsAreHeld`), inductive together with
  `Shape`.
* `AcceptedProofsWereObserved` (`Spec => []AcceptedWasObserved`). Acceptance
  alone says nothing about the past, so the invariant carries a trail. `EInv`
  is `Types` and `Evidence`: every answer on its way and every payload about to
  be attested describes an observation by the image that runs (`Trail`), and
  every issued document is the mock's or the release enclave's over a payload
  that describes a release observation, or another image's, or the other
  signer's (`Provenance`). From it, `AcceptedIsGenuine` uses the digest check to
  tie the payload to the document it is shown with, the PCR and zero-PCR checks
  to exclude the other images and debug mode, and the pinned root to exclude the
  other signer; `SkewIsExact` turns the wrapping skew into an exact one.
* `HistoricalProofs` (`Spec => HistoricalProofsRemainVerifiable`).
  `LaterClockAccepts` shows that `verify_bundle` is monotone in `now`, which
  enters one check only.
* `SystemIsAnOracle` (`Spec => ImplementsOracle`). With `EInv` as the invariant,
  `EndorsedAsIssued` reduces all recombined bundles to those whose payload and
  document were issued together, since the digest ties them; `AcceptedIsBacked`
  makes the observation behind such a bundle the quote behind its statement.
  Then `Attest` and an outside signer's document are one `Endorse` or invisible
  (`IssuingEndorses`), `CoinbaseAnswers` is a `Quote` or invisible
  (`AnsweringQuotes`, from `SeenIsTheMarket`: the first row of a truthful answer
  is the market's candle), clock and market steps map to the oracle's own, and
  every other step changes nothing the oracle sees (`InvisibleSteps`).
* `AcceptedCandlesAreFinal` (`Spec => []AcceptedCandleIsFinal`). Nothing new about
  the system is needed: `Promise` instantiates `ProofOracleProofs` under the same
  mapping, so `OracleInv` holds of the mapped state, and an accepted bundle is an
  endorsed statement.
* `DefaultProofsAreFinal` (`Spec => []DefaultProofIsFinal`). `Threads` ties each
  thread's reply to its own request: a 200 was built from an observation made for
  that request, and after it began. A `--once` run without arguments asks for a
  completed bucket, so `OracleInv` makes what it saw the final candle.
* `ServedProofsVerify` (`Spec => []ServedProofVerifies`). From `Threads` the bundle
  and from `Contained` (the first row is a row of the body) the candle;
  `PayloadPasses`, `SignedPasses` and `TimesPass` go through the verifier's checks
  one by one, so that the four conditions in the property are shown to be all that
  can be missing.
* `StatementsAreFinal` (`Spec => []EndorsedIsFinal` in `ProofOracle`). Inductive is
  `OracleInv`: every quote is the market's candle or was made while its bucket was
  open, and every statement is within the skew of a quote.

**The command and the API.**

* `LimitsAreExact`, `LimitsAreEnough` and `ImagesArePinned` (`TimesMeetLimits`,
  `LimitsSuffice`, `ImageIsPinned` in `VerifyProof`), for every width of the
  integers and every list of options. `Judged` says that the verdict is that of
  `verify_bundle` on inputs of their types; the rest is what `verify_bundle` implies
  and what suffices for it. `LastExists` and `LastCounts` are about the
  `BTreeMap`: the last option for an index is the one that stays.
* `ExactlyTheDocumented` (`TakesExactlyTheDocumented` in `MCPublicApi`), for queries
  of any length. A query that passes has four different keys and no others, so it
  has four places; a documented one has four places with four different pieces, so
  no key is repeated.

**Reading a request.** Inductive for `BufferBound` (`BufferIsBounded`) is that the
limit has not been passed while the loop goes on. `OnlyWhatWasAsked` and
`ShortRequestsAreTaken` (`ActsOnWhatWasAsked`, `ShortRequestIsTaken`) need where the
bytes of a request line stand: `PartsStand` derives it from how the line is put
together, `FirstLine` and `Starts` find in every beginning of it the line and the
places where words begin, and `LineReads` says what `Parse` makes of that beginning:
with a third word the first two are complete. `HeaderEndIsBehind` shows that
the end of the headers cannot be seen before the line's own end, and
`WholeRequestParses` that a beginning which does not stop inside a character is
UTF-8 if the whole is. `Progress` is the invariant of the loop: what was read is a
beginning of what was written.

**Decoding a response** (`HttpResponse`). `ResponsesAreWhatWasSent` and
`HonestResponsesAreTaken` (`BodyIsWhatWasSent`, `HonestBodyIsTaken`), for bodies of any
length, any number of chunks and every width of a usize. The wire alone does not tell
chunk ends from bytes of the body that look like them, so the invariant `HttpInv`
carries `Chain`: where in the wire the chunks end and how much of the body stands
before each end. `ChainGrows` extends it by the chunk the server puts. When the
connection has ended, the client has a beginning of that wire (`Arrived`), and
`Reached` says that the decoder stands at one of the ends, with the body up to there
in hand and every line that claims too much still before it. `Decoding` goes through
what one step can meet there; `LineFound` shows that the first CRLF from an end on is
that of the size line, and `SizeLineReads` that spaces, sign and extension leave the
line's number, or nothing if it is no usize. So the sum wraps only for a claim, and
no claim can be passed. `SameValue` is the case without a length: two JSON texts,
one the beginning of the other, have the same value.

**The enclave's start** (`EnclaveBoot`).

* `BootTypes` (`TypeOK`): `Counted` adds that an attempt is under way only while one
  is left.
* `PublicIsServed` (`PublicMeansListening`), under `MildFaults`: fewer calls are
  lost than the prover makes, and nitriding answers a repeated call with 200.
  Both are what section 3 says of the run; without either the prover can give up
  behind an open port. `Signalled` says that each attempt before the current one
  has cost a loss.
* `NameIsTheParents` (`NameIsServed`): `Delivered` says that at most one connection
  is live and that what was written to it and what is left make up the name and
  its newline, however the writes were cut.

**Only model-checked.** `ProveReturns`, `NameArrives` and `ServiceComesUp` are liveness
properties under fairness, which the prover does not reach. That `HexValue` is a
number's value is its definition; nothing is proved of it by induction.

## 5. Not modelled

* A client that sends nothing keeps its thread, and threads are not bounded: the
  code sets no timeout and no limit here, so there is nothing to state beyond
  what `BufferIsBounded` says of memory.
* The deployment's one-shot units (building the image, exposing ports) and
  gvproxy: they run once before the services modelled, or are not part of the
  repository. The platform without vsock (`mod vsock` for other systems), where
  every call fails.
* Wording: error texts beyond the choice of a status, logging, output formats.
* The primitives behind the symbols: P-384, X.509 path building, TLS, CBOR.
* nitriding, the NSM and AWS: outside the repository; present as far as the code
  in `src/` uses them.
* The reproducible build and the Terraform resources have no behaviour of their
  own. Their result is the constant `ReleasePcrs`.

## 6. Plan

All of the code that changes state is modelled, and every safety property that a
run checks is proved; liveness stays with TLC. What remains is to keep both beside
the code: a change to a handler is a change to its action, its runs and its step in
the proofs.

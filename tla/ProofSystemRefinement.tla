------------------------- MODULE ProofSystemRefinement -------------------------
(***************************************************************************)
(* ProofSystem implements ProofOracle, for every value of the constants,   *)
(* what follows for the candles that proofs state, and what the bundle in  *)
(* a reply has to do with the request it answers.                          *)
(***************************************************************************)
EXTENDS ProofSystemProofs, SequenceTheorems

-----------------------------------------------------------------------------
(* What the release code reads out of a truthful answer. *)

\* A full row reads as the candle it was made from.
LEMMA TrueRowParses ==
  ASSUME NEW b \in Nat, NEW p \in Nat \ {0}
  PROVE  parse_candle_object(CandleRow(b, p)) = Ok(CandleAt(b, p))
<1> DEFINE row == CandleRow(b, p)
           object == row[2]
<1>1. row[1] = "object"
  BY DEF CandleRow
<1>2. DOMAIN object = {"start", "low", "high", "open", "close", "volume"}
  BY DEF CandleRow
<1>3. /\ object["start"] = <<"string", b>>
      /\ object["volume"] = <<"string", 0>>
      /\ \A f \in PriceFields : object[f] = <<"string", p>>
  BY DEF CandleRow, PriceFields
<1> HIDE DEF object
<1>4. \A i \in 1 .. Len(FieldOrder) :
        /\ FieldOrder[i] \in DOMAIN object
        /\ is_readable(FieldOrder[i], object[FieldOrder[i]])
  BY <1>2, <1>3 DEF FieldOrder, PriceFields, is_readable, is_numeric
<1>5. /\ \A f \in PriceFields : is_positive(object[f])
      /\ is_non_negative(object["volume"])
  BY <1>3 DEF is_positive, is_non_negative, is_numeric
<1>6. parse_candle_object(row)
        = Ok([time |-> object["start"][2], low |-> object["low"][2],
              high |-> object["high"][2], open |-> object["open"][2],
              close |-> object["close"][2], volume |-> object["volume"][2]])
  BY <1>1, <1>4, <1>5 DEF parse_candle_object, object
<1> QED
  BY <1>3, <1>6 DEF CandleAt, PriceFields

\* What the world's assumptions say of the sets a candle is made from.
LEMMA MarketTypes ==
  ASSUME market \in [Buckets -> Prices], NEW b \in Buckets
  PROVE  b \in Nat /\ market[b] \in Nat \ {0}
<1>1. market[b] \in Prices
  OBVIOUS
<1> QED
  BY <1>1, CoinbaseAssumption, Zenon

\* The first candle of an answer that parses is the market's, as it stands.
LEMMA SeenIsTheMarket ==
  ASSUME market \in [Buckets -> Prices],
         NEW body \in Bodies, is_json(body), select_candle(from_json(body)).ok
  PROVE  \E b \in Buckets :
           /\ b <= clock
           /\ select_candle(from_json(body)) = Ok(CandleAt(b, market[b]))
<1>1. from_json(body)[1] = "candles" /\ from_json(body)[2] # <<>>
  BY DEF select_candle, Err
<1>2. body \notin OtherBodies
  BY <1>1, CoinbaseAssumption, Zenon
<1>3. PICK n \in 0 .. MaxRows :
        \E rows \in [1 .. n -> TrueRows \cup MalformedRows] :
          body = to_json(<<"candles", rows>>)
  BY <1>2 DEF Bodies
<1>4. PICK rows \in [1 .. n -> TrueRows \cup MalformedRows] :
          body = to_json(<<"candles", rows>>)
  BY <1>3
<1>5. from_json(body)[2] = rows
  BY <1>4 DEF from_json, to_json
<1>6. n \in Nat
  BY CoinbaseAssumption
<1>7. rows \in Seq(TrueRows \cup MalformedRows) /\ Len(rows) = n
  BY <1>4, <1>6
<1>8. n # 0
  BY <1>1, <1>5, <1>7
<1>9. rows[1] \in TrueRows \cup MalformedRows
  BY <1>4, <1>6, <1>8
<1>10. select_candle(from_json(body)) = parse_candle_object(rows[1])
  BY <1>1, <1>5 DEF select_candle
<1>11. rows[1] \notin MalformedRows
  BY <1>10, CoinbaseAssumption, Zenon
<1>12. PICK b \in Buckets : b <= clock /\ rows[1] = CandleRow(b, market[b])
  BY <1>9, <1>11 DEF TrueRows
<1>13. b \in Nat /\ market[b] \in Nat \ {0}
  BY <1>12, MarketTypes
<1> QED
  BY <1>10, <1>12, <1>13, TrueRowParses

-----------------------------------------------------------------------------
(* The mapping.  Quotes and Endorsed are functions of the two histories,   *)
(* so that a step which adds to neither is a step of the clock or of the   *)
(* market, or invisible.                                                   *)

OracleVars == Oracle!oracleVars

\* The statement of one bundle, and whether some verifier takes it.
Statement(bundle) ==
  [candle |-> PayloadOf(bundle).selected_candle, at |-> AttestedAt(bundle)]
Acceptable(bundle) == \E now \in VerifierTimes : Accepts(bundle, now)
Made(x) == ProofBundle(x.payload, x.document)

\* Of all pairs of a payload and a document, those that can be accepted are
\* those that were issued together.
EndorsedAsIssued ==
  Endorsed = {Statement(Made(x)) : x \in {y \in issued : Acceptable(Made(y))}}

\* The digest in the document ties it to its payload.
LEMMA EndorsedAreIssued == EInv => EndorsedAsIssued
<1> SUFFICES ASSUME EInv PROVE EndorsedAsIssued
  OBVIOUS
<1>1. \A x, y \in issued : \A now \in VerifierTimes :
        Accepts(ProofBundle(x.payload, y.document), now) => x.payload = y.payload
  BY AcceptedIsGenuine DEF EInv, Evidence
<1> QED
  BY <1>1 DEF EndorsedAsIssued, Endorsed, Circulating, Statement, Acceptable, Made

\* An acceptable bundle repeats a quote, dated within the skew.
EndorsedAreBacked ==
  \A bundle \in Circulating : Acceptable(bundle) => Statement(bundle) \in Oracle!Backed

\* The observation behind a bundle is the quote behind its statement.
LEMMA AcceptedIsBacked == EInv => EndorsedAreBacked
<1> SUFFICES ASSUME EInv, NEW bundle \in Circulating, NEW now \in VerifierTimes,
                    Accepts(bundle, now)
             PROVE  Statement(bundle) \in Oracle!Backed
  BY DEF EndorsedAreBacked, Acceptable
<1> DEFINE candle == PayloadOf(bundle).selected_candle
           t == AttestedAt(bundle)
<1>1. WasObserved(bundle)
  BY EvidenceSuffices DEF AcceptedWasObserved
<1>2. PICK o \in observed :
        /\ o.image = "release"
        /\ is_json(o.answer.body)
        /\ select_candle(from_json(o.answer.body)) = Ok(candle)
        /\ t - o.at \in -MaxSkew .. MaxSkew
  BY <1>1 DEF WasObserved
<1>3. SeenCandle(o).ok /\ SeenCandle(o).val = candle
  BY <1>2 DEF SeenCandle, Ok
<1>4. o.at \in Int
  <2>1. o.at \in 0 .. clock /\ clock \in 0 .. MaxTime
    BY DEF EInv, Types, WorldTypes
  <2> QED
    BY <2>1
<1>5. t \in Int
  <2>1. PICK x, y \in issued : bundle = ProofBundle(x.payload, y.document)
    BY DEF Circulating
  <2>2. VerifiedAttestation(Verifier, y.document).timestamp_unix \in 0 .. I64_MAX
    BY <2>1, AcceptedIsGenuine DEF EInv, Evidence
  <2>3. t = VerifiedAttestation(Verifier, y.document).timestamp_unix
    BY <2>1 DEF AttestedAt, DocumentOf, ProofBundle, b64_encode, b64_decode
  <2> QED
    BY <2>2, <2>3, FormatAssumption
<1> HIDE DEF candle, t
<1>6. [candle |-> candle, at |-> o.at] \in Quotes
  BY <1>2, <1>3 DEF Quotes
<1>7. t = o.at + (t - o.at)
  BY <1>4, <1>5
<1>8. [candle |-> candle, at |-> t] \in Oracle!Backed
  BY <1>2, <1>6, <1>7 DEF Oracle!Backed
<1> QED
  BY <1>8 DEF Statement, candle, t

\* A document that is made, by whomever, makes at most one statement
\* acceptable, and that one is backed.
LEMMA IssuingEndorses ==
  ASSUME EInv, EInv', NEW x, issued' = issued \cup {x},
         UNCHANGED <<clock, market, observed>>
  PROVE  [Oracle!Next]_OracleVars
<1>1. EndorsedAsIssued /\ EndorsedAsIssued' /\ EndorsedAreBacked'
  BY EndorsedAreIssued, AcceptedIsBacked, PTL
<1>2. \A y : Statement(y)' = Statement(y) /\ (Acceptable(y)' <=> Acceptable(y))
  BY DEF Statement, Acceptable
<1>3. UNCHANGED Quotes
  BY DEF Quotes, SeenCandle
<1>4. Acceptable(Made(x)) => Statement(Made(x)) \in Oracle!Backed'
  BY <1>1, <1>2 DEF EndorsedAreBacked, Circulating, Made
<1>5. Oracle!Backed' = Oracle!Backed
  BY <1>3 DEF Oracle!Backed
<1>6. CASE Acceptable(Made(x))
  <2>1. Endorsed' = Endorsed \cup {Statement(Made(x))}
    BY <1>1, <1>2, <1>6 DEF EndorsedAsIssued
  <2>2. Oracle!Endorse
    BY <1>3, <1>4, <1>5, <1>6, <2>1 DEF Oracle!Endorse
  <2> QED
    BY <2>2 DEF Oracle!Next
<1>7. CASE ~Acceptable(Made(x))
  <2>1. Endorsed' = Endorsed
    BY <1>1, <1>2, <1>7 DEF EndorsedAsIssued
  <2> QED
    BY <1>3, <2>1 DEF OracleVars, Oracle!oracleVars
<1> QED
  BY <1>6, <1>7

\* An answer that arrives is a quote, if the release code can read a candle out
\* of it, and invisible otherwise.
LEMMA AnsweringQuotes ==
  ASSUME EInv, NEW c \in Conns, NEW a \in Answers, CoinbaseAnswers(c, a)
  PROVE  [Oracle!Next]_OracleVars
<1> DEFINE o == [start |-> request[c].start, at |-> clock, image |-> enclave,
                 answer |-> a]
<1>1. observed' = observed \cup {o} /\ UNCHANGED <<clock, market, issued>>
  BY DEF CoinbaseAnswers, coinbaseVars
<1>2. UNCHANGED Endorsed
  BY <1>1 DEF Endorsed, Circulating
<1>3. o.at = clock /\ o.answer = a
  OBVIOUS
<1> HIDE DEF o
<1> DEFINE Reads == o.image = "release" /\ is_json(o.answer.body) /\ SeenCandle(o).ok
<1>4. CASE Reads
  <2>1. Quotes' = Quotes \cup {[candle |-> SeenCandle(o).val, at |-> clock]}
    BY <1>1, <1>3, <1>4 DEF Quotes, SeenCandle
  <2>2. a.body \in Bodies
    BY DEF Answers
  <2>3. market \in [Buckets -> Prices]
    BY DEF EInv, Types, WorldTypes
  <2>4. PICK b \in Buckets : /\ b <= clock
                             /\ SeenCandle(o) = Ok(CandleAt(b, market[b]))
    BY <1>3, <1>4, <2>2, <2>3, SeenIsTheMarket DEF SeenCandle
  <2>5. SeenCandle(o).val = CandleAt(b, market[b])
    BY <2>4 DEF Ok
  <2>6. Oracle!Quote(b)
    BY <1>1, <1>2, <2>1, <2>4, <2>5 DEF Oracle!Quote
  <2> QED
    BY <2>6 DEF Oracle!Next
<1>5. CASE ~Reads
  <2>1. UNCHANGED Quotes
    BY <1>1, <1>5 DEF Quotes, SeenCandle
  <2> QED
    BY <1>1, <1>2, <2>1 DEF OracleVars, Oracle!oracleVars
<1> QED
  BY <1>4, <1>5

\* A step that leaves the market and both histories alone cannot be seen.
LEMMA InvisibleSteps ==
  ASSUME UNCHANGED <<clock, market, observed, issued>>
  PROVE  [Oracle!Next]_OracleVars
BY DEF OracleVars, Oracle!oracleVars, Quotes, SeenCandle, Endorsed, Circulating

\* Each step of the system maps to a step of the oracle or to none.
LEMMA NextRefines ==
  EInv /\ EInv' /\ [Next]_systemVars => [Oracle!Next]_OracleVars
<1> SUFFICES ASSUME EInv, EInv', [Next]_systemVars PROVE [Oracle!Next]_OracleVars
  OBVIOUS
<1>1. ASSUME NEW c \in Conns, NEW l, Leave(c, l), UNCHANGED issued
      PROVE  [Oracle!Next]_OracleVars
  BY <1>1, InvisibleSteps DEF Leave, coinbaseVars
<1>2. ASSUME NEW c \in Conns, NEW e, Fail(c, e) PROVE [Oracle!Next]_OracleVars
  BY <1>1, <1>2 DEF Fail, Return
<1>3. ASSUME NEW c \in Conns, ThreadStep(c) PROVE [Oracle!Next]_OracleVars
  <2>1. CASE Attest(c)
    <3>1. PICK doc \in AttestationDocs(c, sha384(to_json(payload[c])), NONCE_BYTES) :
            /\ issued' = issued \cup {[payload |-> to_json(payload[c]), document |-> doc]}
            /\ Return(c, [status |-> 200,
                          bundle |-> ProofBundle(to_json(payload[c]), doc)])
      BY <2>1 DEF Attest
    <3>2. UNCHANGED <<clock, market, observed>>
      BY <3>1 DEF Return, Leave, coinbaseVars
    <3> QED
      BY <3>1, <3>2, IssuingEndorses
  <2>2. CASE OpenFails(c) \/ ConnectFails(c) \/ AttestFails(c)
    BY <2>2, <1>2 DEF OpenFails, ConnectFails, AttestFails
  <2>3. CASE DecodePanics(c)
    BY <2>3, <1>1 DEF DecodePanics
  <2>4. CASE OpenAttester(c) \/ ConnectCoinbase(c)
    BY <2>4, InvisibleSteps DEF OpenAttester, ConnectCoinbase, coinbaseVars
  <2>5. CASE ReceiveAnswer(c)
    <3>1. CASE ObservedPayload(request[c], answer[c]).ok
      BY <2>5, <3>1, InvisibleSteps DEF ReceiveAnswer, coinbaseVars
    <3>2. CASE ~ObservedPayload(request[c], answer[c]).ok
      BY <2>5, <3>2, <1>2 DEF ReceiveAnswer
    <3> QED
      BY <3>1, <3>2
  <2> QED
    BY <1>3, <2>1, <2>2, <2>3, <2>4, <2>5 DEF ThreadStep
<1>4. ASSUME NEW c \in Conns,
             \/ Accept(c) \/ ReadFails(c) \/ WriteReply(c) \/ WriteFails(c)
             \/ CoinbaseQuiet(c) \/ CoinbaseDrips(c)
             \/ \E h \in HttpRequests : ReadRequest(c, h)
             \/ \E args \in OnceArgs : OneShot(c, args)
      PROVE  [Oracle!Next]_OracleVars
  <2>1. UNCHANGED <<clock, market, observed, issued>>
    BY <1>4 DEF Accept, ReadFails, WriteReply, WriteFails, CoinbaseQuiet,
                CoinbaseDrips, ReadRequest, OneShot, RunOnce, coinbaseVars
  <2> QED
    BY <2>1, InvisibleSteps
<1>5. ASSUME NEW c \in Conns, ReadTimesOut(c) \/ FetchFails(c)
      PROVE  [Oracle!Next]_OracleVars
  BY <1>5, <1>2 DEF ReadTimesOut, FetchFails
<1>6. ASSUME NEW image, RestartEnclave(image) PROVE [Oracle!Next]_OracleVars
  BY <1>6, InvisibleSteps DEF RestartEnclave, coinbaseVars
<1>7. CASE OutsideAttests
  <2>1. \E x : issued' = issued \cup {x}
    BY <1>7 DEF OutsideAttests
  <2>2. UNCHANGED <<clock, market, observed>>
    BY <1>7 DEF OutsideAttests, coinbaseVars
  <2> QED
    BY <2>1, <2>2, IssuingEndorses
<1>8. CASE Tick /\ UNCHANGED proverVars
  <2>1. UNCHANGED <<observed, issued>>
    BY <1>8 DEF proverVars
  <2>2. UNCHANGED <<Quotes, Endorsed>>
    BY <2>1 DEF Quotes, SeenCandle, Endorsed, Circulating
  <2>3. Oracle!Tick
    BY <1>8, <2>2 DEF Tick, Oracle!Tick
  <2> QED
    BY <2>3 DEF Oracle!Next
<1>9. ASSUME NEW b \in Buckets, NEW p \in Prices, Trade(b, p), UNCHANGED proverVars
      PROVE  [Oracle!Next]_OracleVars
  <2>1. UNCHANGED <<observed, issued>>
    BY <1>9 DEF proverVars
  <2>2. UNCHANGED <<Quotes, Endorsed>>
    BY <2>1 DEF Quotes, SeenCandle, Endorsed, Circulating
  <2>3. market \in [Buckets -> Prices]
    BY DEF EInv, Types, WorldTypes
  <2>4. \A d \in Buckets : market'[d] = IF d = b THEN p ELSE market[d]
    BY <1>9, <2>3 DEF Trade
  <2>5. [d \in Buckets |-> CandleAt(d, market'[d])]
          = [[d \in Buckets |-> CandleAt(d, market[d])] EXCEPT ![b] = CandleAt(b, p)]
    BY <2>4
  <2>6. CandleAt(b, p).time = b
    BY DEF CandleAt
  <2>7. Oracle!Move(b, CandleAt(b, p))
    BY <1>9, <2>2, <2>5, <2>6 DEF Trade, Oracle!Move
  <2> QED
    BY <2>7 DEF Oracle!Next
<1>10. CASE UNCHANGED systemVars
  BY <1>10, InvisibleSteps DEF systemVars, vars, coinbaseVars, proverVars
<1> QED
  BY <1>3, <1>4, <1>5, <1>6, <1>7, <1>8, <1>9, <1>10, AnsweringQuotes
  DEF Next, ProverNext

\* At first nothing has been seen, made or accepted.
LEMMA InitRefines == Init => Oracle!Init
<1> SUFFICES ASSUME Init PROVE Oracle!Init
  OBVIOUS
<1>1. market \in [Buckets -> Prices]
  BY InitTypes DEF Types, WorldTypes
<1>2. Quotes = {} /\ Endorsed = {}
  BY DEF Init, ProverInit, Quotes, Endorsed, Circulating
<1>3. \A b \in Buckets, p \in Prices : CandleAt(b, p).time = b
  BY DEF CandleAt
<1>4. clock = 0
  BY DEF Init, CoinbaseInit
<1>5. \A b \in Buckets : market[b] \in Prices
  BY <1>1
<1>6. [b \in Buckets |-> CandleAt(b, market[b])]
        \in [Buckets -> {CandleAt(b, p) : b \in Buckets, p \in Prices}]
  BY <1>5
<1>7. \A b \in Buckets :
        [d \in Buckets |-> CandleAt(d, market[d])][b].time = b
  BY <1>3, <1>5
<1> QED
  BY <1>2, <1>4, <1>6, <1>7 DEF Oracle!Init

\* The deployed system, with its restarts, foreign images, forged documents and
\* recombined bundles, is an oracle to whoever only runs verify-proof.
THEOREM SystemIsAnOracle == Spec => ImplementsOracle
  BY EInvHolds, InitRefines, NextRefines, PTL
  DEF Spec, ImplementsOracle, Oracle!Spec, OracleVars

-----------------------------------------------------------------------------
(* What the oracle's theorems say of the system. *)

Promise ==
  INSTANCE ProofOracleProofs
  WITH Candles <- {CandleAt(b, p) : b \in Buckets, p \in Prices},
       Granularity <- GRANULARITY_SECONDS,
       market <- [b \in Buckets |-> CandleAt(b, market[b])],
       quotes <- Quotes,
       endorsed <- Endorsed

\* The oracle's invariant, through the mapping.
LEMMA PromiseHolds == Spec => []Promise!OracleInv
<1>0. Promise!OracleAssumption
  BY FormatAssumption, CoinbaseAssumption, SystemAssumption DEF Promise!OracleAssumption
<1>1. Oracle!Init => Promise!Init
  BY DEF Oracle!Init, Promise!Init
<1>2. [Oracle!Next]_OracleVars => [Promise!Next]_Promise!oracleVars
  <2>1. Oracle!Tick => Promise!Tick
    BY DEF Oracle!Tick, Promise!Tick
  <2>2. \A b, candle : Oracle!Move(b, candle) => Promise!Move(b, candle)
    BY DEF Oracle!Move, Promise!Move
  <2>3. \A b : Oracle!Quote(b) => Promise!Quote(b)
    BY DEF Oracle!Quote, Promise!Quote
  <2>4. Oracle!Endorse => Promise!Endorse
    BY DEF Oracle!Endorse, Promise!Endorse, Oracle!Backed, Promise!Backed
  <2>5. Oracle!Next => Promise!Next
    <3> SUFFICES ASSUME Oracle!Next PROVE Promise!Next
      OBVIOUS
    <3>1. CASE \E b \in Buckets, candle \in {CandleAt(d, p) : d \in Buckets, p \in Prices} :
                 Oracle!Move(b, candle)
      BY <3>1, <2>2 DEF Promise!Next
    <3>2. CASE \E b \in Buckets : Oracle!Quote(b)
      BY <3>2, <2>3 DEF Promise!Next
    <3>3. CASE Oracle!Tick \/ Oracle!Endorse
      BY <3>3, <2>1, <2>4 DEF Promise!Next
    <3> QED
      BY <3>1, <3>2, <3>3 DEF Oracle!Next
  <2>6. UNCHANGED OracleVars => UNCHANGED Promise!oracleVars
    BY DEF OracleVars, Oracle!oracleVars, Promise!oracleVars
  <2> QED
    BY <2>5, <2>6
<1>3. Promise!Init => Promise!OracleInv
  BY <1>0, Promise!InitOracle
<1>4. Promise!OracleInv /\ [Promise!Next]_Promise!oracleVars => Promise!OracleInv'
  BY <1>0, Promise!NextOracle
<1> QED
  BY <1>1, <1>2, <1>3, <1>4, InitRefines, NextRefines, EInvHolds, PTL DEF Spec

\* What can be accepted is endorsed, for a bucket of the market.
LEMMA FinalByPromise == Promise!OracleInv => AcceptedCandleIsFinal
<1> SUFFICES ASSUME Promise!OracleInv, NEW bundle \in Circulating,
                    NEW now \in VerifierTimes, Accepts(bundle, now),
                    AttestedAt(bundle) >= PayloadOf(bundle).selected_candle.time
                                            + GRANULARITY_SECONDS + MaxSkew
             PROVE  PayloadOf(bundle).selected_candle
                      = CandleAt(PayloadOf(bundle).selected_candle.time,
                                 market[PayloadOf(bundle).selected_candle.time])
  BY DEF AcceptedCandleIsFinal
<1> DEFINE candle == PayloadOf(bundle).selected_candle
           e == [candle |-> candle, at |-> AttestedAt(bundle)]
<1>0. Promise!OracleAssumption
  BY FormatAssumption, CoinbaseAssumption, SystemAssumption DEF Promise!OracleAssumption
<1>1. e \in Endorsed
  BY DEF Endorsed
<1>2. e.candle = candle /\ e.at = AttestedAt(bundle)
  OBVIOUS
<1> HIDE DEF e, candle
<1>3. candle \in {q.candle : q \in Quotes}
  BY <1>1, <1>2 DEF Promise!OracleInv, Promise!Backed
<1>4. candle.time \in Buckets
  BY <1>3 DEF Promise!OracleInv, Promise!QuotesAreTrue
<1>5. Promise!EndorsedIsFinal
  BY <1>0, Promise!BackedIsFinal
<1>6. candle = [b \in Buckets |-> CandleAt(b, market[b])][candle.time]
  BY <1>1, <1>2, <1>5 DEF Promise!EndorsedIsFinal, candle
<1> QED
  BY <1>4, <1>6 DEF candle

\* Whatever the number of enclaves, restarts and bundles: a proof attested a
\* skew after its bucket's end states the candle that stays.
THEOREM AcceptedCandlesAreFinal == Spec => []AcceptedCandleIsFinal
  BY PromiseHolds, FinalByPromise, PTL

-----------------------------------------------------------------------------
(* Replies and the requests they answer. *)

\* An observation made for c's request, and after that request if it was a
\* --once run without arguments.
Follows(c, o) ==
  /\ o.start = request[c].start
  /\ c \in defaulted => request[c].start + GRANULARITY_SECONDS <= o.at

Built(c, p) ==
  \E o \in observed :
    /\ Follows(c, o)
    /\ ObservedPayload(request[c], o.answer).ok
    /\ p = ObservedPayload(request[c], o.answer).val

\* attest() signed the digest of p, whatever image it belongs to.
Signed(p, doc) ==
  IF MockAttestation
  THEN \E t \in 0 .. MaxTime : doc = MockDocument(t, sha384(to_json(p)), NONCE_BYTES)
  ELSE \E d \in NsmDrifts, pcrs \in {ReleasePcrs, OtherPcrs} :
         \E t \in 0 .. MaxTime + d :
           doc = NsmDocument(pcrs, sha384(to_json(p)), NONCE_BYTES, t)

Served(c) ==
  \E p, doc : /\ reply[c].bundle = ProofBundle(to_json(p), doc)
              /\ [payload |-> to_json(p), document |-> doc] \in issued
              /\ Built(c, p)
              /\ Signed(p, doc)

Done == {"replying", "answered", "dropped"}

Thread(c) ==
  /\ c \in defaulted => /\ pc[c] \notin {"idle", "reading"}
                        /\ request[c].start \in Int
                        /\ request[c].start + GRANULARITY_SECONDS <= clock
  /\ answer[c] # NoAnswer => \E o \in observed : Follows(c, o) /\ o.answer = answer[c]
  /\ pc[c] = "attesting" => Built(c, payload[c])
  /\ reply[c].status = 200 => /\ pc[c] \in Done
                              /\ validate_request(request[c].start, request[c].end)
                              /\ Served(c)

Threads == \A c \in Conns : Thread(c)

\* What a thread has done is not undone by steps that leave it alone.
LEMMA ThreadStays ==
  ASSUME NEW c \in Conns, Thread(c), clock \in Int, clock' \in Int, clock <= clock',
         GRANULARITY_SECONDS \in Int,
         pc'[c] = pc[c], request'[c] = request[c], answer'[c] = answer[c],
         payload'[c] = payload[c], reply'[c] = reply[c],
         c \in defaulted' <=> c \in defaulted,
         observed \subseteq observed', issued \subseteq issued'
  PROVE  Thread(c)'
<1>1. \A o : Follows(c, o)' <=> Follows(c, o)
  BY DEF Follows
<1>2. \A p : Built(c, p) => Built(c, p)'
  BY <1>1 DEF Built
<1>3. Served(c) => Served(c)'
  BY <1>2 DEF Served, Signed
<1>4. c \in defaulted' => /\ pc'[c] \notin {"idle", "reading"}
                          /\ request'[c].start \in Int
                          /\ request'[c].start + GRANULARITY_SECONDS <= clock'
  BY DEF Thread
<1>5. answer'[c] # NoAnswer =>
        \E o \in observed' : Follows(c, o)' /\ o.answer = answer'[c]
  BY <1>1 DEF Thread
<1>6. pc'[c] = "attesting" => Built(c, payload[c])'
  BY <1>2 DEF Thread
<1> QED
  BY <1>3, <1>4, <1>5, <1>6 DEF Thread

\* A thread that goes on, or ends, with nothing new in its hands.
LEMMA ThreadMoves ==
  ASSUME NEW c \in Conns, Thread(c), NEW l, l # "attesting",
         c \in defaulted => l \notin {"idle", "reading"},
         pc'[c] = l, request'[c] = request[c],
         answer'[c] = answer[c] \/ answer'[c] = NoAnswer,
         \/ reply'[c] = reply[c] /\ (reply[c].status = 200 => l \in Done)
         \/ reply'[c].status # 200,
         UNCHANGED <<clock, defaulted, observed, issued>>
  PROVE  Thread(c)'
<1>1. \A o : Follows(c, o)' <=> Follows(c, o)
  BY DEF Follows
<1>2. \A p : Built(c, p) => Built(c, p)'
  BY <1>1 DEF Built
<1>3. reply'[c] = reply[c] /\ Served(c) => Served(c)'
  BY <1>2 DEF Served, Signed
<1>4. answer'[c] # NoAnswer =>
        \E o \in observed' : Follows(c, o)' /\ o.answer = answer'[c]
  BY <1>1 DEF Thread
<1>5. reply'[c].status = 200 =>
        /\ pc'[c] \in Done
        /\ validate_request(request'[c].start, request'[c].end)
        /\ Served(c)'
  BY <1>3 DEF Thread
<1> QED
  BY <1>4, <1>5 DEF Thread

\* Every step keeps each thread's reply tied to its request.
LEMMA NextThreads == EInv /\ EInv' /\ Threads /\ [Next]_systemVars => Threads'
<1> SUFFICES ASSUME EInv, EInv', Threads, [Next]_systemVars PROVE Threads'
  OBVIOUS
<1> USE DEF Threads
<1>1. /\ clock \in Int /\ clock' \in Int /\ GRANULARITY_SECONDS \in Int
      /\ Shape
      /\ \A c \in Conns : answer[c] # NoAnswer => pc[c] = "fetching"
  BY CoinbaseAssumption, FormatAssumption
  DEF EInv, Types, WorldTypes, Evidence, Trail
\* Only c's thread moves; the others keep what they have.
<1>2. ASSUME NEW c \in Conns, Thread(c)', clock <= clock',
             observed \subseteq observed', issued \subseteq issued',
             \A d \in Conns \ {c} :
               /\ pc'[d] = pc[d] /\ request'[d] = request[d]
               /\ answer'[d] = answer[d] /\ payload'[d] = payload[d]
               /\ reply'[d] = reply[d]
               /\ d \in defaulted' <=> d \in defaulted
      PROVE  Threads'
  <2> SUFFICES ASSUME NEW d \in Conns PROVE Thread(d)'
    BY DEF Threads
  <2> QED
    BY <1>1, <1>2, ThreadStays
<1>3. ASSUME NEW c \in Conns, NEW l \in States \ {"idle", "reading", "attesting"},
             NEW r, r.status # 200 \/ r = reply[c], reply[c].status = 200 => l \in Done,
             Leave(c, l), reply' = [reply EXCEPT ![c] = r], UNCHANGED <<issued, defaulted>>
      PROVE  Threads'
  <2>1. UNCHANGED <<clock, request, observed>>
    BY <1>3 DEF Leave, coinbaseVars
  <2>2. \A d \in Conns : /\ answer'[d] = IF d = c THEN NoAnswer ELSE answer[d]
                         /\ payload'[d] = IF d = c THEN NoPayload ELSE payload[d]
                         /\ pc'[d] = IF d = c THEN l ELSE pc[d]
                         /\ reply'[d] = IF d = c THEN r ELSE reply[d]
    BY <1>1, <1>3 DEF Leave, Goto, Shape
  <2>3. Thread(c)'
    BY <1>3, <2>1, <2>2, ThreadMoves
  <2> QED
    BY <1>1, <1>2, <1>3, <2>1, <2>2, <2>3
<1>4. ASSUME NEW c \in Conns, NEW e, Fail(c, e), UNCHANGED defaulted PROVE Threads'
  <2>1. [status |-> error_status(e)].status # 200
    BY DEF error_status
  <2>2. /\ Leave(c, "replying") /\ UNCHANGED issued
        /\ reply' = [reply EXCEPT ![c] = [status |-> error_status(e)]]
    BY <1>4 DEF Fail, Return
  <2> QED
    BY <1>3, <1>4, <2>1, <2>2 DEF States, Done
\* A step of c's program counter and nothing else.
<1>5. ASSUME NEW c \in Conns, NEW l \in States \ {"attesting"}, Goto(c, l),
             c \in defaulted => l \notin {"idle", "reading"},
             reply[c].status = 200 => l \in Done,
             UNCHANGED <<clock, request, answer, payload, reply, observed, issued,
                         defaulted>>
      PROVE  Threads'
  <2>1. \A d \in Conns : pc'[d] = IF d = c THEN l ELSE pc[d]
    BY <1>1, <1>5 DEF Goto, Shape
  <2>2. Thread(c)'
    BY <1>5, <2>1, ThreadMoves
  <2> QED
    BY <1>1, <1>2, <1>5, <2>1, <2>2
<1>6. ASSUME NEW c \in Conns, UNCHANGED defaulted,
             \/ Accept(c) \/ ReadFails(c) \/ WriteReply(c) \/ WriteFails(c)
             \/ OpenAttester(c) \/ ConnectCoinbase(c)
      PROVE  Threads'
  <2>1. UNCHANGED <<clock, request, answer, payload, reply, observed, issued>>
    BY <1>6 DEF Accept, ReadFails, WriteReply, WriteFails, OpenAttester,
                ConnectCoinbase, coinbaseVars
  <2>2. \/ pc[c] = "idle" /\ Goto(c, "reading")
        \/ pc[c] = "reading" /\ Goto(c, "dropped")
        \/ pc[c] = "replying" /\ Goto(c, "answered")
        \/ pc[c] = "replying" /\ Goto(c, "dropped")
        \/ pc[c] = "opening" /\ Goto(c, "connecting")
        \/ pc[c] = "connecting" /\ Goto(c, "fetching")
    BY <1>6 DEF Accept, ReadFails, WriteReply, WriteFails, OpenAttester,
                ConnectCoinbase, At
  <2>3. /\ pc[c] = "idle" => c \notin defaulted
        /\ reply[c].status = 200 => pc[c] \in Done
    BY DEF Thread
  <2> QED
    BY <1>5, <1>6, <2>1, <2>2, <2>3 DEF States, Done
<1>7. ASSUME NEW c \in Conns, NEW h \in HttpRequests, ReadRequest(c, h),
             UNCHANGED defaulted
      PROVE  Threads'
  <2> DEFINE parsed == parse_public_proof_request(h.method, h.target)
  <2>1. /\ pc[c] = "reading" /\ c \notin defaulted /\ reply[c].status # 200
        /\ answer[c] = NoAnswer
    BY <1>1, <1>7 DEF ReadRequest, At, Thread, Done
  <2>2. UNCHANGED <<clock, answer, payload, observed, issued>>
    BY <1>7 DEF ReadRequest, coinbaseVars
  <2>3. /\ pc'[c] # "attesting" /\ reply'[c].status # 200
        /\ \A d \in Conns \ {c} : /\ pc'[d] = pc[d]
                                  /\ request'[d] = request[d]
                                  /\ reply'[d] = reply[d]
    <3>1. CASE parsed.ok
      BY <1>1, <1>7, <2>1, <3>1 DEF ReadRequest, Goto, Shape
    <3>2. CASE ~parsed.ok
      <4>1. parsed.err \in {400, 404, 405}
        BY <3>2, ApiAnswers
      <4>2. /\ reply' = [reply EXCEPT ![c] = [status |-> parsed.err]]
            /\ Goto(c, "replying") /\ UNCHANGED request
        BY <1>7, <3>2 DEF ReadRequest
      <4> HIDE DEF parsed
      <4> QED
        BY <1>1, <4>1, <4>2 DEF Goto, Shape
    <3> QED
      BY <3>1, <3>2
  <2>4. Thread(c)'
    BY <1>7, <2>1, <2>2, <2>3 DEF Thread
  <2> QED
    BY <1>1, <1>2, <1>7, <2>2, <2>3, <2>4
<1>8. ASSUME NEW c \in Conns, ReceiveAnswer(c), UNCHANGED defaulted PROVE Threads'
  <2> DEFINE built == ObservedPayload(request[c], answer[c])
  <2>1. CASE built.ok
    <3>1. PICK o \in observed : Follows(c, o) /\ o.answer = answer[c]
      BY <1>8 DEF ReceiveAnswer, Thread
    <3>2. Built(c, built.val)
      BY <2>1, <3>1 DEF Built
    <3>3. /\ payload' = [payload EXCEPT ![c] = built.val]
          /\ answer' = [answer EXCEPT ![c] = NoAnswer]
          /\ pc' = [pc EXCEPT ![c] = "attesting"]
          /\ pc[c] = "fetching"
          /\ UNCHANGED <<clock, request, reply, observed, issued>>
      BY <1>8, <2>1 DEF ReceiveAnswer, Goto, At, coinbaseVars
    <3> HIDE DEF built
    <3>4. \A d \in Conns : /\ answer'[d] = IF d = c THEN NoAnswer ELSE answer[d]
                           /\ payload'[d] = IF d = c THEN built.val ELSE payload[d]
                           /\ pc'[d] = IF d = c THEN "attesting" ELSE pc[d]
      BY <1>1, <3>3 DEF Shape
    <3>5. \A p : Built(c, p) => Built(c, p)'
      BY <1>8, <3>3 DEF Built, Follows
    <3>6. Built(c, payload[c])'
      BY <3>2, <3>4, <3>5
    <3>7. c \in defaulted => /\ request[c].start \in Int
                             /\ request[c].start + GRANULARITY_SECONDS <= clock
      BY DEF Thread
    <3>8. reply[c].status # 200
      BY <3>3 DEF Thread, Done
    <3>9. Thread(c)'
      BY <1>8, <3>3, <3>4, <3>6, <3>7, <3>8 DEF Thread
    <3> QED
      BY <1>1, <1>2, <1>8, <3>3, <3>4, <3>9
  <2>2. CASE ~built.ok
    BY <1>4, <1>8, <2>2 DEF ReceiveAnswer
  <2> QED
    BY <2>1, <2>2
<1>9. ASSUME NEW c \in Conns, Attest(c), UNCHANGED defaulted PROVE Threads'
  <2>0. PICK p : p = payload[c]
    OBVIOUS
  <2> DEFINE bytes == to_json(p)
  <2>1. PICK doc \in AttestationDocs(c, sha384(bytes), NONCE_BYTES) :
           /\ issued' = issued \cup {[payload |-> bytes, document |-> doc]}
           /\ Return(c, [status |-> 200, bundle |-> ProofBundle(bytes, doc)])
    BY <1>9, <2>0 DEF Attest
  <2>2. pc[c] = "attesting" /\ UNCHANGED <<clock, request, observed>>
    BY <1>9, <2>1 DEF Attest, At, Return, Leave, coinbaseVars
  <2>3. \A d \in Conns :
          /\ answer'[d] = IF d = c THEN NoAnswer ELSE answer[d]
          /\ payload'[d] = IF d = c THEN NoPayload ELSE payload[d]
          /\ pc'[d] = IF d = c THEN "replying" ELSE pc[d]
          /\ reply'[d] = IF d = c THEN [status |-> 200, bundle |-> ProofBundle(bytes, doc)]
                                  ELSE reply[d]
    BY <1>1, <2>1 DEF Return, Leave, Goto, Shape
  <2>4. Built(c, p)'
    BY <1>9, <2>0, <2>2 DEF Thread, Built, Follows
  <2>5. Signed(p, doc)
    <3>1. CASE MockAttestation
      BY <2>1, <3>1 DEF Signed, AttestationDocs, EInv, Types, ConnTypes
    <3>2. CASE ~MockAttestation
      <4>1. PICK d \in NsmDrifts :
              /\ clock + d >= 0
              /\ doc = NsmDocument(ImagePcrs, sha384(bytes), NONCE_BYTES, clock + d)
        BY <2>1, <3>2 DEF AttestationDocs
      <4>2. d \in Int
        BY ProverAssumption, Zenon
      <4>3. clock \in 0 .. MaxTime /\ MaxTime \in Int
        BY CoinbaseAssumption DEF EInv, Types, WorldTypes
      <4>4. clock + d \in 0 .. MaxTime + d
        BY <4>1, <4>2, <4>3
      <4>5. ImagePcrs \in {ReleasePcrs, OtherPcrs}
        BY DEF ImagePcrs
      <4> QED
        BY <3>2, <4>1, <4>4, <4>5 DEF Signed
    <3> QED
      BY <3>1, <3>2
  <2>6. Served(c)'
    BY <2>1, <2>3, <2>4, <2>5 DEF Served, Signed
  <2>7. validate_request(request[c].start, request[c].end)
    BY <2>2 DEF EInv, Types, Checked, InProve
  <2>8. Thread(c)'
    BY <1>9, <2>2, <2>3, <2>6, <2>7 DEF Thread, Done
  <2> QED
    BY <1>1, <1>2, <1>9, <2>1, <2>2, <2>3, <2>8
<1>10. ASSUME NEW c \in Conns, ThreadStep(c), UNCHANGED defaulted PROVE Threads'
  <2>1. CASE DecodePanics(c)
    <3>1. Leave(c, "dropped") /\ UNCHANGED <<reply, issued>>
      BY <2>1 DEF DecodePanics
    <3>2. reply' = [reply EXCEPT ![c] = reply[c]]
      BY <1>1, <3>1 DEF Shape
    <3> QED
      BY <1>3, <1>10, <3>1, <3>2 DEF States, Done
  <2>2. CASE OpenFails(c) \/ ConnectFails(c) \/ AttestFails(c)
    BY <1>4, <1>10, <2>2 DEF OpenFails, ConnectFails, AttestFails
  <2> QED
    BY <1>6, <1>8, <1>9, <1>10, <2>1, <2>2 DEF ThreadStep
<1>11. ASSUME NEW c \in Conns, NEW a \in Answers, CoinbaseAnswers(c, a),
              UNCHANGED defaulted
       PROVE  Threads'
  <2>0. PICK o : o = [start |-> request[c].start, at |-> clock, image |-> enclave,
                      answer |-> a]
    OBVIOUS
  <2>1. /\ observed' = observed \cup {o}
        /\ pc[c] = "fetching"
        /\ UNCHANGED <<clock, request, pc, payload, reply, issued>>
    BY <1>11, <2>0 DEF CoinbaseAnswers, At, coinbaseVars
  <2>2. \A d \in Conns : answer'[d] = IF d = c THEN a ELSE answer[d]
    BY <1>1, <1>11 DEF CoinbaseAnswers, Shape
  <2>3. c \in defaulted => /\ request[c].start \in Int
                           /\ request[c].start + GRANULARITY_SECONDS <= clock
    BY DEF Thread
  <2>4. Follows(c, o)' /\ o.answer = a
    BY <1>11, <2>0, <2>1, <2>3 DEF Follows
  <2>5. reply[c].status # 200
    BY <2>1 DEF Thread, Done
  <2>6. \E q \in observed' : Follows(c, q)' /\ q.answer = answer'[c]
    BY <2>1, <2>2, <2>4
  <2>7. Thread(c)'
    BY <1>11, <2>1, <2>3, <2>5, <2>6 DEF Thread
  <2> QED
    BY <1>1, <1>2, <1>11, <2>1, <2>2, <2>7
<1>12. ASSUME NEW c \in Conns, CoinbaseQuiet(c) \/ CoinbaseDrips(c),
              UNCHANGED defaulted
       PROVE  Threads'
  <2>1. UNCHANGED <<clock, pc, request, answer, payload, reply, observed, issued>>
    BY <1>12 DEF CoinbaseQuiet, CoinbaseDrips, coinbaseVars
  <2> QED
    BY <1>1, <1>12, <2>1, ThreadStays
<1>13. ASSUME NEW c \in Conns, ReadTimesOut(c) \/ FetchFails(c), UNCHANGED defaulted
       PROVE  Threads'
  BY <1>4, <1>13 DEF ReadTimesOut, FetchFails
<1>14. ASSUME NEW image, RestartEnclave(image), UNCHANGED defaulted PROVE Threads'
  <2> SUFFICES ASSUME NEW c \in Conns PROVE Thread(c)'
    OBVIOUS
  <2> DEFINE l == IF pc[c] \in {"idle", "answered"} THEN pc[c] ELSE "dropped"
  <2>1. /\ pc'[c] = l /\ answer'[c] = NoAnswer
        /\ UNCHANGED <<clock, request, reply, observed, issued>>
    BY <1>14 DEF RestartEnclave, coinbaseVars
  <2>2. /\ c \in defaulted => pc[c] # "idle"
        /\ reply[c].status = 200 => pc[c] \in Done
    BY DEF Thread
  <2> QED
    BY <1>14, <2>1, <2>2, ThreadMoves DEF Done
<1>15. ASSUME NEW c \in Conns, NEW args \in OnceArgs, OneShot(c, args) PROVE Threads'
  <2>1. /\ pc[c] = "idle" /\ c \notin defaulted /\ reply[c].status # 200
        /\ answer[c] = NoAnswer
    BY <1>1, <1>15 DEF OneShot, RunOnce, At, Thread, Done
  <2>2. UNCHANGED <<clock, answer, payload, reply, observed, issued>>
    BY <1>15 DEF OneShot, RunOnce, coinbaseVars
  <2>3. \A d \in Conns \ {c} : /\ pc'[d] = pc[d] /\ request'[d] = request[d]
                               /\ d \in defaulted' <=> d \in defaulted
    BY <1>1, <1>15 DEF OneShot, RunOnce, Goto, Shape
  <2>4. pc'[c] \in {"opening", "dropped"}
    BY <1>1, <1>15 DEF OneShot, RunOnce, Goto, Shape
  <2>5. ASSUME c \in defaulted'
        PROVE  /\ request'[c].start \in Int
               /\ request'[c].start + GRANULARITY_SECONDS <= clock
    <3>1. args.start = <<>> /\ args.end = <<>>
      BY <1>15, <2>1, <2>5 DEF OneShot
    <3>2. request_from_args(args) = Ok(last_completed_bucket(clock))
      BY <3>1 DEF request_from_args
    <3>3. request'[c] = last_completed_bucket(clock)
      BY <1>1, <1>15, <3>2 DEF OneShot, RunOnce, Ok, Shape
    <3>4. request'[c].start
            = (clock \div GRANULARITY_SECONDS) * GRANULARITY_SECONDS
                - GRANULARITY_SECONDS
      BY <3>3 DEF last_completed_bucket
    <3>5. /\ clock \div GRANULARITY_SECONDS \in Int
          /\ (clock \div GRANULARITY_SECONDS) * GRANULARITY_SECONDS <= clock
      BY <1>1, FormatAssumption
    <3> QED
      BY <1>1, <3>4, <3>5
  <2>6. Thread(c)'
    BY <2>1, <2>2, <2>4, <2>5 DEF Thread
  <2> QED
    BY <1>1, <1>2, <2>2, <2>3, <2>6
<1>16. CASE OutsideAttests
  <2>1. /\ UNCHANGED <<clock, pc, request, answer, payload, reply, observed, defaulted>>
        /\ issued \subseteq issued'
    BY <1>16 DEF OutsideAttests, coinbaseVars
  <2> QED
    BY <1>1, <2>1, ThreadStays
<1>17. CASE /\ Tick \/ \E b \in Buckets, p \in Prices : Trade(b, p)
            /\ UNCHANGED <<proverVars, defaulted>>
  <2>1. UNCHANGED <<pc, request, answer, payload, reply, observed, issued, defaulted>>
    BY <1>17 DEF proverVars
  <2>2. clock <= clock'
    BY <1>1, <1>17 DEF Tick, Trade
  <2> QED
    BY <1>1, <2>1, <2>2, ThreadStays
<1>18. CASE UNCHANGED systemVars
  <2>1. UNCHANGED <<clock, pc, request, answer, payload, reply, observed, issued, defaulted>>
    BY <1>18 DEF systemVars, vars, coinbaseVars, proverVars
  <2> QED
    BY <1>1, <2>1, ThreadStays
<1> QED
  BY <1>6, <1>7, <1>10, <1>11, <1>12, <1>13, <1>14, <1>15, <1>16, <1>17, <1>18
  DEF Next, ProverNext

\* Every reply stays tied to its request.
LEMMA ThreadsHold == Spec => []Threads
<1>1. Init => Threads
  BY DEF Init, ProverInit, Threads, Thread, NoReply
<1> QED
  BY <1>1, EInvHolds, NextThreads, PTL DEF Spec

-----------------------------------------------------------------------------
(* The last completed bucket. *)

\* The bundle in a reply, opened.
LEMMA ReplyFacts ==
  ASSUME NEW c \in Conns, Thread(c), reply[c].status = 200
  PROVE  \E p, doc :
           /\ reply[c].bundle = ProofBundle(to_json(p), doc)
           /\ PayloadOf(reply[c].bundle) = p
           /\ DocumentOf(reply[c].bundle) = doc
           /\ reply[c].bundle \in Circulating
           /\ Built(c, p) /\ Signed(p, doc)
<1>1. PICK p, doc : /\ reply[c].bundle = ProofBundle(to_json(p), doc)
                    /\ [payload |-> to_json(p), document |-> doc] \in issued
                    /\ Built(c, p) /\ Signed(p, doc)
  BY DEF Thread, Served
<1>2. reply[c].bundle \in Circulating
  <2> DEFINE x == [payload |-> to_json(p), document |-> doc]
  <2>1. x.payload = to_json(p) /\ x.document = doc /\ x \in issued
    BY <1>1
  <2> HIDE DEF x
  <2> QED
    BY <1>1, <2>1 DEF Circulating
<1>3. PayloadOf(reply[c].bundle) = p /\ DocumentOf(reply[c].bundle) = doc
  BY <1>1 DEF PayloadOf, DocumentOf, ProofBundle, b64_encode, b64_decode,
              to_json, from_json
<1> QED
  BY <1>1, <1>2, <1>3

\* The candle of a quote that was made with its bucket closed.
LEMMA ClosedQuote ==
  ASSUME Promise!OracleInv, EInv, NEW o \in observed, o.image = "release",
         is_json(o.answer.body), NEW candle, SeenCandle(o) = Ok(candle),
         o.at >= candle.time + GRANULARITY_SECONDS
  PROVE  candle = CandleAt(candle.time, market[candle.time])
<1> DEFINE q == [candle |-> candle, at |-> o.at]
<1>1. SeenCandle(o).ok /\ SeenCandle(o).val = candle
  BY DEF Ok
<1>2. q \in Quotes /\ q.candle = candle /\ q.at = o.at
  BY <1>1 DEF Quotes
<1> HIDE DEF q
<1>3. /\ candle.time \in Buckets
      /\ \/ candle = [b \in Buckets |-> CandleAt(b, market[b])][candle.time]
         \/ o.at < candle.time + GRANULARITY_SECONDS
  BY <1>2 DEF Promise!OracleInv, Promise!QuotesAreTrue
<1>4. o.at \in Int /\ candle.time + GRANULARITY_SECONDS \in Int
  <2>1. o.at \in 0 .. clock /\ clock \in 0 .. MaxTime
    BY DEF EInv, Types, WorldTypes
  <2>2. candle.time \in Nat
    BY <1>3, CoinbaseAssumption, Zenon
  <2> QED
    BY <2>1, <2>2, FormatAssumption
<1>5. ~(o.at < candle.time + GRANULARITY_SECONDS)
  BY <1>4
<1> QED
  BY <1>3, <1>5

\* The run looked at a bucket that was complete when it began, so that what it
\* then saw cannot have moved since.
LEMMA DefaultsAreFinal == EInv /\ Threads /\ Promise!OracleInv => DefaultProofIsFinal
<1> SUFFICES ASSUME EInv, Threads, Promise!OracleInv,
                    NEW c \in defaulted, NEW now \in VerifierTimes,
                    reply[c].status = 200, Accepts(reply[c].bundle, now)
             PROVE  PayloadOf(reply[c].bundle).selected_candle
                      = CandleAt(request[c].start, market[request[c].start])
  BY DEF DefaultProofIsFinal
<1>1. c \in Conns
  BY DEF EInv, Types, WorldTypes
<1> DEFINE bundle == reply[c].bundle
<1>2. PICK p, doc : /\ bundle = ProofBundle(to_json(p), doc)
                    /\ PayloadOf(bundle) = p
                    /\ bundle \in Circulating
                    /\ Built(c, p)
  BY <1>1, ReplyFacts DEF Threads
<1>3. PICK o \in observed : /\ Follows(c, o)
                            /\ ObservedPayload(request[c], o.answer).ok
                            /\ p = ObservedPayload(request[c], o.answer).val
  BY <1>2 DEF Built
<1>4. Describes(p, o)
  BY <1>3, PayloadDescribes DEF Follows
<1>5. PICK z \in observed : /\ z.image = "release"
                            /\ z.answer.date = p.http_date
                            /\ is_json(z.answer.body)
                            /\ SeenCandle(z) = Ok(p.selected_candle)
  BY <1>2, EvidenceSuffices DEF AcceptedWasObserved, WasObserved, SeenCandle
<1>6. /\ is_http_date(p.http_date)
      /\ p.selected_candle.time = p.request_start
  BY <1>2 DEF Accepts, verify_bundle, verify_payload_policy, verify_time_policy,
              ProofBundle, b64_encode, b64_decode, to_json, from_json
<1>7. o.at = z.at
  <2>1. Truthful(o) /\ Truthful(z)
    BY DEF EInv, Evidence, Trail
  <2>2. p.http_date[1] = "imf" /\ o.answer.date = p.http_date
    BY <1>4, <1>6 DEF is_http_date, Describes
  <2>3. p.http_date = <<"imf", o.at>> /\ p.http_date = <<"imf", z.at>>
    BY <1>5, <2>1, <2>2 DEF Truthful
  <2> QED
    BY <2>3
<1>8. p.selected_candle.time = request[c].start
  BY <1>3, <1>4, <1>6 DEF Describes, Follows
<1>9. z.at >= p.selected_candle.time + GRANULARITY_SECONDS
  <2>1. z.at \in 0 .. clock /\ clock \in 0 .. MaxTime
    BY DEF EInv, Types, WorldTypes
  <2>2. request[c].start \in Int
    BY <1>1 DEF Threads, Thread
  <2>3. request[c].start + GRANULARITY_SECONDS <= o.at
    BY <1>3 DEF Follows
  <2> QED
    BY <1>7, <1>8, <2>1, <2>2, <2>3, FormatAssumption
<1>10. p.selected_candle = CandleAt(p.selected_candle.time, market[p.selected_candle.time])
  BY <1>5, <1>9, ClosedQuote
<1> QED
  BY <1>2, <1>8, <1>10

\* enclave-prover --once without --start and --end, at whatever second of a
\* bucket it begins and however long it takes, proves the final candle.
THEOREM DefaultProofsAreFinal == Spec => []DefaultProofIsFinal
  BY EInvHolds, ThreadsHold, PromiseHolds, DefaultsAreFinal, PTL

-----------------------------------------------------------------------------
(* What is served verifies. *)

\* The candle select_candle takes is one contains_selected_candle finds.
Contained ==
  \A o \in observed :
    is_json(o.answer.body) /\ SeenCandle(o).ok
      => contains_selected_candle(from_json(o.answer.body), SeenCandle(o).val)

\* The first row of a candles array is a row of it.
LEMMA SelectedIsContained ==
  ASSUME NEW body \in Bodies, is_json(body), select_candle(from_json(body)).ok
  PROVE  contains_selected_candle(from_json(body), select_candle(from_json(body)).val)
<1>1. from_json(body)[1] = "candles" /\ from_json(body)[2] # <<>>
  BY DEF select_candle, Err
<1>2. body \notin OtherBodies
  BY <1>1, CoinbaseAssumption, Zenon
<1>3. PICK n \in 0 .. MaxRows :
        \E rows \in [1 .. n -> TrueRows \cup MalformedRows] :
          body = to_json(<<"candles", rows>>)
  BY <1>2 DEF Bodies
<1>4. PICK rows \in [1 .. n -> TrueRows \cup MalformedRows] :
          body = to_json(<<"candles", rows>>)
  BY <1>3
<1>5. from_json(body)[2] = rows
  BY <1>4 DEF from_json, to_json
<1>6. n \in Nat
  BY CoinbaseAssumption
<1>7. rows \in Seq(TrueRows \cup MalformedRows) /\ Len(rows) = n
  BY <1>4, <1>6
<1>8. 1 \in 1 .. Len(rows)
  BY <1>1, <1>5, <1>6, <1>7
<1>9. select_candle(from_json(body)) = parse_candle_object(rows[1])
  BY <1>1, <1>5 DEF select_candle
<1>10. parse_candle_object(rows[1]) = Ok(select_candle(from_json(body)).val)
  BY <1>9, SelectIsOk
<1> QED
  BY <1>1, <1>5, <1>8, <1>10 DEF contains_selected_candle

\* Nothing but Coinbase's answers is observed.
LEMMA NextContained == Contained /\ [Next]_systemVars => Contained'
<1> SUFFICES ASSUME Contained, [Next]_systemVars PROVE Contained'
  OBVIOUS
<1>1. ASSUME UNCHANGED observed PROVE Contained'
  BY <1>1 DEF Contained, SeenCandle
<1>2. ASSUME NEW c \in Conns, NEW a \in Answers, CoinbaseAnswers(c, a) PROVE Contained'
  <2>1. PICK o : /\ o.answer = a
                 /\ observed' = observed \cup {o}
    BY <1>2 DEF CoinbaseAnswers
  <2>2. a.body \in Bodies
    BY DEF Answers
  <2>3. is_json(o.answer.body) /\ SeenCandle(o).ok
          => contains_selected_candle(from_json(o.answer.body), SeenCandle(o).val)
    BY <2>1, <2>2, SelectedIsContained DEF SeenCandle
  <2> QED
    BY <2>1, <2>3 DEF Contained, SeenCandle
<1>3. \A c, r : Return(c, r) => UNCHANGED observed
  BY DEF Return, Leave
<1>4. \A c, e : Fail(c, e) => UNCHANGED observed
  BY <1>3 DEF Fail
<1>5. \A c : ThreadStep(c) => UNCHANGED observed
  BY <1>3, <1>4
  DEF ThreadStep, OpenAttester, OpenFails, ConnectCoinbase, ConnectFails,
      ReceiveAnswer, DecodePanics, Leave, Attest, AttestFails
<1>6. \/ UNCHANGED observed
      \/ \E c \in Conns : \E a \in Answers : CoinbaseAnswers(c, a)
  BY <1>4, <1>5
  DEF Next, ProverNext, Accept, ReadFails, ReadRequest, CoinbaseQuiet, CoinbaseDrips,
      ReadTimesOut, FetchFails, WriteReply, WriteFails, RestartEnclave, OneShot,
      RunOnce, OutsideAttests, systemVars, vars, proverVars
<1> QED
  BY <1>1, <1>2, <1>6

\* The payload of a checked request passes the checks on payloads, if its candle
\* is the requested one.
LEMMA PayloadPasses ==
  ASSUME NEW req, NEW a, ObservedPayload(req, a).ok,
         validate_request(req.start, req.end),
         contains_selected_candle(from_json(a.body),
                                  select_candle(from_json(a.body)).val),
         NEW p, p = ObservedPayload(req, a).val,
         p.selected_candle.time = p.request_start
  PROVE  /\ verify_body_integrity(p)
         /\ verify_payload_policy(p, from_json(b64_decode(p.body_b64)))
<1> DEFINE selected == select_candle(from_json(a.body))
<1>1. /\ is_json(a.body) /\ a.status = 200 /\ is_json_content_type(a.content_type)
      /\ selected.ok
  BY DEF ObservedPayload, parse_http_response, Ok, Err
<1> HIDE DEF selected
<1>2. p = [labels |-> LABELS,
           request_start |-> req.start, request_end |-> req.end,
           request_query |-> coinbase_candle_query(req.start, req.end).val,
           http_status |-> a.status, http_date |-> a.date,
           content_type |-> a.content_type,
           body_sha256 |-> sha256_hex(a.body), body_b64 |-> b64_encode(a.body),
           selected_candle |-> selected.val, tls |-> tls_info(a.chain)]
  BY DEF ObservedPayload, parse_http_response, Ok, Err, selected
<1>3. b64_decode(p.body_b64) = a.body /\ is_b64(p.body_b64)
  BY <1>2 DEF b64_encode, b64_decode, is_b64
<1>4. verify_body_integrity(p)
  BY <1>1, <1>2, <1>3 DEF verify_body_integrity, sha256_hex
<1>5. Ok(p.request_query) = coinbase_candle_query(p.request_start, p.request_end)
  BY <1>2 DEF coinbase_candle_query, Ok
<1>6. /\ validate_request(p.request_start, p.request_end)
      /\ p.selected_candle.time % GRANULARITY_SECONDS = 0
  BY <1>2 DEF validate_request
<1>7. /\ p.labels = LABELS /\ p.http_status = 200
      /\ is_json_content_type(p.content_type)
      /\ p.tls.sni = HOST
      /\ p.selected_candle = selected.val
  BY <1>1, <1>2 DEF tls_info
<1> QED
  BY <1>3, <1>4, <1>5, <1>6, <1>7 DEF verify_payload_policy, selected

\* A document of the configured PCRs passes the checks on documents.
LEMMA SignedPasses ==
  ASSUME NEW p, NEW doc, Signed(p, doc), doc[2].pcrs = Config.expected_pcrs, NEW now
  PROVE  LET att == VerifiedAttestation(Verifier, doc)
         IN /\ attestation_verifies(Verifier, doc, now)
            /\ verify_attestation_binding(to_json(p), att, Config)
            /\ att.timestamp_unix \in 0 .. I64_MAX
<1> DEFINE att == VerifiedAttestation(Verifier, doc)
<1>1. CASE MockAttestation
  <2>1. PICK t \in 0 .. MaxTime : doc = MockDocument(t, sha384(to_json(p)), NONCE_BYTES)
    BY <1>1 DEF Signed
  <2>2. /\ att.timestamp_unix = t /\ att.user_data = sha384(to_json(p))
        /\ att.nonce = NONCE_BYTES /\ att.pcrs = mock_pcrs
    BY <1>1, <2>1 DEF VerifiedAttestation, Verifier, MockDocument
  <2>3. attestation_verifies(Verifier, doc, now)
    BY <1>1, <2>1 DEF attestation_verifies, mock_verify, Verifier, MockDocument
  <2>4. Config.expected_pcrs = mock_pcrs
    BY <1>1 DEF Config
  <2> HIDE DEF att
  <2>5. verify_attestation_binding(to_json(p), att, Config)
    BY <2>2, <2>4
    DEF verify_attestation_binding, mock_pcrs, required_pcrs, ZERO_PCR, NONCE_BYTES
  <2>6. t \in 0 .. I64_MAX
    BY CoinbaseAssumption, SystemAssumption, FormatAssumption
  <2> QED
    BY <2>2, <2>3, <2>5, <2>6 DEF att
<1>2. CASE ~MockAttestation
  <2>0. PICK d \in NsmDrifts, pcrs \in {ReleasePcrs, OtherPcrs} :
          \E t \in 0 .. MaxTime + d :
            doc = NsmDocument(pcrs, sha384(to_json(p)), NONCE_BYTES, t)
    BY <1>2 DEF Signed
  <2>1. PICK t \in 0 .. MaxTime + d :
          doc = NsmDocument(pcrs, sha384(to_json(p)), NONCE_BYTES, t)
    BY <2>0
  <2>2. t <= I64_MAX /\ validate_at(NITRO_ROOT_G1, t)
    BY ReleaseAssumption, Zenon
  <2>3. t \in 0 .. I64_MAX
    <3>1. d \in Int
      BY ProverAssumption, Zenon
    <3> QED
      BY <2>2, <3>1, CoinbaseAssumption, FormatAssumption
  <2>4. doc[1] = "cose" /\ doc[2] = [timestamp_ms |-> t * 1000 + 999, pcrs |-> pcrs,
                                     user_data |-> sha384(to_json(p)),
                                     nonce |-> NONCE_BYTES,
                                     chain |-> NsmChain(t), signed_by |-> "nsm"]
    BY <2>1 DEF NsmDocument
  <2>5. timestamp_unix(doc[2]) = t
    <3>1. doc[2].timestamp_ms = t * 1000 + 999
      BY <2>4
    <3> QED
      BY <2>3, <3>1 DEF timestamp_unix
  <2>6. pcrs = ReleasePcrs /\ Config.expected_pcrs = ReleasePcrs
    BY <1>2, <2>4 DEF Config
  <2>7. /\ att.timestamp_unix = t /\ att.user_data = sha384(to_json(p))
        /\ att.nonce = NONCE_BYTES
        /\ att.pcrs = [i \in {j \in DOMAIN pcrs : pcrs[j] # ZERO_PCR} |-> pcrs[i]]
    BY <1>2, <2>4, <2>5 DEF VerifiedAttestation, Verifier
  <2>8. \A i \in required_pcrs : i \in DOMAIN ReleasePcrs /\ ReleasePcrs[i] # ZERO_PCR
    BY ReleaseAssumption, Zenon
  <2> HIDE DEF att
  <2>9. verify_attestation_binding(to_json(p), att, Config)
    BY <2>6, <2>7, <2>8 DEF verify_attestation_binding, NONCE_BYTES
  <2>10. NITRO_ROOT_G1.alg = ECDSA_SHA384 /\ NsmLifetime \in Nat
    BY ReleaseAssumption, Zenon
  <2>11. /\ Len(NsmChain(t)) = 2
         /\ NsmChain(t) # <<>>
         /\ NsmChain(t)[1] = NITRO_ROOT_G1
         /\ NsmChain(t)[2] = [key |-> "nsm", issuer |-> NITRO_ROOT_G1.key,
                              alg |-> ECDSA_SHA384,
                              not_before |-> t, not_after |-> t + NsmLifetime]
    BY DEF NsmChain
  <2>12. \A i \in 1 .. Len(NsmChain(t)) :
           verify_signature(NsmChain(t), i) /\ validate_at(NsmChain(t)[i], t)
    <3>1. verify_signature(NsmChain(t), 1) /\ validate_at(NsmChain(t)[1], t)
      BY <2>2, <2>10, <2>11 DEF verify_signature
    <3>2. verify_signature(NsmChain(t), 2)
      BY <2>11 DEF verify_signature
    <3>3. validate_at(NsmChain(t)[2], t)
      BY <2>3, <2>10, <2>11 DEF validate_at
    <3> QED
      BY <2>11, <3>1, <3>2, <3>3
  <2>13. t \in I64
    BY <2>3, FormatAssumption DEF I64, I64_MIN
  <2>14. sha384(to_json(p)) # <<>> /\ NONCE_BYTES # -1
    BY DEF sha384, NONCE_BYTES
  <2>15. doc[2].chain = NsmChain(t) /\ doc[2].signed_by = NsmChain(t)[Len(NsmChain(t))].key
    BY <2>4, <2>11
  <2>16. doc[2].user_data # <<>> /\ doc[2].nonce # -1
    BY <2>4, <2>14
  <2>17. parse_and_verify_nitro_attestation(doc, now)
    <3>1. doc[1] = "cose" /\ timestamp_unix(doc[2]) \in I64
      BY <2>4, <2>5, <2>13
    <3>2. /\ \A i \in 1 .. Len(doc[2].chain) :
               /\ verify_signature(doc[2].chain, i)
               /\ validate_at(doc[2].chain[i], timestamp_unix(doc[2]))
          /\ doc[2].chain # <<>>
          /\ doc[2].signed_by = doc[2].chain[Len(doc[2].chain)].key
      BY <2>5, <2>11, <2>12, <2>15
    <3> QED
      BY <2>16, <3>1, <3>2, Zenon DEF parse_and_verify_nitro_attestation
  <2>18. attestation_verifies(Verifier, doc, now)
    BY <1>2, <2>17 DEF attestation_verifies, Verifier
  <2> QED
    BY <2>3, <2>7, <2>9, <2>18 DEF att
<1> QED
  BY <1>1, <1>2

\* The two time checks, which the code makes in wrapping arithmetic, take every
\* difference within the limits.
LEMMA TimesPass ==
  ASSUME NEW t \in 0 .. I64_MAX, NEW s \in Nat, s <= I64_MAX
  PROVE  /\ \A now \in I64 : now >= t - s => wrapping(t - now) <= s
         /\ \A d \in Nat : t - d \in -s .. s => wrapping_abs(wrapping(t - d)) <= s
<1> USE FormatAssumption
<1>1. ASSUME NEW now \in I64, now >= t - s PROVE wrapping(t - now) <= s
  BY <1>1 DEF wrapping, I64, I64_MIN
<1>2. ASSUME NEW d \in Nat, t - d \in -s .. s
      PROVE  wrapping_abs(wrapping(t - d)) <= s
  BY <1>2 DEF wrapping, wrapping_abs, I64_MIN
<1> QED
  BY <1>1, <1>2

\* The prover's checks and the conditions it does not look at are together
\* all that the verifier asks for.
LEMMA ServedVerifies == EInv /\ Threads /\ Contained => ServedProofVerifies
<1> SUFFICES ASSUME EInv, Threads, Contained, NEW c \in Conns,
                    reply[c].status = 200,
                    DocumentOf(reply[c].bundle)[2].pcrs = Config.expected_pcrs,
                    VerifierPreconditions(reply[c].bundle)
             PROVE  /\ PayloadOf(reply[c].bundle).request_start = request[c].start
                    /\ \A now \in VerifierTimes :
                         now >= AttestedAt(reply[c].bundle) - MaxFutureSkew
                           => Accepts(reply[c].bundle, now)
  BY DEF ServedProofVerifies
<1> DEFINE bundle == reply[c].bundle
           t == AttestedAt(bundle)
<1>1. PICK p, doc : /\ bundle = ProofBundle(to_json(p), doc)
                    /\ PayloadOf(bundle) = p
                    /\ DocumentOf(bundle) = doc
                    /\ Built(c, p) /\ Signed(p, doc)
  BY ReplyFacts DEF Threads
<1>2. PICK o \in observed : /\ Follows(c, o)
                            /\ ObservedPayload(request[c], o.answer).ok
                            /\ p = ObservedPayload(request[c], o.answer).val
  BY <1>1 DEF Built
<1>3. Describes(p, o)
  BY <1>2, PayloadDescribes DEF Follows
<1>4. p.request_start = request[c].start
  BY <1>2, <1>3 DEF Describes, Follows
<1>5. /\ p.selected_candle.time = p.request_start
      /\ is_http_date(p.http_date)
      /\ t - parse_http_date_epoch(p.http_date) \in -MaxSkew .. MaxSkew
      /\ verify_tls_certificate_chain(p.tls, t, HOST)
  BY <1>1 DEF VerifierPreconditions
<1> DEFINE att == VerifiedAttestation(Verifier, doc)
<1>6. t = att.timestamp_unix
  BY <1>1 DEF AttestedAt
<1>7. \A now : /\ attestation_verifies(Verifier, doc, now)
               /\ verify_attestation_binding(to_json(p), att, Config)
               /\ att.timestamp_unix \in 0 .. I64_MAX
  BY <1>1, SignedPasses
<1>8. /\ verify_body_integrity(p)
      /\ verify_payload_policy(p, from_json(b64_decode(p.body_b64)))
  <2>1. validate_request(request[c].start, request[c].end)
    BY DEF Threads, Thread
  <2>2. /\ is_json(o.answer.body)
        /\ select_candle(from_json(o.answer.body)).ok
    BY <1>3 DEF Describes, Ok
  <2>3. contains_selected_candle(from_json(o.answer.body),
                                 select_candle(from_json(o.answer.body)).val)
    BY <2>2 DEF Contained, SeenCandle
  <2> QED
    BY <1>2, <1>5, <2>1, <2>3, PayloadPasses
<1> HIDE DEF att, t
<1>9. verify_time_policy(p, att, Config)
  <2>1. parse_http_date_epoch(p.http_date) \in Nat
    <3>1. Truthful(o) /\ o.at \in 0 .. clock /\ clock \in 0 .. MaxTime
      BY DEF EInv, Evidence, Trail, Types, WorldTypes
    <3>2. p.http_date = <<"imf", o.at>>
      BY <1>3, <1>5, <3>1 DEF Truthful, Describes, is_http_date
    <3> QED
      BY <3>1, <3>2 DEF parse_http_date_epoch
  <2>2. MaxSkew \in Nat /\ MaxSkew <= I64_MAX
    BY SystemAssumption, ReleaseAssumption, Zenon
  <2>3. wrapping_abs(wrapping(att.timestamp_unix
                                - parse_http_date_epoch(p.http_date))) <= MaxSkew
    BY <1>5, <1>6, <1>7, <2>1, <2>2, TimesPass
  <2> QED
    BY <1>5, <2>3 DEF verify_time_policy, Config
<1>10. ASSUME NEW now \in VerifierTimes, now >= t - MaxFutureSkew
       PROVE  verify_attestation_time_bounds(att, Config, now)
  <2>1. MaxFutureSkew \in Nat /\ MaxFutureSkew <= I64_MAX /\ now \in I64
    BY SystemAssumption, ReleaseAssumption, Zenon
  <2> QED
    BY <1>6, <1>7, <1>10, <2>1, TimesPass DEF verify_attestation_time_bounds, Config
<1>11. ASSUME NEW now \in VerifierTimes, now >= t - MaxFutureSkew
       PROVE  Accepts(bundle, now)
  <2>1. /\ b64_decode(bundle.payload_json_b64) = to_json(p)
        /\ b64_decode(bundle.attestation_doc_b64) = doc
        /\ is_b64(bundle.payload_json_b64) /\ is_b64(bundle.attestation_doc_b64)
        /\ bundle.schema = BUNDLE_SCHEMA
    BY <1>1 DEF ProofBundle, b64_encode, b64_decode, is_b64
  <2>2. is_json(to_json(p)) /\ from_json(to_json(p)) = p
    BY DEF is_json, to_json, from_json
  <2>3. verify_attestation_time_bounds(att, Config, now)
    BY <1>10, <1>11
  <2>4. verify_tls_certificate_chain(p.tls, att.timestamp_unix, HOST)
    BY <1>5, <1>6
  <2>5. VerifiedAttestation(Verifier, doc) = att
    BY DEF att
  <2> HIDE DEF bundle
  <2>6. verify_bundle(bundle, Verifier, Config, now)
    BY <1>7, <1>8, <1>9, <2>1, <2>2, <2>3, <2>4, <2>5 DEF verify_bundle
  <2> QED
    BY <2>6 DEF Accepts, bundle
<1> QED
  BY <1>1, <1>4, <1>11 DEF t

\* A 200 is worth something: unless one of the conditions fails that the prover
\* does not look at, its bundle is accepted on every clock that is not too slow.
THEOREM ServedProofsVerify == Spec => []ServedProofVerifies
<1>1. Init => Contained
  BY DEF Init, ProverInit, Contained
<1> QED
  BY <1>1, NextContained, EInvHolds, ThreadsHold, ServedVerifies, PTL DEF Spec
================================================================================

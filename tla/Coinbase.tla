-------------------------------- MODULE Coinbase -------------------------------
(***************************************************************************)
(* The world outside the enclave, as the code in src/ relies on it: a      *)
(* clock, and Coinbase's market-data server.  A candle is still moving     *)
(* while its bucket is open, so two truthful answers may differ.  The      *)
(* server is truthful in the candles it serves, in its Date and in its     *)
(* certificates; apart from that it may answer badly in every way that     *)
(* prover.rs and http.rs look at.                                          *)
(***************************************************************************)
EXTENDS Verify

CONSTANTS
  MaxTime,        \* the last second of the modelled history
  Buckets,        \* candle starts
  Prices,
  TlsChains,      \* chains the server may present, leaf first
  AnswerHeads,    \* [framing, status, content_type, date] of an answer
  MalformedRows,  \* rows of a candles array that are not a full candle
  MaxRows,        \* rows in a candles array
  OtherBodies     \* bodies without a candles array

ASSUME CoinbaseAssumption ==
  /\ MaxTime \in Nat
  /\ Buckets \subseteq Nat
  /\ Prices # {} /\ Prices \subseteq Nat \ {0}
  /\ \A row \in MalformedRows : ~parse_candle_object(row).ok
  /\ MaxRows \in Nat
  /\ \A body \in OtherBodies : is_json(body) => from_json(body)[1] # "candles"

VARIABLES clock, market

coinbaseVars == <<clock, market>>

CoinbaseInit ==
  /\ clock = 0
  /\ market = [b \in Buckets |-> CHOOSE p \in Prices : TRUE]

Tick ==
  /\ clock < MaxTime
  /\ clock' = clock + 1
  /\ UNCHANGED market

\* Only the open bucket's candle moves.
Trade(b, p) ==
  /\ b <= clock /\ clock < b + GRANULARITY_SECONDS
  /\ market[b] # p
  /\ market' = [market EXCEPT ![b] = p]
  /\ UNCHANGED clock

\* One price stands for the four prices of a candle.
CandleAt(b, p) ==
  [time |-> b, low |-> p, high |-> p, open |-> p, close |-> p, volume |-> 0]

CandleRow(b, p) ==
  <<"object",
    [start  |-> <<"string", b>>,
     low    |-> <<"string", p>>,
     high   |-> <<"string", p>>,
     open   |-> <<"string", p>>,
     close  |-> <<"string", p>>,
     volume |-> <<"string", 0>>]>>

TrueRows == {CandleRow(b, market[b]) : b \in {x \in Buckets : x <= clock}}

Bodies ==
  OtherBodies \cup
  {to_json(<<"candles", rows>>) :
     rows \in UNION {[1 .. n -> TrueRows \cup MalformedRows] : n \in 0 .. MaxRows}}

DateHeader(form) == IF form = "imf" THEN <<"imf", clock>> ELSE <<form>>

\* The chain has passed the client's certificate check, so it is good now.
Answers ==
  {[framing |-> h.framing, status |-> h.status, content_type |-> h.content_type,
    date |-> DateHeader(h.date), body |-> body, chain |-> chain] :
     h \in AnswerHeads,
     body \in Bodies,
     chain \in {x \in TlsChains : webpki_accepts(x, HOST, clock)}}
================================================================================

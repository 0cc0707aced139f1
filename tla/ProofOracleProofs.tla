--------------------------- MODULE ProofOracleProofs ---------------------------
(***************************************************************************)
(* What the oracle's promise is worth, for every market and history.       *)
(***************************************************************************)
EXTENDS ProofOracle, TLAPS

MarketTypes ==
  /\ clock \in 0 .. MaxTime
  /\ market = [b \in Buckets |-> market[b]]
  /\ \A b \in Buckets : market[b].time = b

\* A quote is the market's candle, unless its bucket was open when it was made.
QuotesAreTrue ==
  \A q \in quotes :
    /\ q.at \in 0 .. clock
    /\ q.candle.time \in Buckets
    /\ q.candle = market[q.candle.time] \/ q.at < q.candle.time + Granularity

OracleInv == MarketTypes /\ QuotesAreTrue /\ endorsed \subseteq Backed

\* At first there is nothing to be wrong about.
LEMMA InitOracle == Init => OracleInv
  BY OracleAssumption DEF Init, OracleInv, MarketTypes, QuotesAreTrue

\* A candle moves only while its bucket is open, and quotes are never dated
\* later than the clock.
LEMMA NextOracle == OracleInv /\ [Next]_oracleVars => OracleInv'
<1> SUFFICES ASSUME OracleInv, [Next]_oracleVars PROVE OracleInv'
  OBVIOUS
<1> USE OracleAssumption DEF OracleInv, MarketTypes
<1>1. CASE Tick
  BY <1>1 DEF Tick, QuotesAreTrue, Backed
<1>2. ASSUME NEW b \in Buckets, NEW candle \in Candles, Move(b, candle) PROVE OracleInv'
  <2>1. MarketTypes'
    BY <1>2 DEF Move
  <2>2. QuotesAreTrue'
    <3> SUFFICES ASSUME NEW q \in quotes
                 PROVE  /\ q.at \in 0 .. clock
                        /\ q.candle.time \in Buckets
                        /\ \/ q.candle = market'[q.candle.time]
                           \/ q.at < q.candle.time + Granularity
      BY <1>2 DEF Move, QuotesAreTrue
    <3>1. CASE q.candle.time = b
      BY <3>1, <1>2 DEF Move, QuotesAreTrue
    <3>2. CASE q.candle.time # b
      BY <3>2, <1>2 DEF Move, QuotesAreTrue
    <3> QED
      BY <3>1, <3>2
  <2> QED
    BY <1>2, <2>1, <2>2 DEF Move, Backed
<1>3. ASSUME NEW b \in Buckets, Quote(b) PROVE OracleInv'
  BY <1>3 DEF Quote, QuotesAreTrue, Backed
<1>4. CASE Endorse
  BY <1>4 DEF Endorse, QuotesAreTrue, Backed
<1>5. CASE UNCHANGED oracleVars
  BY <1>5 DEF oracleVars, QuotesAreTrue, Backed
<1> QED
  BY <1>1, <1>2, <1>3, <1>4, <1>5 DEF Next

\* The quote behind a statement dated a skew after the bucket's end was made
\* when the bucket was closed.
LEMMA BackedIsFinal == OracleInv => EndorsedIsFinal
<1>1. ASSUME OracleInv, NEW q \in quotes
      PROVE  /\ q.at \in Int /\ q.candle.time \in Int
             /\ q.candle = market[q.candle.time] \/ q.at < q.candle.time + Granularity
  <2>1. clock \in 0 .. MaxTime
    BY <1>1 DEF OracleInv, MarketTypes
  <2>2. /\ q.at \in 0 .. clock /\ q.candle.time \in Buckets
        /\ q.candle = market[q.candle.time] \/ q.at < q.candle.time + Granularity
    BY <1>1, Zenon DEF OracleInv, QuotesAreTrue
  <2>3. q.candle.time \in Int
    BY <2>2, OracleAssumption, Zenon
  <2>4. q.at \in Int
    BY <2>1, <2>2
  <2> QED
    BY <2>2, <2>3, <2>4, Zenon
<1>2. ASSUME OracleInv, NEW q \in quotes, NEW d \in -MaxSkew .. MaxSkew,
             q.at + d >= q.candle.time + Granularity + MaxSkew
      PROVE  q.candle = market[q.candle.time]
  BY <1>1, <1>2, OracleAssumption
<1> SUFFICES ASSUME OracleInv, NEW e \in endorsed,
                    e.at >= e.candle.time + Granularity + MaxSkew
             PROVE  e.candle = market[e.candle.time]
  BY DEF EndorsedIsFinal
<1>3. PICK q \in quotes, d \in -MaxSkew .. MaxSkew :
        e = [candle |-> q.candle, at |-> q.at + d]
  BY DEF OracleInv, Backed
<1>4. e.candle = q.candle /\ e.at = q.at + d
  BY <1>3
<1> QED
  BY <1>2, <1>4

\* The invariant holds of every reachable state of the oracle.
LEMMA OracleInvHolds == Spec => []OracleInv
  BY InitOracle, NextOracle, PTL DEF Spec

\* For any number of buckets, prices, quotes and statements: what is stated a
\* skew after its bucket's end never has to be taken back.
THEOREM StatementsAreFinal == Spec => []EndorsedIsFinal
  BY OracleInvHolds, BackedIsFinal, PTL
================================================================================

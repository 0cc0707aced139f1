------------------------------ MODULE ProofOracle ------------------------------
(***************************************************************************)
(* What the whole system promises to somebody who only verifies bundles:   *)
(* an oracle that looks at a market, quotes candles as they stand, and     *)
(* endorses statements of the form "this was the candle at about time t",  *)
(* each within MaxSkew seconds of a quote.  Enclaves, connections,         *)
(* documents and certificates are how this is done, and not part of it.    *)
(***************************************************************************)
EXTENDS Integers

CONSTANTS
  Buckets,      \* candle starts
  Candles,      \* records with a field time
  Granularity,  \* how long a bucket is open
  MaxSkew,
  MaxTime

ASSUME OracleAssumption ==
  /\ Buckets \subseteq Int
  /\ Granularity \in Int
  /\ MaxSkew \in Nat
  /\ MaxTime \in Nat

VARIABLES
  clock,
  market,    \* the candle of every bucket, as it stands
  quotes,    \* [candle, at]: what was seen, and when
  endorsed   \* [candle, at]: what a verifier may accept

oracleVars == <<clock, market, quotes, endorsed>>

Init ==
  /\ clock = 0
  /\ market \in [Buckets -> Candles]
  /\ \A b \in Buckets : market[b].time = b
  /\ quotes = {}
  /\ endorsed = {}

Tick ==
  /\ clock < MaxTime
  /\ clock' = clock + 1
  /\ UNCHANGED <<market, quotes, endorsed>>

Move(b, candle) ==
  /\ b <= clock /\ clock < b + Granularity
  /\ candle.time = b
  /\ market' = [market EXCEPT ![b] = candle]
  /\ UNCHANGED <<clock, quotes, endorsed>>

Quote(b) ==
  /\ b <= clock
  /\ quotes' = quotes \cup {[candle |-> market[b], at |-> clock]}
  /\ UNCHANGED <<clock, market, endorsed>>

\* Mutant: a statement within twice the skew.
Backed_Twice ==
  {[candle |-> q.candle, at |-> q.at + d] :
     q \in quotes, d \in -2 * MaxSkew .. 2 * MaxSkew}

Backed ==
  {[candle |-> q.candle, at |-> q.at + d] : q \in quotes, d \in -MaxSkew .. MaxSkew}

Endorse ==
  /\ UNCHANGED <<clock, market, quotes>>
  /\ endorsed' \in {endorsed \cup {e} : e \in Backed}

Next ==
  \/ Tick
  \/ \E b \in Buckets, candle \in Candles : Move(b, candle)
  \/ \E b \in Buckets : Quote(b)
  \/ Endorse

Spec == Init /\ [][Next]_oracleVars

\* A statement may be about a candle that was still moving; but one dated
\* MaxSkew after the bucket's end states the final candle, since the quote
\* behind it was made when the bucket was closed (verify.rs,
\* verify_time_policy).
EndorsedIsFinal ==
  \A e \in endorsed :
    e.at >= e.candle.time + Granularity + MaxSkew => e.candle = market[e.candle.time]
================================================================================

--------------------------- MODULE ProofSystemProofs ---------------------------
(***************************************************************************)
(* Theorems about ProofSystem, for every value of its constants.           *)
(***************************************************************************)
EXTENDS ProofSystem, TLAPS

\* The functions of connections are functions: what EXCEPT needs to know.
Shape ==
  /\ pc \in [Conns -> States]
  /\ nsm_fds \subseteq Conns
  /\ request = [c \in Conns |-> request[c]]
  /\ answer = [c \in Conns |-> answer[c]]
  /\ payload = [c \in Conns |-> payload[c]]
  /\ reply = [c \in Conns |-> reply[c]]

\* The per-connection variables start as functions on Conns ...
LEMMA InitShape == Init => Shape
  BY DEF Init, ProverInit, Shape, States

\* ... and every step, of the code or of its surroundings, leaves them so.
LEMMA NextShape == Shape /\ [Next]_systemVars => Shape'
<1> SUFFICES ASSUME Shape, [Next]_systemVars PROVE Shape'
  OBVIOUS
<1> USE DEF Shape, States
<1>1. ASSUME NEW c \in Conns, NEW r, Return(c, r) PROVE Shape'
  BY <1>1 DEF Return, Leave, Goto
<1>2. ASSUME NEW c \in Conns, NEW e, Fail(c, e) PROVE Shape'
  BY <1>1, <1>2 DEF Fail
<1>3. ASSUME NEW c \in Conns, Accept(c) PROVE Shape'
  BY <1>3 DEF Accept, Goto
<1>4. ASSUME NEW c \in Conns, ReadFails(c) PROVE Shape'
  BY <1>4 DEF ReadFails, Goto
<1>5. ASSUME NEW c \in Conns, NEW h \in HttpRequests, ReadRequest(c, h) PROVE Shape'
  BY <1>5 DEF ReadRequest, Goto
<1>6. ASSUME NEW c \in Conns, ThreadStep(c) PROVE Shape'
  <2>1. CASE OpenAttester(c)
    BY <2>1 DEF OpenAttester, Goto
  <2>2. CASE OpenFails(c)
    BY <2>2, <1>2 DEF OpenFails
  <2>3. CASE ConnectCoinbase(c)
    BY <2>3 DEF ConnectCoinbase, Goto
  <2>4. CASE ConnectFails(c)
    BY <2>4, <1>2 DEF ConnectFails
  <2>5. CASE ReceiveAnswer(c)
    BY <2>5, <1>2 DEF ReceiveAnswer, Goto
  <2>6. CASE Attest(c)
    BY <2>6, <1>1 DEF Attest
  <2>7. CASE AttestFails(c)
    BY <2>7, <1>2 DEF AttestFails
  <2>8. CASE DecodePanics(c)
    BY <2>8 DEF DecodePanics, Leave, Goto
  <2> QED
    BY <1>6, <2>1, <2>2, <2>3, <2>4, <2>5, <2>6, <2>7, <2>8 DEF ThreadStep
<1>7. ASSUME NEW c \in Conns, NEW a, CoinbaseAnswers(c, a) PROVE Shape'
  BY <1>7 DEF CoinbaseAnswers
<1>8. ASSUME NEW c \in Conns, CoinbaseQuiet(c) \/ CoinbaseDrips(c) PROVE Shape'
  BY <1>8 DEF CoinbaseQuiet, CoinbaseDrips
<1>9. ASSUME NEW c \in Conns, ReadTimesOut(c) \/ FetchFails(c) PROVE Shape'
  BY <1>9, <1>2 DEF ReadTimesOut, FetchFails
<1>10. ASSUME NEW c \in Conns, WriteReply(c) \/ WriteFails(c) PROVE Shape'
  BY <1>10 DEF WriteReply, WriteFails, Goto
<1>11. ASSUME NEW image, RestartEnclave(image) PROVE Shape'
  BY <1>11 DEF RestartEnclave
<1>12. CASE UNCHANGED proverVars
  BY <1>12 DEF proverVars
<1>13. CASE OutsideAttests
  BY <1>13 DEF OutsideAttests
<1>14. ASSUME NEW c \in Conns, NEW args \in OnceArgs, OneShot(c, args) PROVE Shape'
  BY <1>14 DEF OneShot, RunOnce, Goto
<1> QED
  BY <1>3, <1>4, <1>5, <1>6, <1>7, <1>8, <1>9, <1>10, <1>11, <1>12, <1>13, <1>14
  DEF Next, ProverNext, systemVars, vars

-----------------------------------------------------------------------------
(* Types. *)

\* A refusal is a 400, 404 or 405.
LEMMA ApiAnswers ==
  ASSUME NEW method, NEW target, ~parse_public_proof_request(method, target).ok
  PROVE  parse_public_proof_request(method, target).err \in {400, 404, 405}
BY DEF parse_public_proof_request, Ok, Err

\* The part of TypeOK that speaks of Coinbase and of the histories.
WorldTypes ==
  /\ clock \in 0 .. MaxTime
  /\ market \in [Buckets -> Prices]
  /\ enclave \in {"release", "other"}
  /\ restarts \in 0 .. MaxRestarts
  /\ outside \in 0 .. MaxOutside
  /\ defaulted \subseteq Conns
  /\ \A o \in observed : o.at \in 0 .. clock
  /\ \A x \in issued : x.document[1] = (IF MockAttestation THEN "mock" ELSE "cose")

\* The part that speaks of the connections.
ConnTypes ==
  /\ attester \in [Conns -> 0 .. MaxTime]
  /\ quiet \in [Conns -> BOOLEAN]
  /\ \A c \in Conns : reply[c].status \in {0, 200, 400, 404, 405, 500, 502}

\* Where a thread has its attester, prove() has checked the request.
InProve == {"connecting", "fetching", "attesting"}
Checked ==
  \A c \in Conns : pc[c] \in InProve =>
    validate_request(request[c].start, request[c].end)

Types == Shape /\ WorldTypes /\ ConnTypes /\ Checked

\* The inductive form of the type invariant gives the stated one.
LEMMA TypesImplyTypeOK == Types => TypeOK
  BY DEF Types, Shape, WorldTypes, ConnTypes, Checked, InProve, TypeOK

\* The service starts well typed, with nothing parsed, observed or issued.
LEMMA InitTypes == Init => Types
<1> SUFFICES ASSUME Init PROVE Types
  OBVIOUS
<1>1. WorldTypes
  BY CoinbaseAssumption, ProverAssumption, SystemAssumption
  DEF Init, CoinbaseInit, ProverInit, WorldTypes
<1>2. ConnTypes
  BY CoinbaseAssumption DEF Init, ProverInit, ConnTypes, NoReply
<1>3. Checked
  BY DEF Init, ProverInit, Checked, InProve
<1> QED
  BY <1>1, <1>2, <1>3, InitShape DEF Types

\* prove() itself looks at the request before it makes an attester, and nothing
\* replaces the request of a thread that has one.
LEMMA NextChecked == Shape /\ Checked /\ [Next]_systemVars => Checked'
<1> SUFFICES ASSUME Shape, Checked, [Next]_systemVars PROVE Checked'
  OBVIOUS
<1> USE DEF Checked, InProve
<1>1. ASSUME NEW c \in Conns, NEW l \in States \ InProve, Goto(c, l),
             \A d \in Conns \ {c} : request'[d] = request[d]
      PROVE  Checked'
  BY <1>1 DEF Goto, Shape
<1>2. ASSUME NEW c \in Conns, NEW l \in InProve, Goto(c, l), UNCHANGED request,
             validate_request(request[c].start, request[c].end)
      PROVE  Checked'
  BY <1>2 DEF Goto, Shape
<1>3. ASSUME NEW c \in Conns, NEW l \in States \ InProve, Leave(c, l) PROVE Checked'
  BY <1>1, <1>3 DEF Leave
<1>4. ASSUME NEW c \in Conns, NEW e, Fail(c, e) PROVE Checked'
  BY <1>3, <1>4 DEF Fail, Return, States
<1>5. ASSUME NEW c \in Conns,
             Accept(c) \/ ReadFails(c) \/ WriteReply(c) \/ WriteFails(c)
      PROVE  Checked'
  <2>1. UNCHANGED request /\ \E l \in States \ InProve : Goto(c, l)
    BY <1>5 DEF Accept, ReadFails, WriteReply, WriteFails, States
  <2> QED
    BY <1>1, <2>1
<1>6. ASSUME NEW c \in Conns, NEW h \in HttpRequests, ReadRequest(c, h) PROVE Checked'
  <2>1. \A d \in Conns \ {c} : request'[d] = request[d]
    BY <1>6 DEF ReadRequest, Shape
  <2>2. Goto(c, "opening") \/ Goto(c, "replying")
    BY <1>6 DEF ReadRequest
  <2> QED
    BY <1>1, <2>1, <2>2 DEF States
<1>7. ASSUME NEW c \in Conns, NEW args \in OnceArgs, OneShot(c, args) PROVE Checked'
  <2>1. \A d \in Conns \ {c} : request'[d] = request[d]
    BY <1>7 DEF OneShot, RunOnce, Shape
  <2>2. Goto(c, "opening") \/ Goto(c, "dropped")
    BY <1>7 DEF OneShot, RunOnce
  <2> QED
    BY <1>1, <2>1, <2>2 DEF States
<1>8. ASSUME NEW c \in Conns, ThreadStep(c) PROVE Checked'
  <2>1. CASE OpenAttester(c)
    BY <1>2, <2>1 DEF OpenAttester
  <2>2. CASE ConnectCoinbase(c)
    BY <1>2, <2>2 DEF ConnectCoinbase, At
  <2>3. CASE ReceiveAnswer(c)
    <3>1. CASE ObservedPayload(request[c], answer[c]).ok
      BY <1>2, <2>3, <3>1 DEF ReceiveAnswer, At
    <3>2. CASE ~ObservedPayload(request[c], answer[c]).ok
      BY <1>4, <2>3, <3>2 DEF ReceiveAnswer
    <3> QED
      BY <3>1, <3>2
  <2>4. CASE Attest(c)
    BY <1>3, <2>4 DEF Attest, Return, States
  <2>5. CASE OpenFails(c) \/ ConnectFails(c) \/ AttestFails(c)
    BY <1>4, <2>5 DEF OpenFails, ConnectFails, AttestFails
  <2>6. CASE DecodePanics(c)
    BY <1>3, <2>6 DEF DecodePanics, States
  <2> QED
    BY <1>8, <2>1, <2>2, <2>3, <2>4, <2>5, <2>6 DEF ThreadStep
<1>9. ASSUME NEW c \in Conns,
             \/ \E a \in Answers : CoinbaseAnswers(c, a)
             \/ CoinbaseQuiet(c) \/ CoinbaseDrips(c)
      PROVE  Checked'
  BY <1>9 DEF CoinbaseAnswers, CoinbaseQuiet, CoinbaseDrips
<1>10. ASSUME NEW c \in Conns, ReadTimesOut(c) \/ FetchFails(c) PROVE Checked'
  BY <1>4, <1>10 DEF ReadTimesOut, FetchFails
<1>11. ASSUME NEW image, RestartEnclave(image) PROVE Checked'
  BY <1>11 DEF RestartEnclave, Shape, States
<1>12. CASE UNCHANGED proverVars \/ OutsideAttests
  BY <1>12 DEF proverVars, OutsideAttests
<1> QED
  BY <1>5, <1>6, <1>7, <1>8, <1>9, <1>10, <1>11, <1>12
  DEF Next, ProverNext, systemVars, vars

\* No step of a thread, of Coinbase or of the host breaks the types.
LEMMA NextTypes == Types /\ [Next]_systemVars => Types'
<1> SUFFICES ASSUME Types, [Next]_systemVars PROVE WorldTypes' /\ ConnTypes'
  BY NextShape, NextChecked DEF Types
<1> USE CoinbaseAssumption, ProverAssumption, SystemAssumption
<1> USE DEF Types
<1>0. ASSUME UNCHANGED <<coinbaseVars, enclave, restarts, observed, issued, outside, defaulted>>
      PROVE  WorldTypes'
  BY <1>0 DEF WorldTypes, coinbaseVars
<1>1. ASSUME NEW c \in Conns, NEW r, Return(c, r),
             r.status \in {200, 400, 404, 405, 500, 502}
      PROVE  ConnTypes'
  BY <1>1 DEF Return, Leave, ConnTypes, Shape, WorldTypes
<1>2. ASSUME NEW c \in Conns, NEW e, Fail(c, e), UNCHANGED <<outside, defaulted>>
      PROVE  WorldTypes' /\ ConnTypes'
  <2>1. error_status(e) \in {500, 502}
    BY DEF error_status
  <2>2. Return(c, [status |-> error_status(e)]) /\ UNCHANGED issued
    BY <1>2 DEF Fail
  <2>3. ConnTypes'
    BY <2>1, <2>2, <1>1
  <2>4. WorldTypes'
    BY <2>2, <1>0, <1>2 DEF Return, Leave
  <2> QED
    BY <2>3, <2>4
<1>3. ASSUME NEW c \in Conns, Accept(c) \/ ReadFails(c), UNCHANGED <<outside, defaulted>>
      PROVE  WorldTypes' /\ ConnTypes'
  <2>1. UNCHANGED <<attester, quiet, request, reply>>
    BY <1>3 DEF Accept, ReadFails
  <2> QED
    BY <1>3, <1>0, <2>1 DEF Accept, ReadFails, ConnTypes
<1>4. ASSUME NEW c \in Conns, NEW h \in HttpRequests, ReadRequest(c, h),
             UNCHANGED <<outside, defaulted>>
      PROVE  WorldTypes' /\ ConnTypes'
  <2>1. WorldTypes'
    BY <1>4, <1>0 DEF ReadRequest
  <2> DEFINE parsed == parse_public_proof_request(h.method, h.target)
  <2>2. CASE parsed.ok
    BY <1>4, <2>1, <2>2 DEF ReadRequest, ConnTypes
  <2>3. CASE ~parsed.ok
    <3>1. parsed.err \in {400, 404, 405}
      BY <2>3, ApiAnswers
    <3>2. reply' = [reply EXCEPT ![c] = [status |-> parsed.err]]
          /\ UNCHANGED <<attester, quiet, request>>
      BY <1>4, <2>3 DEF ReadRequest
    <3> HIDE DEF parsed
    <3> QED
      BY <2>1, <3>1, <3>2 DEF ConnTypes, Shape
  <2> QED
    BY <2>2, <2>3
<1>5. ASSUME NEW c \in Conns, ThreadStep(c), UNCHANGED <<outside, defaulted>>
      PROVE  WorldTypes' /\ ConnTypes'
  <2>1. CASE OpenAttester(c)
    BY <2>1, <1>0, <1>5 DEF OpenAttester, ConnTypes, WorldTypes
  <2>2. CASE OpenFails(c)
    BY <2>2, <1>2, <1>5 DEF OpenFails
  <2>3. CASE ConnectCoinbase(c)
    BY <2>3, <1>0, <1>5 DEF ConnectCoinbase, ConnTypes
  <2>4. CASE ConnectFails(c)
    BY <2>4, <1>2, <1>5 DEF ConnectFails
  <2>5. CASE ReceiveAnswer(c)
    <3>1. CASE ObservedPayload(request[c], answer[c]).ok
      <4>1. /\ quiet' = [quiet EXCEPT ![c] = FALSE]
            /\ UNCHANGED <<coinbaseVars, enclave, restarts, observed, issued>>
            /\ UNCHANGED <<attester, request, reply>>
        BY <2>5, <3>1 DEF ReceiveAnswer
      <4>2. quiet' \in [Conns -> BOOLEAN]
        BY <4>1 DEF ConnTypes
      <4> QED
        BY <4>1, <4>2, <1>0, <1>5 DEF ConnTypes
    <3>2. CASE ~ObservedPayload(request[c], answer[c]).ok
      BY <2>5, <3>2, <1>2, <1>5 DEF ReceiveAnswer
    <3> QED
      BY <3>1, <3>2
  <2>6. CASE Attest(c)
    <3> DEFINE bytes == to_json(payload[c])
    <3>1. PICK doc \in AttestationDocs(c, sha384(bytes), NONCE_BYTES) :
             /\ issued' = issued \cup {[payload |-> bytes, document |-> doc]}
             /\ Return(c, [status |-> 200, bundle |-> ProofBundle(bytes, doc)])
      BY <2>6 DEF Attest
    <3>2. doc[1] = IF MockAttestation THEN "mock" ELSE "cose"
      BY DEF AttestationDocs, MockDocument, NsmDocument
    <3>3. ConnTypes'
      BY <3>1, <1>1
    <3>4. WorldTypes'
      BY <3>1, <3>2, <1>5 DEF Return, Leave, WorldTypes, coinbaseVars
    <3> QED
      BY <3>3, <3>4
  <2>7. CASE AttestFails(c)
    BY <2>7, <1>2, <1>5 DEF AttestFails
  <2>8. CASE DecodePanics(c)
    <3>1. WorldTypes'
      BY <2>8, <1>0, <1>5 DEF DecodePanics, Leave
    <3>2. ConnTypes'
      BY <2>8 DEF DecodePanics, Leave, ConnTypes, Shape, WorldTypes
    <3> QED
      BY <3>1, <3>2
  <2> QED
    BY <1>5, <2>1, <2>2, <2>3, <2>4, <2>5, <2>6, <2>7, <2>8 DEF ThreadStep
<1>6. ASSUME NEW c \in Conns, NEW a, CoinbaseAnswers(c, a), UNCHANGED <<outside, defaulted>>
      PROVE  WorldTypes' /\ ConnTypes'
  <2>1. ConnTypes'
    BY <1>6 DEF CoinbaseAnswers, ConnTypes
  <2>2. \A o \in observed' : o.at \in 0 .. clock'
    BY <1>6 DEF CoinbaseAnswers, WorldTypes, coinbaseVars
  <2> QED
    BY <1>6, <2>1, <2>2 DEF CoinbaseAnswers, WorldTypes, coinbaseVars
<1>7. ASSUME NEW c \in Conns, CoinbaseQuiet(c) \/ CoinbaseDrips(c), UNCHANGED <<outside, defaulted>>
      PROVE  WorldTypes' /\ ConnTypes'
  <2>1. PICK q \in BOOLEAN : quiet' = [quiet EXCEPT ![c] = q]
    BY <1>7 DEF CoinbaseQuiet, CoinbaseDrips
  <2>2. /\ UNCHANGED <<coinbaseVars, enclave, restarts, observed, issued>>
        /\ UNCHANGED <<attester, request, reply>>
    BY <1>7 DEF CoinbaseQuiet, CoinbaseDrips
  <2>3. quiet' \in [Conns -> BOOLEAN]
    BY <2>1 DEF ConnTypes
  <2> QED
    BY <2>2, <2>3, <1>0, <1>7 DEF ConnTypes
<1>8. ASSUME NEW c \in Conns, ReadTimesOut(c) \/ FetchFails(c), UNCHANGED <<outside, defaulted>>
      PROVE  WorldTypes' /\ ConnTypes'
  BY <1>8, <1>2 DEF ReadTimesOut, FetchFails
<1>9. ASSUME NEW c \in Conns, WriteReply(c) \/ WriteFails(c), UNCHANGED <<outside, defaulted>>
      PROVE  WorldTypes' /\ ConnTypes'
  <2>1. UNCHANGED <<attester, quiet, request, reply>>
    BY <1>9 DEF WriteReply, WriteFails
  <2> QED
    BY <1>9, <1>0, <2>1 DEF WriteReply, WriteFails, ConnTypes
<1>10. ASSUME NEW image \in {"release", "other"}, RestartEnclave(image),
              UNCHANGED <<outside, defaulted>>
       PROVE  WorldTypes' /\ ConnTypes'
  BY <1>10 DEF RestartEnclave, WorldTypes, ConnTypes, coinbaseVars
<1>11. ASSUME Tick \/ (\E b \in Buckets, p \in Prices : Trade(b, p)),
              UNCHANGED <<proverVars, outside, defaulted>>
       PROVE  WorldTypes' /\ ConnTypes'
  <2>1. ConnTypes'
    BY <1>11 DEF proverVars, ConnTypes
  <2>2. clock' \in 0 .. MaxTime /\ clock <= clock' /\ market' \in [Buckets -> Prices]
    BY <1>11 DEF Tick, Trade, WorldTypes
  <2>3. UNCHANGED <<enclave, restarts, outside, defaulted, observed, issued>>
    BY <1>11 DEF proverVars
  <2> QED
    BY <2>1, <2>2, <2>3 DEF WorldTypes
<1>12. CASE OutsideAttests
  <2>1. \A x \in issued' : x.document[1] = IF MockAttestation THEN "mock" ELSE "cose"
    BY <1>12 DEF OutsideAttests, OutsideDocuments, NsmDocument, OtherSigner, WorldTypes
  <2> QED
    BY <1>12, <2>1 DEF OutsideAttests, WorldTypes, ConnTypes, coinbaseVars
<1>13. CASE UNCHANGED systemVars
  BY <1>13, <1>0 DEF systemVars, vars, proverVars, ConnTypes
<1>14. ASSUME NEW c \in Conns, NEW args \in OnceArgs, OneShot(c, args)
       PROVE  WorldTypes' /\ ConnTypes'
  BY <1>14 DEF OneShot, RunOnce, WorldTypes, ConnTypes, coinbaseVars
<1> QED
  BY <1>3, <1>4, <1>5, <1>6, <1>7, <1>8, <1>9, <1>10, <1>11, <1>12, <1>13, <1>14
  DEF Next, ProverNext

\* Every reachable state is well typed: in particular the service writes only
\* the statuses reason_phrase knows, and no attester serves an invalid request.
THEOREM TypeCorrect == Spec => []TypeOK
<1>1. Spec => []Types
  BY InitTypes, NextTypes, PTL DEF Spec
<1> QED
  BY <1>1, TypesImplyTypeOK, PTL

-----------------------------------------------------------------------------
(* /dev/nsm. *)

\* Opening adds a thread that enters prove(); leaving it removes the thread.
LEMMA NextNsmFds ==
  Shape /\ NsmFdsAreHeld /\ [Next]_systemVars => NsmFdsAreHeld'
<1> SUFFICES ASSUME Shape, NsmFdsAreHeld, [Next]_systemVars
             PROVE  NsmFdsAreHeld'
  OBVIOUS
<1> USE DEF NsmFdsAreHeld
<1>0. ASSUME UNCHANGED nsm_fds,
             \A c \in Conns : pc'[c] \in InProve <=> pc[c] \in InProve
      PROVE  NsmFdsAreHeld'
  BY <1>0 DEF InProve
<1>1. ASSUME NEW c \in Conns, NEW l \in States \ InProve, Leave(c, l)
      PROVE  NsmFdsAreHeld'
  <2>1. nsm_fds' = nsm_fds \ {c}
    BY <1>1 DEF Leave
  <2>2. \A d \in Conns : pc'[d] = IF d = c THEN l ELSE pc[d]
    BY <1>1 DEF Leave, Goto, Shape
  <2> QED
    BY <1>1, <2>1, <2>2 DEF InProve
<1>2. ASSUME NEW c \in Conns, NEW e, Fail(c, e) PROVE NsmFdsAreHeld'
  BY <1>1, <1>2 DEF Fail, Return, States, InProve
<1>3. ASSUME NEW c \in Conns,
             \/ Accept(c) \/ ReadFails(c) \/ WriteReply(c) \/ WriteFails(c)
             \/ \E h \in HttpRequests : ReadRequest(c, h)
      PROVE  NsmFdsAreHeld'
  BY <1>0, <1>3
  DEF Accept, ReadFails, WriteReply, WriteFails, ReadRequest, At, Goto, Shape, InProve
<1>4. ASSUME NEW c \in Conns, ThreadStep(c) PROVE NsmFdsAreHeld'
  <2>1. CASE OpenAttester(c)
    <3>1. /\ pc[c] = "opening"
          /\ nsm_fds' = IF MockAttestation THEN nsm_fds ELSE nsm_fds \cup {c}
      BY <2>1 DEF OpenAttester, At
    <3>2. \A d \in Conns : pc'[d] = IF d = c THEN "connecting" ELSE pc[d]
      BY <2>1 DEF OpenAttester, Goto, Shape
    <3> QED
      BY <3>1, <3>2
  <2>2. CASE ConnectCoinbase(c)
    BY <2>2, <1>0 DEF ConnectCoinbase, At, Goto, Shape, InProve
  <2>3. CASE ReceiveAnswer(c)
    <3>1. CASE ObservedPayload(request[c], answer[c]).ok
      BY <2>3, <3>1, <1>0 DEF ReceiveAnswer, At, Goto, Shape, InProve
    <3>2. CASE ~ObservedPayload(request[c], answer[c]).ok
      BY <2>3, <3>2, <1>2 DEF ReceiveAnswer
    <3> QED
      BY <3>1, <3>2
  <2>4. CASE Attest(c)
    BY <2>4, <1>1 DEF Attest, Return, States, InProve
  <2>5. CASE OpenFails(c) \/ ConnectFails(c) \/ AttestFails(c)
    BY <2>5, <1>2 DEF OpenFails, ConnectFails, AttestFails
  <2>6. CASE DecodePanics(c)
    BY <2>6, <1>1 DEF DecodePanics, States, InProve
  <2> QED
    BY <1>4, <2>1, <2>2, <2>3, <2>4, <2>5, <2>6 DEF ThreadStep
<1>5. ASSUME NEW c \in Conns,
             \/ \E a \in Answers : CoinbaseAnswers(c, a)
             \/ CoinbaseQuiet(c) \/ CoinbaseDrips(c)
      PROVE  NsmFdsAreHeld'
  BY <1>5 DEF CoinbaseAnswers, CoinbaseQuiet, CoinbaseDrips
<1>6. ASSUME NEW c \in Conns, ReadTimesOut(c) \/ FetchFails(c) PROVE NsmFdsAreHeld'
  BY <1>6, <1>2 DEF ReadTimesOut, FetchFails
<1>7. ASSUME NEW image, RestartEnclave(image) PROVE NsmFdsAreHeld'
  BY <1>7 DEF RestartEnclave, Shape, States
<1>8. CASE UNCHANGED proverVars \/ OutsideAttests
  BY <1>8 DEF proverVars, OutsideAttests
<1>9. ASSUME NEW c \in Conns, NEW args \in OnceArgs, OneShot(c, args)
      PROVE  NsmFdsAreHeld'
  BY <1>0, <1>9 DEF OneShot, RunOnce, At, Goto, Shape, InProve
<1> QED
  BY <1>3, <1>4, <1>5, <1>6, <1>7, <1>8, <1>9 DEF Next, ProverNext, systemVars, vars

\* No path out of prove() leaves /dev/nsm open, and none closes it early.
THEOREM NsmHandlesAreHeld == Spec => []NsmFdsAreHeld
<1>1. Init => NsmFdsAreHeld
  BY DEF Init, ProverInit, NsmFdsAreHeld
<1> QED
  BY <1>1, InitShape, NextShape, NextNsmFds, PTL DEF Spec

-----------------------------------------------------------------------------
(* Evidence.  The claim is about bundles; what is inductive is the trail   *)
(* that leads to them: an answer in flight, a payload waiting for its      *)
(* attestation and a document made each have their observation.            *)

Describes(p, o) ==
  /\ p.request_start = o.start
  /\ p.http_date = o.answer.date
  /\ p.body_b64 = b64_encode(o.answer.body)
  /\ is_json(o.answer.body)
  /\ select_candle(from_json(o.answer.body)) = Ok(p.selected_candle)
  /\ p.tls = tls_info(o.answer.chain)

Truthful(o) ==
  /\ webpki_accepts(o.answer.chain, HOST, o.at)
  /\ o.answer.date = <<"imf", o.at>> \/ o.answer.date[1] # "imf"

Trail ==
  /\ \A o \in observed : Truthful(o)
  /\ \A c \in Conns : answer[c] # NoAnswer =>
       /\ pc[c] = "fetching"
       /\ \E o \in observed : /\ o.image = enclave
                              /\ o.start = request[c].start
                              /\ o.answer = answer[c]
  /\ \A c \in Conns : pc[c] = "attesting" =>
       \E o \in observed : o.image = enclave /\ Describes(payload[c], o)

Genuine(bytes) ==
  \E p : /\ bytes = to_json(p)
         /\ \E o \in observed : o.image = "release" /\ Describes(p, o)

IsMockOf(x) ==
  \E t \in 0 .. MaxTime :
    x.document = MockDocument(t, sha384(x.payload), NONCE_BYTES)
IsNsmOf(x, pcrs) ==
  \E t \in Nat : x.document = NsmDocument(pcrs, sha384(x.payload), NONCE_BYTES, t)
IsOtherOf(x) == \E t \in Nat : x.document = OtherSigner(sha384(x.payload), t)

Provenance(x) ==
  \/ MockAttestation /\ IsMockOf(x) /\ Genuine(x.payload)
  \/ ~MockAttestation /\ IsNsmOf(x, ReleasePcrs) /\ Genuine(x.payload)
  \/ ~MockAttestation /\ (IsNsmOf(x, OtherPcrs) \/ IsNsmOf(x, debug_pcrs))
  \/ ~MockAttestation /\ IsOtherOf(x)

Evidence ==
  /\ Trail
  /\ \A x \in issued : Provenance(x)
  /\ MockAttestation => enclave = "release"

EInv == Types /\ Evidence

\* A result is an Ok or an Err.
LEMMA SelectIsOk ==
  ASSUME NEW body, select_candle(body).ok
  PROVE  select_candle(body) = Ok(select_candle(body).val)
<1>1. \A row : parse_candle_object(row).ok
               => parse_candle_object(row) = Ok(parse_candle_object(row).val)
  BY DEF parse_candle_object, Ok, Err
<1> QED
  BY <1>1 DEF select_candle, Ok, Err

\* What Prover::prove builds describes the answer it was built from.
LEMMA PayloadDescribes ==
  ASSUME NEW req, NEW a, ObservedPayload(req, a).ok,
         NEW o, o.start = req.start, o.answer = a
  PROVE  Describes(ObservedPayload(req, a).val, o)
<1> DEFINE selected == select_candle(from_json(a.body))
<1>1. selected.ok
  BY DEF ObservedPayload, parse_http_response, Ok, Err
<1>2. selected = Ok(selected.val)
  BY <1>1, SelectIsOk
<1> HIDE DEF selected
<1>3. ObservedPayload(req, a).val.selected_candle = selected.val
  BY DEF ObservedPayload, parse_http_response, Ok, Err, selected
<1>4. LET p == ObservedPayload(req, a).val
      IN /\ p.request_start = req.start
         /\ p.http_date = a.date
         /\ p.body_b64 = b64_encode(a.body)
         /\ p.tls = tls_info(a.chain)
  BY DEF ObservedPayload, parse_http_response, Ok, Err
<1>5. is_json(a.body)
  BY DEF ObservedPayload, parse_http_response, Ok, Err
<1> QED
  BY <1>2, <1>3, <1>4, <1>5 DEF Describes, selected

\* What comes over the verified connection is dated when it was sent.
LEMMA AnswersAreTruthful ==
  ASSUME NEW a \in Answers, NEW o, o.answer = a, o.at = clock
  PROVE  Truthful(o)
BY DEF Answers, Truthful, DateHeader

\* Observations are never forgotten.
LEMMA GenuineStays ==
  ASSUME observed \subseteq observed', NEW x, Provenance(x) PROVE Provenance(x)'
<1>1. Genuine(x.payload) => Genuine(x.payload)'
  BY DEF Genuine
<1> QED
  BY <1>1 DEF Provenance, IsMockOf, IsNsmOf, IsOtherOf

\* Every step keeps the trail from each payload back to an observation, and
\* from each document back to who made it.
LEMMA NextEvidence == EInv /\ [Next]_systemVars => Evidence'
<1> SUFFICES ASSUME EInv, [Next]_systemVars PROVE Evidence'
  OBVIOUS
<1> USE DEF EInv
<1>0. ASSUME UNCHANGED <<enclave, issued>>, observed \subseteq observed', Trail'
      PROVE  Evidence'
  BY <1>0, GenuineStays DEF Evidence
<1>1. ASSUME NEW c \in Conns, NEW l \in {"replying", "dropped"}, Leave(c, l)
      PROVE  Trail'
  <2>1. UNCHANGED <<observed, request, enclave>>
    BY <1>1 DEF Leave
  <2>2. \A d \in Conns : /\ answer'[d] = IF d = c THEN NoAnswer ELSE answer[d]
                         /\ payload'[d] = IF d = c THEN NoPayload ELSE payload[d]
                         /\ pc'[d] = IF d = c THEN l ELSE pc[d]
    BY <1>1 DEF Leave, Goto, Types, Shape
  <2> QED
    BY <2>1, <2>2 DEF Evidence, Trail, Truthful, Describes
<1>2. ASSUME NEW c \in Conns, NEW e, Fail(c, e) PROVE Evidence'
  BY <1>0, <1>1, <1>2 DEF Fail, Return, Leave
<1>3. ASSUME NEW c \in Conns, NEW l \in States \ {"fetching", "attesting"},
             NEW k \in States \ {"fetching", "attesting"}, At(c, k), Goto(c, l),
             UNCHANGED <<enclave, answer, payload, observed, issued>>,
             \A d \in Conns \ {c} : request'[d] = request[d]
      PROVE  Evidence'
  <2>1. answer[c] = NoAnswer
    BY <1>3 DEF Evidence, Trail, At
  <2>2. \A d \in Conns : pc'[d] = IF d = c THEN l ELSE pc[d]
    BY <1>3 DEF Goto, Types, Shape
  <2>3. Trail'
    BY <1>3, <2>1, <2>2 DEF Evidence, Trail, Truthful, Describes
  <2> QED
    BY <1>0, <1>3, <2>3
<1>4. ASSUME NEW c \in Conns,
             Accept(c) \/ ReadFails(c) \/ WriteReply(c) \/ WriteFails(c)
      PROVE  Evidence'
  BY <1>3, <1>4 DEF Accept, ReadFails, WriteReply, WriteFails, At, States
<1>5. ASSUME NEW c \in Conns, NEW h \in HttpRequests, ReadRequest(c, h)
      PROVE  Evidence'
  <2>1. /\ At(c, "reading")
        /\ Goto(c, "opening") \/ Goto(c, "replying")
        /\ UNCHANGED <<enclave, answer, payload, observed, issued>>
    BY <1>5 DEF ReadRequest
  <2>2. \A d \in Conns \ {c} : request'[d] = request[d]
    BY <1>5 DEF ReadRequest, Types, Shape
  <2> QED
    BY <1>3, <2>1, <2>2 DEF States
<1>6. ASSUME NEW c \in Conns, ThreadStep(c) PROVE Evidence'
  <2>1. CASE OpenAttester(c)
    BY <1>3, <2>1 DEF OpenAttester, States
  <2>2. CASE ConnectCoinbase(c)
    <3>1. UNCHANGED <<enclave, request, answer, payload, observed, issued>>
      BY <2>2 DEF ConnectCoinbase
    <3>2. \A d \in Conns : pc'[d] = IF d = c THEN "fetching" ELSE pc[d]
      BY <2>2 DEF ConnectCoinbase, Goto, Types, Shape
    <3>3. Trail'
      BY <3>1, <3>2 DEF Evidence, Trail, Truthful, Describes
    <3> QED
      BY <1>0, <3>1, <3>3
  <2>3. CASE ReceiveAnswer(c)
    <3> DEFINE built == ObservedPayload(request[c], answer[c])
    <3>1. CASE built.ok
      <4>1. PICK o \in observed : /\ o.image = enclave
                                 /\ o.start = request[c].start
                                 /\ o.answer = answer[c]
        BY <2>3 DEF ReceiveAnswer, Evidence, Trail
      <4>2. Describes(built.val, o)
        BY <3>1, <4>1, PayloadDescribes
      <4>3. /\ payload' = [payload EXCEPT ![c] = built.val]
            /\ answer' = [answer EXCEPT ![c] = NoAnswer]
            /\ pc' = [pc EXCEPT ![c] = "attesting"]
            /\ UNCHANGED <<enclave, request, observed, issued>>
        BY <2>3, <3>1 DEF ReceiveAnswer, Goto
      <4> HIDE DEF built
      <4>4. \A d \in Conns : /\ answer'[d] = IF d = c THEN NoAnswer ELSE answer[d]
                             /\ payload'[d] = IF d = c THEN built.val ELSE payload[d]
                             /\ pc'[d] = IF d = c THEN "attesting" ELSE pc[d]
        BY <4>3 DEF Types, Shape
      <4>5. Trail'
        BY <4>1, <4>2, <4>3, <4>4 DEF Evidence, Trail, Truthful, Describes
      <4> QED
        BY <1>0, <4>3, <4>5
    <3>2. CASE ~built.ok
      BY <2>3, <3>2, <1>2 DEF ReceiveAnswer
    <3> QED
      BY <3>1, <3>2
  <2>4. CASE Attest(c)
    <3> DEFINE bytes == to_json(payload[c])
    <3>1. PICK doc \in AttestationDocs(c, sha384(bytes), NONCE_BYTES) :
             /\ issued' = issued \cup {[payload |-> bytes, document |-> doc]}
             /\ Return(c, [status |-> 200, bundle |-> ProofBundle(bytes, doc)])
      BY <2>4 DEF Attest
    <3> DEFINE x == [payload |-> bytes, document |-> doc]
    <3>2. UNCHANGED <<observed, enclave>>
      BY <3>1 DEF Return, Leave
    <3>3. PICK o \in observed : o.image = enclave /\ Describes(payload[c], o)
      BY <2>4 DEF Attest, At, Evidence, Trail
    <3>4. enclave = "release" => Genuine(bytes)
      BY <3>3 DEF Genuine
    <3>5. ASSUME MockAttestation PROVE Provenance(x)
      <4>1. doc = MockDocument(attester[c], sha384(bytes), NONCE_BYTES)
        BY <3>5 DEF AttestationDocs
      <4>2. attester[c] \in 0 .. MaxTime
        BY DEF Types, ConnTypes
      <4> QED
        BY <3>4, <3>5, <4>1, <4>2 DEF Provenance, IsMockOf, Evidence
    <3>6. ASSUME ~MockAttestation PROVE Provenance(x)
      <4>1. PICK d \in NsmDrifts :
              /\ clock + d >= 0
              /\ doc = NsmDocument(ImagePcrs, sha384(bytes), NONCE_BYTES, clock + d)
        BY <3>6 DEF AttestationDocs
      <4>2. clock + d \in Nat
        BY <4>1, ProverAssumption, CoinbaseAssumption DEF Types, WorldTypes
      <4>3. IsNsmOf(x, ImagePcrs)
        BY <4>1, <4>2 DEF IsNsmOf
      <4> QED
        BY <3>4, <3>6, <4>3 DEF Provenance, ImagePcrs
    <3>7. Provenance(x)
      BY <3>5, <3>6
    <3> HIDE DEF x
    <3>8. \A y \in issued' : Provenance(y)
      BY <3>1, <3>7 DEF Evidence, x
    <3>9. \A y \in issued' : Provenance(y)'
      BY <3>2, <3>8, GenuineStays
    <3>10. Trail'
      BY <3>1, <1>1 DEF Return
    <3> QED
      BY <3>2, <3>9, <3>10 DEF Evidence
  <2>5. CASE OpenFails(c) \/ ConnectFails(c) \/ AttestFails(c)
    BY <2>5, <1>2 DEF OpenFails, ConnectFails, AttestFails
  <2>6. CASE DecodePanics(c)
    BY <2>6, <1>0, <1>1 DEF DecodePanics, Leave
  <2> QED
    BY <1>6, <2>1, <2>2, <2>3, <2>4, <2>5, <2>6 DEF ThreadStep
<1>7. ASSUME NEW c \in Conns, NEW a \in Answers, CoinbaseAnswers(c, a)
      PROVE  Evidence'
  <2> DEFINE o == [start |-> request[c].start, at |-> clock, image |-> enclave,
                   answer |-> a]
  <2>1. /\ observed' = observed \cup {o}
        /\ pc[c] = "fetching"
        /\ UNCHANGED <<enclave, request, pc, payload, issued>>
    BY <1>7 DEF CoinbaseAnswers, At
  <2>2. \A d \in Conns : answer'[d] = IF d = c THEN a ELSE answer[d]
    BY <1>7 DEF CoinbaseAnswers, Types, Shape
  <2>3. Truthful(o)
    BY AnswersAreTruthful
  <2>4. o.image = enclave /\ o.start = request[c].start /\ o.answer = a
    OBVIOUS
  <2> HIDE DEF o
  <2>5. \A q \in observed' : Truthful(q)
    BY <2>1, <2>3 DEF Evidence, Trail
  <2>6. Trail'
    BY <2>1, <2>2, <2>4, <2>5 DEF Evidence, Trail, Truthful, Describes
  <2> QED
    BY <1>0, <2>1, <2>6
<1>8. ASSUME NEW c \in Conns, CoinbaseQuiet(c) \/ CoinbaseDrips(c) PROVE Evidence'
  <2>1. UNCHANGED <<enclave, request, pc, answer, payload, observed, issued>>
    BY <1>8 DEF CoinbaseQuiet, CoinbaseDrips
  <2> QED
    BY <1>0, <2>1 DEF Evidence, Trail, Truthful, Describes
<1>9. ASSUME NEW c \in Conns, ReadTimesOut(c) \/ FetchFails(c) PROVE Evidence'
  BY <1>9, <1>2 DEF ReadTimesOut, FetchFails
<1>10. ASSUME NEW image, RestartEnclave(image) PROVE Evidence'
  <2>1. /\ UNCHANGED <<request, observed, issued>>
        /\ ~MockAttestation
        /\ \A d \in Conns : answer'[d] = NoAnswer /\ pc'[d] # "attesting"
    BY <1>10 DEF RestartEnclave
  <2>2. Trail'
    BY <2>1 DEF Evidence, Trail, Truthful
  <2> QED
    BY <2>1, <2>2, GenuineStays DEF Evidence
<1>11. CASE UNCHANGED proverVars
  <2>1. UNCHANGED <<enclave, request, pc, answer, payload, observed, issued>>
    BY <1>11 DEF proverVars
  <2> QED
    BY <1>0, <2>1 DEF Evidence, Trail, Truthful, Describes
<1>12. CASE OutsideAttests
  <2>0. PICK p \in OutsidePayloads :
          \E d \in OutsideDocuments(sha384(to_json(p))) :
            issued' = issued \cup {[payload |-> to_json(p), document |-> d]}
    BY <1>12 DEF OutsideAttests
  <2>1. PICK doc \in OutsideDocuments(sha384(to_json(p))) :
          issued' = issued \cup {[payload |-> to_json(p), document |-> doc]}
    BY <2>0
  <2> DEFINE x == [payload |-> to_json(p), document |-> doc]
  <2>2. clock \in Nat /\ ~MockAttestation
    BY <1>12, CoinbaseAssumption DEF OutsideAttests, Types, WorldTypes
  <2>3. IsNsmOf(x, OtherPcrs) \/ IsNsmOf(x, debug_pcrs) \/ IsOtherOf(x)
    BY <2>2 DEF OutsideDocuments, IsNsmOf, IsOtherOf
  <2>4. Provenance(x)
    BY <2>2, <2>3 DEF Provenance
  <2>5. UNCHANGED <<enclave, request, pc, answer, payload, observed>>
    BY <1>12 DEF OutsideAttests
  <2> HIDE DEF x
  <2>6. \A y \in issued' : Provenance(y)'
    BY <2>1, <2>4, <2>5, GenuineStays DEF Evidence, x
  <2> QED
    BY <2>5, <2>6 DEF Evidence, Trail, Truthful, Describes
<1>13. ASSUME NEW c \in Conns, NEW args \in OnceArgs, OneShot(c, args) PROVE Evidence'
  <2>1. /\ At(c, "idle")
        /\ Goto(c, "opening") \/ Goto(c, "dropped")
        /\ UNCHANGED <<enclave, answer, payload, observed, issued>>
    BY <1>13 DEF OneShot, RunOnce
  <2>2. \A d \in Conns \ {c} : request'[d] = request[d]
    BY <1>13 DEF OneShot, RunOnce, Types, Shape
  <2> QED
    BY <1>3, <2>1, <2>2 DEF States
<1> QED
  BY <1>4, <1>5, <1>6, <1>7, <1>8, <1>9, <1>10, <1>11, <1>12, <1>13
  DEF Next, ProverNext, systemVars, vars

\* The inductive invariant holds of every reachable state.
LEMMA EInvHolds == Spec => []EInv
<1>1. Init => Evidence
  BY DEF Init, ProverInit, Evidence, Trail
<1> QED
  BY <1>1, InitTypes, NextTypes, NextEvidence, PTL DEF Spec, EInv

\* In range, the code's wrapping arithmetic is exact.
LEMMA SkewIsExact ==
  ASSUME NEW t \in 0 .. I64_MAX, NEW d \in 0 .. I64_MAX, NEW s \in Nat,
         wrapping_abs(wrapping(t - d)) <= s
  PROVE  t - d \in -s .. s
<1> USE FormatAssumption
<1>1. wrapping(t - d) = t - d
  BY DEF wrapping, I64_MIN
<1>2. t - d < 0 => wrapping(-(t - d)) = -(t - d)
  BY DEF wrapping, I64_MIN
<1> QED
  BY <1>1, <1>2 DEF wrapping_abs

\* What acceptance says of a document y paired with payload bytes.
LEMMA AcceptanceFacts ==
  ASSUME NEW bytes, NEW doc, NEW now, Accepts(ProofBundle(bytes, doc), now)
  PROVE  LET att == VerifiedAttestation(Verifier, doc)
             p == from_json(bytes)
         IN /\ att.user_data = sha384(bytes)
            /\ attestation_verifies(Verifier, doc, now)
            /\ \A i \in required_pcrs : /\ i \in DOMAIN att.pcrs
                                        /\ att.pcrs[i] = Config.expected_pcrs[i]
            /\ att.timestamp_unix >= 0
            /\ is_http_date(p.http_date)
            /\ wrapping_abs(wrapping(att.timestamp_unix
                                       - parse_http_date_epoch(p.http_date)))
                 <= MaxSkew
BY DEF Accepts, verify_bundle, ProofBundle, b64_decode, b64_encode,
       verify_attestation_binding, verify_tls_certificate_chain,
       verify_time_policy, Config

\* Only the release enclave's own documents, or mock ones under the mock
\* verifier, are ever accepted.
LEMMA AcceptedIsGenuine ==
  ASSUME NEW y, Provenance(y), NEW bytes, NEW now,
         Accepts(ProofBundle(bytes, y.document), now)
  PROVE  /\ bytes = y.payload
         /\ Genuine(y.payload)
         /\ VerifiedAttestation(Verifier, y.document).timestamp_unix \in 0 .. I64_MAX
<1> DEFINE doc == y.document
           att == VerifiedAttestation(Verifier, doc)
<1>1. /\ att.user_data = sha384(bytes)
      /\ attestation_verifies(Verifier, doc, now)
      /\ \A i \in required_pcrs : /\ i \in DOMAIN att.pcrs
                                  /\ att.pcrs[i] = Config.expected_pcrs[i]
      /\ att.timestamp_unix >= 0
  BY AcceptanceFacts
<1>2. CASE MockAttestation /\ IsMockOf(y) /\ Genuine(y.payload)
  <2>1. PICK t \in 0 .. MaxTime : doc = MockDocument(t, sha384(y.payload), NONCE_BYTES)
    BY <1>2 DEF IsMockOf
  <2>2. att.timestamp_unix = t /\ att.user_data = sha384(y.payload)
    BY <1>2, <2>1 DEF VerifiedAttestation, Verifier, MockDocument
  <2> QED
    BY <1>1, <1>2, <2>2, CoinbaseAssumption, SystemAssumption, FormatAssumption
    DEF sha384
<1>3. ASSUME NEW pcrs, ~MockAttestation, IsNsmOf(y, pcrs)
      PROVE  /\ bytes = y.payload
             /\ att.timestamp_unix \in 0 .. I64_MAX
             /\ \A i \in required_pcrs : pcrs[i] = ReleasePcrs[i] /\ pcrs[i] # ZERO_PCR
  <2>1. PICK t \in Nat : doc = NsmDocument(pcrs, sha384(y.payload), NONCE_BYTES, t)
    BY <1>3 DEF IsNsmOf
  <2>2. /\ att.user_data = sha384(y.payload)
        /\ att.pcrs = [i \in {j \in DOMAIN pcrs : pcrs[j] # ZERO_PCR} |-> pcrs[i]]
        /\ att.timestamp_unix = timestamp_unix(doc[2])
    BY <1>3, <2>1 DEF VerifiedAttestation, Verifier, NsmDocument
  <2>3. timestamp_unix(doc[2]) \in I64
    BY <1>1, <1>3 DEF attestation_verifies, parse_and_verify_nitro_attestation, Verifier
  <2>4. bytes = y.payload
    BY <1>1, <2>2 DEF sha384
  <2>5. att.timestamp_unix \in 0 .. I64_MAX
    BY <1>1, <2>2, <2>3, FormatAssumption DEF I64, I64_MIN
  <2>6. Config.expected_pcrs = ReleasePcrs
    BY <1>3 DEF Config
  <2> HIDE DEF att, doc
  <2>7. \A i \in required_pcrs : pcrs[i] = ReleasePcrs[i] /\ pcrs[i] # ZERO_PCR
    BY <1>1, <2>2, <2>6
  <2> QED
    BY <2>4, <2>5, <2>7
<1>4. CASE ~MockAttestation /\ IsNsmOf(y, ReleasePcrs) /\ Genuine(y.payload)
  BY <1>3, <1>4
<1>5. CASE ~MockAttestation /\ (IsNsmOf(y, OtherPcrs) \/ IsNsmOf(y, debug_pcrs))
  BY <1>3, <1>5, ProverAssumption DEF debug_pcrs, required_pcrs
<1>6. CASE ~MockAttestation /\ IsOtherOf(y)
  <2>1. PICK t \in Nat : doc = OtherSigner(sha384(y.payload), t)
    BY <1>6 DEF IsOtherOf
  <2>2. Len(doc[2].chain) = 2 /\ doc[2].chain[1] = OtherRoot
    BY <2>1 DEF OtherSigner
  <2>3. \A i \in 1 .. Len(doc[2].chain) : verify_signature(doc[2].chain, i)
    BY <1>1, <1>6 DEF attestation_verifies, parse_and_verify_nitro_attestation, Verifier
  <2>4. verify_signature(doc[2].chain, 1)
    BY <2>2, <2>3
  <2> QED
    BY <2>2, <2>4, SystemAssumption DEF verify_signature
<1> QED
  BY <1>2, <1>4, <1>5, <1>6 DEF Provenance

\* The trail and the verifier's checks together give the observation.
LEMMA EvidenceSuffices == EInv => AcceptedWasObserved
<1> SUFFICES ASSUME EInv, NEW x \in issued, NEW y \in issued, NEW now,
                    Accepts(ProofBundle(x.payload, y.document), now)
             PROVE  WasObserved(ProofBundle(x.payload, y.document))
  BY DEF AcceptedWasObserved, Circulating
<1> DEFINE b == ProofBundle(x.payload, y.document)
           t == AttestedAt(b)
<1>1. Provenance(y)
  BY DEF EInv, Evidence
<1>2. /\ x.payload = y.payload /\ Genuine(y.payload)
      /\ VerifiedAttestation(Verifier, y.document).timestamp_unix \in 0 .. I64_MAX
  BY <1>1, AcceptedIsGenuine
<1>3. PICK p : /\ x.payload = to_json(p)
               /\ \E o \in observed : o.image = "release" /\ Describes(p, o)
  BY <1>2 DEF Genuine
<1>4. PICK o \in observed : o.image = "release" /\ Describes(p, o)
  BY <1>3
<1>5. PayloadOf(b) = p
  BY <1>3 DEF PayloadOf, ProofBundle, b64_encode, b64_decode, to_json, from_json
<1>6. t = VerifiedAttestation(Verifier, y.document).timestamp_unix
  BY DEF AttestedAt, DocumentOf, ProofBundle, b64_encode, b64_decode
<1>7. /\ is_http_date(p.http_date)
      /\ wrapping_abs(wrapping(t - parse_http_date_epoch(p.http_date))) <= MaxSkew
  <2>1. from_json(x.payload) = p
    BY <1>3 DEF to_json, from_json
  <2> QED
    BY <2>1, <1>6, AcceptanceFacts
<1>8. Truthful(o) /\ o.at \in 0 .. clock /\ clock \in 0 .. MaxTime
  BY DEF EInv, Evidence, Trail, Types, WorldTypes
<1>9. parse_http_date_epoch(p.http_date) = o.at
  BY <1>4, <1>7, <1>8 DEF Truthful, Describes, is_http_date, parse_http_date_epoch
<1>10. o.at \in 0 .. I64_MAX
  BY <1>8, CoinbaseAssumption, SystemAssumption, FormatAssumption
<1>11. t - o.at \in -MaxSkew .. MaxSkew
  BY <1>2, <1>6, <1>7, <1>9, <1>10, SkewIsExact, SystemAssumption
<1> HIDE DEF b, t
<1> QED
  BY <1>4, <1>5, <1>8, <1>11
  DEF WasObserved, Describes, Truthful, b64_encode, b64_decode, b, t

\* Whatever payload is put beside whatever document, and at whatever time it
\* is verified: an accepted bundle states a candle that Coinbase sent to the
\* release enclave for that request, within the skew of the attested time.
THEOREM AcceptedProofsWereObserved == Spec => []AcceptedWasObserved
  BY EInvHolds, EvidenceSuffices, PTL

-----------------------------------------------------------------------------
(* Historical proofs. *)

\* now appears in one check, and a later clock only makes that one easier.
LEMMA LaterClockAccepts ==
  ASSUME NEW bytes, NEW doc,
         NEW early \in 0 .. I64_MAX, NEW late \in 0 .. I64_MAX, early <= late,
         VerifiedAttestation(Verifier, doc).timestamp_unix \in 0 .. I64_MAX,
         Accepts(ProofBundle(bytes, doc), early)
  PROVE  Accepts(ProofBundle(bytes, doc), late)
<1> DEFINE att == VerifiedAttestation(Verifier, doc)
<1>1. verify_attestation_time_bounds(att, Config, early)
  BY DEF Accepts, verify_bundle, ProofBundle, b64_encode, b64_decode
<1> HIDE DEF att
<1>2. /\ wrapping(att.timestamp_unix - early) = att.timestamp_unix - early
      /\ wrapping(att.timestamp_unix - late) = att.timestamp_unix - late
  BY FormatAssumption DEF wrapping, I64_MIN, att
<1>3. att.timestamp_unix - early <= MaxFutureSkew
  BY <1>1, <1>2 DEF verify_attestation_time_bounds, Config
<1>4. verify_attestation_time_bounds(att, Config, late)
  BY <1>2, <1>3, SystemAssumption, FormatAssumption
  DEF verify_attestation_time_bounds, Config, att
<1>5. attestation_verifies(Verifier, doc, early)
        => attestation_verifies(Verifier, doc, late)
  BY DEF attestation_verifies, parse_and_verify_nitro_attestation
<1> QED
  BY <1>4, <1>5 DEF Accepts, verify_bundle, ProofBundle, b64_encode, b64_decode, att

\* README.md: "historical proofs remain verifiable".  No step of the system, and
\* in particular no passing of time, makes the verifier refuse what it took.
THEOREM HistoricalProofs == Spec => HistoricalProofsRemainVerifiable
<1> DEFINE Kept == \A bundle \in Circulating :
                     Accepts(bundle, clock) => Accepts(bundle, clock')
<1>1. EInv /\ EInv' /\ [Next]_systemVars => [Kept]_systemVars
  <2> SUFFICES ASSUME EInv, EInv', [Next]_systemVars,
                      NEW x \in issued, NEW y \in issued,
                      Accepts(ProofBundle(x.payload, y.document), clock)
               PROVE  Accepts(ProofBundle(x.payload, y.document), clock')
    BY DEF Circulating
  <2>1. clock \in 0 .. I64_MAX /\ clock' \in 0 .. I64_MAX
    BY CoinbaseAssumption, SystemAssumption, FormatAssumption
    DEF EInv, Types, WorldTypes
  <2>2. clock <= clock'
    <3>1. CASE Tick
      BY <3>1, <2>1 DEF Tick
    <3>2. CASE UNCHANGED clock
      BY <3>2, <2>1
    <3>3. CASE ProverNext
      <4>1. \A c, r : Return(c, r) => UNCHANGED clock
        BY DEF Return, Leave, coinbaseVars
      <4>2. \A c, e : Fail(c, e) => UNCHANGED clock
        BY <4>1 DEF Fail
      <4>3. \A c : ThreadStep(c) => UNCHANGED clock
        BY <4>1, <4>2
        DEF ThreadStep, OpenAttester, OpenFails, ConnectCoinbase, ConnectFails,
            ReceiveAnswer, DecodePanics, Leave, Attest, AttestFails, coinbaseVars
      <4>4. UNCHANGED clock
        BY <3>3, <4>2, <4>3
        DEF ProverNext, Accept, ReadFails, ReadRequest, CoinbaseAnswers,
            CoinbaseQuiet, CoinbaseDrips, ReadTimesOut, FetchFails, WriteReply,
            WriteFails, RestartEnclave, coinbaseVars
      <4> QED
        BY <4>4, <3>2
    <3> QED
      BY <3>1, <3>2, <3>3
      DEF Next, Trade, OneShot, RunOnce, OutsideAttests, coinbaseVars, systemVars, vars
  <2>3. VerifiedAttestation(Verifier, y.document).timestamp_unix \in 0 .. I64_MAX
    BY AcceptedIsGenuine DEF EInv, Evidence
  <2> QED
    BY <2>1, <2>2, <2>3, LaterClockAccepts
<1> QED
  BY <1>1, EInvHolds, PTL DEF Spec, HistoricalProofsRemainVerifiable
================================================================================

--------------------------- MODULE EnclaveBootProofs ---------------------------
(***************************************************************************)
(* The boot of an enclave, for every name, backlog and number of retries,  *)
(* deaths and terminations: what its variables hold, which name nitriding  *)
(* is given, and that the public port opens onto a prover that listens.    *)
(***************************************************************************)
EXTENDS EnclaveBoot, SequenceTheorems, TLAPS

\* Both retry loops count within their limits: an attempt is under way, or
\* slept on, only while one is left.
Counted ==
  /\ TypeOK
  /\ enclave \in {"connecting", "reading"} => tries < attempts
  /\ prover = "sleeping" => attempt < NITRIDING_READY_RETRIES

\* The constants that are numbers.
LEMMA Numbers ==
  /\ attempts \in Nat \ {0}
  /\ Backlog \in Nat
  /\ MaxDeaths \in Nat
  /\ MaxTerminations \in Nat
  /\ NITRIDING_READY_RETRIES \in Nat \ {0}
  /\ MaxLosses \in Nat
<1>1. /\ Retries \in Nat /\ Backlog \in Nat
      /\ MaxDeaths \in Nat /\ MaxTerminations \in Nat
  BY RuntimeConfigAssumption, Zenon
<1>2. NITRIDING_READY_RETRIES \in Nat \ {0} /\ MaxLosses \in Nat
  BY BootAssumption, Zenon
<1> QED
  BY <1>1, <1>2 DEF attempts

\* Nothing runs at first.
LEMMA InitCounted == Init => Counted
BY Numbers DEF Init, ConfigInit, BootInit, Counted, TypeOK

\* The steps of serve-fqdn.
LEMMA ServerCounted ==
  ASSUME Counted, ServerStep \/ WriteFails \/ ServerDies, UNCHANGED bootVars
  PROVE  Counted'
<1> USE Numbers DEF Counted, TypeOK, bootVars, fetchVars
<1>1. CASE StartServer
  BY <1>1 DEF StartServer
<1>2. CASE AcceptClient
  <2>1. /\ Head(queue) \in {"live", "gone"}
        /\ Tail(queue) \in Seq({"live", "gone"})
        /\ Len(Tail(queue)) = Len(queue) - 1
    BY <1>2, HeadTailProperties DEF AcceptClient
  <2> QED
    BY <1>2, <2>1 DEF AcceptClient
<1>3. ASSUME NEW n, WriteBytes(n) PROVE Counted'
  BY <1>3 DEF WriteBytes
<1>4. CASE DropClient
  BY <1>4 DEF DropClient
<1>5. CASE WriteFails
  BY <1>5 DEF WriteFails, ServerExits
<1>6. CASE ServerDies
  BY <1>6 DEF ServerDies, ServerExits
<1> QED
  BY <1>1, <1>2, <1>3, <1>4, <1>5, <1>6 DEF ServerStep

\* The steps of fetch-fqdn.
LEMMA FetchCounted ==
  ASSUME Counted, FetchStep, UNCHANGED bootVars
  PROVE  Counted'
<1> USE Numbers DEF Counted, TypeOK, bootVars, serverVars
<1>1. CASE StartEnclave
  BY <1>1 DEF StartEnclave
<1>2. CASE Connect
  <2>1. /\ Append(queue, "live") \in Seq({"live", "gone"})
        /\ Len(Append(queue, "live")) = Len(queue) + 1
    OBVIOUS
  <2> QED
    BY <1>2, <2>1 DEF Connect
<1>3. CASE ConnectFails
  BY <1>3 DEF ConnectFails
<1>4. CASE FetchReturns
  BY <1>4 DEF FetchReturns
<1>5. CASE WakeUp
  BY <1>5 DEF WakeUp
<1> QED
  BY <1>1, <1>2, <1>3, <1>4, <1>5 DEF FetchStep

\* The steps of nitriding and of the prover, and the end of both.
LEMMA BootCounted ==
  ASSUME Counted, NitridingStep \/ ProverStep \/ CallBreaks \/ EndOfEnclave
  PROVE  Counted'
<1> USE Numbers DEF Counted, TypeOK, configVars, serverVars, fetchVars
<1>1. CASE NitridingStep
  BY <1>1 DEF NitridingStep, StartNitriding, StartApp, NitridingAnswers
<1>2. CASE ProverStep
  BY <1>2 DEF ProverStep, Bind, BindFails, ConnectRefused, SendReady,
              CallReturns, SignalAgain, CallFails
<1>3. CASE CallBreaks
  BY <1>3 DEF CallBreaks
<1>4. CASE EndOfEnclave
  <2>1. /\ queue' \in Seq({"live", "gone"})
        /\ Len(queue') = Len(queue)
    BY <1>4 DEF EndOfEnclave, TerminateEnclave
  <2> QED
    BY <1>4, <2>1 DEF EndOfEnclave, TerminateEnclave
<1> QED
  BY <1>1, <1>2, <1>3, <1>4

\* No step leaves the limits.
LEMMA NextCounted == Counted /\ [Next]_allVars => Counted'
<1> SUFFICES ASSUME Counted, [Next]_allVars PROVE Counted'
  OBVIOUS
<1>1. CASE UNCHANGED allVars
  BY <1>1 DEF allVars, configVars, serverVars, fetchVars, bootVars, Counted, TypeOK
<1>2. CASE Next
  BY <1>2, ServerCounted, FetchCounted, BootCounted DEF Next, ConfigNext
<1> QED
  BY <1>1, <1>2

\* Every variable keeps its type; the retry loops of fetch-fqdn and of the
\* ready signal never count past their limits.
THEOREM BootTypes == Spec => []TypeOK
<1>1. Spec => []Counted
  BY InitCounted, NextCounted, PTL DEF Spec
<1> QED
  BY <1>1, PTL DEF Counted

-----------------------------------------------------------------------------
\* What the deployment promises of nitriding's internal server: fewer calls are
\* lost than the prover makes, and a repeated call is answered like the first.
MildFaults == MaxLosses < NITRIDING_READY_RETRIES /\ RepeatStatuses = {200}

\* Every attempt before the current one has cost a loss, and so has the current
\* one once it has failed.
Signalled ==
  /\ attempt <= losses + 1
  /\ prover = "sleeping" => attempt <= losses
  /\ prover = "calling" =>
       \/ call = <<"sent">>
       \/ call = <<"status", 200>>
       \/ call = <<"broken">> /\ attempt <= losses
  /\ PublicMeansListening

\* The ready signal fails for good only after more losses than there are.
LEMMA NextSignalled ==
  ASSUME MildFaults, Counted, Signalled, [Next]_allVars
  PROVE  Signalled'
<1> USE Numbers DEF Signalled, PublicMeansListening
<1>0. /\ attempt \in Nat /\ losses \in Nat /\ losses <= MaxLosses
      /\ MaxLosses < NITRIDING_READY_RETRIES
  BY DEF Counted, TypeOK, MildFaults
<1>1. CASE UNCHANGED bootVars
  BY <1>1 DEF bootVars
<1>2. CASE StartNitriding
  BY <1>2 DEF StartNitriding
<1>3. CASE StartApp
  BY <1>3 DEF StartApp
<1>4. CASE NitridingAnswers
  <2>1. call' = <<"status", 200>>
    BY <1>4 DEF NitridingAnswers, MildFaults
  <2> QED
    BY <1>4, <2>1 DEF NitridingAnswers
<1>5. CASE Bind \/ BindFails
  BY <1>0, <1>5 DEF Bind, BindFails
<1>6. CASE ConnectRefused
  BY <1>0, <1>6 DEF ConnectRefused, CallFails, Counted, TypeOK
<1>7. CASE SendReady
  BY <1>0, <1>7 DEF SendReady
<1>8. CASE CallReturns
  <2>1. CASE call = <<"status", 200>>
    BY <1>0, <1>8, <2>1 DEF CallReturns
  <2>2. CASE call # <<"status", 200>>
    <3>1. attempt <= losses
      BY <1>8, <2>2 DEF CallReturns
    <3>2. attempt < NITRIDING_READY_RETRIES
      BY <1>0, <3>1
    <3> QED
      BY <1>0, <1>8, <2>2, <3>1, <3>2 DEF CallReturns, CallFails
  <2> QED
    BY <2>1, <2>2
<1>9. CASE SignalAgain
  BY <1>0, <1>9 DEF SignalAgain
<1>10. CASE CallBreaks
  BY <1>0, <1>10 DEF CallBreaks
<1>11. CASE EndOfEnclave
  BY <1>11 DEF EndOfEnclave
<1> QED
  BY <1>1, <1>2, <1>3, <1>4, <1>5, <1>6, <1>7, <1>8, <1>9, <1>10, <1>11
  DEF Next, NitridingStep, ProverStep, allVars

\* nitriding opens the public port only onto a prover that has bound its own:
\* a lost answer makes the prover call again, and never makes it give up.
THEOREM PublicIsServed ==
  ASSUME MildFaults
  PROVE  Spec => []PublicMeansListening
<1>1. Init => Signalled
  BY DEF Init, BootInit, Signalled, PublicMeansListening
<1>2. Counted /\ Signalled /\ [Next]_allVars => Signalled'
  BY NextSignalled
<1>3. Signalled => PublicMeansListening
  BY DEF Signalled
<1> QED
  BY <1>1, <1>2, <1>3, InitCounted, NextCounted, PTL DEF Spec

-----------------------------------------------------------------------------
Char == {"x", "-", ".", "LF", "?"}

\* w is what a server of this name has written after some of its writes.
Begins(w, name) ==
  /\ w \in Seq(Char)
  /\ Len(w) <= Len(name) + 1
  /\ \A i \in 1 .. Len(w) : w[i] = IF i <= Len(name) THEN name[i] ELSE "LF"

\* The buffers it then has left to write.
Remaining(w, name) ==
  IF Len(w) < Len(name)
  THEN <<SubSeq(name, Len(w) + 1, Len(name)), <<"LF">>>>
  ELSE IF Len(w) = Len(name) THEN <<<<"LF">>>> ELSE <<>>

\* At most one connection is live: it is queued and nothing was written to it,
\* or it is the peer and what was written and what is left make up the name.  It
\* ends short of the name if it never was the peer, or if the server died.
Delivered ==
  /\ fqdn \in Seq(Char)
  /\ server # "down" => validate_fqdn(fqdn)
  /\ server # "writing" => peer = "none"
  /\ enclave # "reading" => link = "none"
  /\ \A i \in 1 .. Len(queue) : queue[i] = "live" =>
       /\ link = "open" /\ peer # "live"
       /\ \A j \in 1 .. Len(queue) : queue[j] = "live" => j = i
  /\ peer = "live" => link = "open" /\ left = Remaining(wire, fqdn)
  /\ link = "open" /\ peer # "live" => wire = <<>>
  /\ Begins(wire, fqdn)
  /\ wire # <<>> => validate_fqdn(fqdn)
  /\ link = "closed" => wire = <<>> \/ deaths > 0 \/ Len(wire) = Len(fqdn) + 1
  /\ NameIsServed

\* Without its line end, what has come of a valid name begins it.
LEMMA TrimmedBegins ==
  ASSUME NEW name \in Seq(Char), validate_fqdn(name),
         NEW w, Begins(w, name), w # <<>>
  PROVE  /\ IsPrefixOf(trimmed(w), name)
         /\ Len(w) = Len(name) + 1 => trimmed(w) = name
<1> DEFINE m == IF Len(w) <= Len(name) THEN Len(w) ELSE Len(name)
           kept == {n \in 1 .. Len(w) : w[n] # "LF"}
<1>1. /\ w \in Seq(Char) /\ Len(w) \in Nat /\ Len(name) \in Nat
      /\ Len(w) # 0 /\ Len(name) # 0 /\ Len(w) <= Len(name) + 1
  BY DEF Begins, validate_fqdn
<1>2. \A i \in 1 .. Len(name) : name[i] # "LF"
  BY DEF validate_fqdn
<1>3. m \in 1 .. Len(w) /\ m \in 1 .. Len(name)
  BY <1>1
<1>4. kept = 1 .. m
  BY <1>1, <1>2 DEF Begins
<1> HIDE DEF kept
<1>5. (CHOOSE n \in kept : \A k \in kept : k <= n) = m
  <2> HIDE DEF m
  <2>1. m \in kept /\ \A k \in kept : k <= m
    BY <1>3, <1>4
  <2>2. \A n \in kept : (\A k \in kept : k <= n) => n = m
    BY <1>1, <1>3, <1>4
  <2> QED
    BY <2>1, <2>2
<1>6. kept # {}
  BY <1>3, <1>4
<1>7. trimmed(w) = SubSeq(w, 1, m)
  BY <1>5, <1>6 DEF trimmed, kept
<1>8. SubSeq(w, 1, m) = SubSeq(name, 1, m)
  <2>1. \A i \in 1 .. m : w[i] = name[i]
    BY <1>1 DEF Begins
  <2> HIDE DEF m
  <2>2. \A i \in 1 .. m : w[i] \in Char /\ name[i] \in Char
    BY <1>1, <1>3
  <2>3. /\ SubSeq(w, 1, m) \in Seq(Char) /\ Len(SubSeq(w, 1, m)) = m
        /\ \A i \in 1 .. m : SubSeq(w, 1, m)[i] = w[i]
    BY <1>3, <2>2, SubSeqProperties
  <2>4. /\ SubSeq(name, 1, m) \in Seq(Char) /\ Len(SubSeq(name, 1, m)) = m
        /\ \A i \in 1 .. m : SubSeq(name, 1, m)[i] = name[i]
    BY <1>3, <2>2, SubSeqProperties
  <2> QED
    BY <2>1, <2>3, <2>4, SeqEqual
<1>9. Len(w) = Len(name) + 1 => m = Len(name)
  BY <1>1
<1> HIDE DEF m
<1>10. Len(SubSeq(name, 1, m)) = m
  BY <1>1, <1>3
<1>11. SubSeq(name, 1, Len(name)) = name
  BY SubSeqFull
<1>12. trimmed(w) = SubSeq(name, 1, m)
  BY <1>7, <1>8
<1>13. Len(trimmed(w)) = m
  BY <1>10, <1>12
<1>14. m <= Len(name)
  BY <1>1, <1>3
<1>15. IsPrefixOf(trimmed(w), name)
  BY <1>12, <1>13, <1>14, Zenon DEF IsPrefixOf
<1>16. Len(w) = Len(name) + 1 => trimmed(w) = name
  BY <1>9, <1>11, <1>12, Zenon
<1> QED
  BY <1>15, <1>16

\* Two sequences of one element, put together.
LEMMA OnePlusOne ==
  ASSUME NEW x, NEW y
  PROVE  <<x>> \o <<y>> = <<x, y>>
<1> DEFINE S == {x, y}
           xs == <<x>>
           ys == <<y>>
           both == <<x, y>>
<1>1. xs \in Seq(S) /\ ys \in Seq(S) /\ both \in Seq(S)
  OBVIOUS
<1>2. /\ Len(xs) = 1 /\ Len(ys) = 1 /\ Len(both) = 2
      /\ xs[1] = x /\ ys[1] = y /\ both[1] = x /\ both[2] = y
  OBVIOUS
<1> HIDE DEF S, xs, ys, both
<1>3. /\ xs \o ys \in Seq(S) /\ Len(xs \o ys) = Len(xs) + Len(ys)
      /\ \A i \in 1 .. Len(xs) + Len(ys) :
           (xs \o ys)[i] = IF i <= Len(xs) THEN xs[i] ELSE ys[i - Len(xs)]
  BY <1>1, ConcatProperties
<1>4. \A i \in 1 .. Len(xs \o ys) : (xs \o ys)[i] = both[i]
  BY <1>2, <1>3
<1>5. xs \o ys = both
  BY <1>1, <1>2, <1>3, <1>4, SeqEqual
<1> QED
  BY <1>5 DEF xs, ys, both

\* A write moves bytes from what is left to what was written.
LEMMA WriteMoves ==
  ASSUME NEW name \in Seq(Char), name # <<>>,
         NEW w, Begins(w, name),
         NEW rest, rest = Remaining(w, name), rest # <<>>,
         NEW n \in 1 .. Len(rest[1])
  PROVE  /\ Begins(w \o SubSeq(rest[1], 1, n), name)
         /\ Remaining(w \o SubSeq(rest[1], 1, n), name)
              = IF n = Len(rest[1])
                THEN Tail(rest)
                ELSE <<SubSeq(rest[1], n + 1, Len(rest[1]))>> \o Tail(rest)
<1> DEFINE piece == SubSeq(rest[1], 1, n)
           more == w \o piece
<1>1. /\ w \in Seq(Char) /\ Len(w) \in Nat /\ Len(name) \in Nat /\ Len(name) # 0
      /\ Len(w) <= Len(name)
  BY DEF Begins, Remaining
<1>2. CASE Len(w) < Len(name)
  <2> DEFINE tail == SubSeq(name, Len(w) + 1, Len(name))
  <2>1. /\ tail \in Seq(Char) /\ Len(tail) = Len(name) - Len(w)
        /\ \A i \in 1 .. Len(name) - Len(w) : tail[i] = name[Len(w) + i]
    BY <1>1, <1>2
  <2>2. rest = <<tail, <<"LF">>>>
    BY <1>2 DEF Remaining
  <2> HIDE DEF tail
  <2>3. rest[1] = tail /\ Tail(rest) = <<<<"LF">>>>
    BY <2>2
  <2>4. n \in Nat /\ 1 <= n /\ n <= Len(name) - Len(w)
    BY <1>1, <2>1, <2>3
  <2>5. /\ piece \in Seq(Char) /\ Len(piece) = n
        /\ \A i \in 1 .. n : piece[i] = name[Len(w) + i]
    BY <1>1, <2>1, <2>3, <2>4
  <2> HIDE DEF piece
  <2>6. /\ more \in Seq(Char) /\ Len(more) = Len(w) + n
        /\ \A i \in 1 .. Len(w) + n :
             more[i] = IF i <= Len(w) THEN w[i] ELSE piece[i - Len(w)]
    BY <1>1, <2>5, ConcatProperties
  <2> HIDE DEF more
  <2>7. \A i \in 1 .. Len(more) : more[i] = name[i] /\ i <= Len(name)
    <3> TAKE i \in 1 .. Len(more)
    <3>1. i \in Nat /\ 1 <= i /\ i <= Len(w) + n
      BY <1>1, <2>4, <2>6
    <3>2. i <= Len(name)
      BY <1>1, <2>4, <3>1
    <3>3. CASE i <= Len(w)
      BY <1>1, <2>6, <3>1, <3>2, <3>3 DEF Begins
    <3>4. CASE ~(i <= Len(w))
      <4>1. PICK k \in 1 .. n : k = i - Len(w) /\ i = Len(w) + k
        BY <1>1, <2>4, <3>1, <3>4
      <4>2. more[i] = piece[k]
        BY <2>6, <3>1, <3>4, <4>1
      <4> QED
        BY <2>5, <3>2, <4>1, <4>2
    <3> QED
      BY <3>3, <3>4
  <2>8. Begins(more, name)
    BY <1>1, <2>4, <2>6, <2>7 DEF Begins
  <2>9. CASE n = Len(rest[1])
    <3>1. Len(more) = Len(name)
      BY <1>1, <2>1, <2>3, <2>6, <2>9
    <3>2. Remaining(more, name) = <<<<"LF">>>>
      BY <1>1, <3>1 DEF Remaining
    <3> QED
      BY <2>3, <2>8, <2>9, <3>2 DEF more, piece
  <2>10. CASE n # Len(rest[1])
    <3>1. Len(more) < Len(name)
      BY <1>1, <2>1, <2>3, <2>4, <2>6, <2>10
    <3>2. Remaining(more, name)
            = <<SubSeq(name, Len(w) + n + 1, Len(name)), <<"LF">>>>
      BY <2>6, <3>1 DEF Remaining
    <3> DEFINE later == SubSeq(tail, n + 1, Len(tail))
               theirs == SubSeq(name, Len(w) + n + 1, Len(name))
    <3>3. later = theirs
      <4>0. /\ n + 1 \in Int /\ Len(tail) \in Nat /\ n < Len(tail)
            /\ Len(w) + n + 1 \in Int /\ Len(w) + n < Len(name)
        BY <1>1, <2>1, <2>3, <2>4, <2>10
      <4>1. /\ later \in Seq(Char) /\ Len(later) = Len(tail) - (n + 1) + 1
            /\ \A i \in 1 .. Len(tail) - (n + 1) + 1 : later[i] = tail[n + 1 + i - 1]
        <5>1. \A i \in n + 1 .. Len(tail) : tail[i] \in Char
          BY <2>1, <2>4, <4>0
        <5> QED
          BY <4>0, <5>1, SubSeqProperties
      <4>2. /\ theirs \in Seq(Char)
            /\ Len(theirs) = Len(name) - (Len(w) + n + 1) + 1
            /\ \A i \in 1 .. Len(name) - (Len(w) + n + 1) + 1 :
                 theirs[i] = name[Len(w) + n + 1 + i - 1]
        <5>1. \A i \in Len(w) + n + 1 .. Len(name) : name[i] \in Char
          BY <1>1, <2>4, <4>0
        <5> QED
          BY <1>1, <4>0, <5>1, SubSeqProperties
      <4> HIDE DEF later, theirs
      <4>3. Len(later) = Len(theirs)
        BY <1>1, <2>1, <2>4, <4>1, <4>2
      <4>4. ASSUME NEW i \in 1 .. Len(later) PROVE later[i] = theirs[i]
        <5>1. /\ i \in 1 .. Len(tail) - (n + 1) + 1
              /\ i \in 1 .. Len(name) - (Len(w) + n + 1) + 1
          BY <1>1, <2>1, <2>4, <4>1
        <5>2. PICK k \in 1 .. Len(name) - Len(w) :
                n + 1 + i - 1 = k /\ Len(w) + n + 1 + i - 1 = Len(w) + k
          BY <1>1, <2>1, <2>4, <5>1
        <5>3. later[i] = tail[k] /\ theirs[i] = name[Len(w) + k]
          BY <4>1, <4>2, <5>1, <5>2
        <5> QED
          BY <2>1, <5>2, <5>3
      <4> QED
        BY <4>1, <4>2, <4>3, <4>4, SeqEqual
    <3> HIDE DEF later, theirs
    <3>4. <<later>> \o <<<<"LF">>>> = <<later, <<"LF">>>>
      BY OnePlusOne
    <3>5. Remaining(more, name) = <<later>> \o Tail(rest)
      BY <2>3, <3>2, <3>3, <3>4, Zenon DEF theirs
    <3> QED
      BY <2>3, <2>8, <2>10, <3>5, Zenon DEF more, piece, later
  <2> QED
    BY <2>9, <2>10
<1>3. CASE Len(w) = Len(name)
  <2>1. rest = <<<<"LF">>>>
    BY <1>1, <1>3 DEF Remaining
  <2>2. rest[1] = <<"LF">> /\ Tail(rest) = <<>>
    BY <2>1
  <2>3. n = 1 /\ n = Len(rest[1])
    <3>1. Len(<<"LF">>) = 1
      OBVIOUS
    <3> QED
      BY <2>2, <3>1
  <2>4. piece = <<"LF">>
    <3>1. <<"LF">> \in Seq({"LF"}) /\ Len(<<"LF">>) = 1
      OBVIOUS
    <3>2. SubSeq(<<"LF">>, 1, 1) = <<"LF">>
      BY <3>1, SubSeqFull
    <3> QED
      BY <2>2, <2>3, <3>2
  <2> HIDE DEF piece
  <2>5. more = w \o <<"LF">> /\ <<"LF">> \in Seq(Char)
    <3>1. "LF" \in Char
      BY DEF Char
    <3>2. <<"LF">> \in Seq(Char)
      BY <3>1
    <3> QED
      BY <2>4, <3>2, Zenon
  <2> HIDE DEF more
  <2>6. /\ more \in Seq(Char) /\ Len(more) = Len(name) + 1
        /\ \A i \in 1 .. Len(name) : more[i] = w[i]
        /\ more[Len(name) + 1] = "LF"
    <3> DEFINE line == <<"LF">>
    <3>1. line \in Seq(Char) /\ Len(line) = 1 /\ line[1] = "LF"
      BY <2>5
    <3>2. more = w \o line
      BY <2>5
    <3> HIDE DEF line
    <3>3. /\ w \o line \in Seq(Char)
          /\ Len(w \o line) = Len(w) + Len(line)
          /\ \A i \in 1 .. Len(w) + Len(line) :
               (w \o line)[i] = IF i <= Len(w) THEN w[i] ELSE line[i - Len(w)]
      BY <1>1, <3>1, ConcatProperties
    <3>4. Len(more) = Len(name) + 1 /\ more \in Seq(Char)
      BY <1>3, <3>1, <3>2, <3>3
    <3>5. \A i \in 1 .. Len(name) : more[i] = w[i]
      BY <1>1, <1>3, <3>1, <3>2, <3>3
    <3>6. (Len(name) + 1) - Len(w) = 1 /\ ~(Len(name) + 1 <= Len(w))
      BY <1>1, <1>3
    <3>7. more[Len(name) + 1] = line[1]
      BY <1>1, <1>3, <3>1, <3>2, <3>3, <3>6
    <3> QED
      BY <3>1, <3>4, <3>5, <3>7
  <2>7. Begins(more, name)
    BY <1>1, <1>3, <2>6 DEF Begins
  <2>8. Remaining(more, name) = <<>>
    BY <1>1, <2>6 DEF Remaining
  <2> QED
    BY <2>2, <2>3, <2>7, <2>8 DEF more, piece
<1> QED
  BY <1>1, <1>2, <1>3

\* An enclave that has started keeps its name, and the server's deaths are
\* never uncounted.
LEMMA NameStays ==
  ASSUME NameIsServed, deaths \in Nat,
         enclave' = "started" => enclave = "started",
         UNCHANGED <<fqdn, proof_fqdn>>,
         deaths' = deaths \/ deaths' = deaths + 1
  PROVE  NameIsServed'
BY DEF NameIsServed

\* Nothing has been written at first.
LEMMA InitDelivered == Init => Delivered
<1> SUFFICES ASSUME Init PROVE Delivered
  OBVIOUS
<1>1. fqdn \in Seq(Char)
  BY RuntimeConfigAssumption DEF Init, ConfigInit, Char
<1>2. Begins(<<>>, fqdn)
  BY <1>1 DEF Begins
<1> QED
  BY <1>1, <1>2 DEF Init, ConfigInit, Delivered, NameIsServed

\* serve-fqdn writes the name to one connection at a time, in order.
LEMMA ServerDelivers ==
  ASSUME Counted, Delivered, ServerStep \/ WriteFails \/ ServerDies
  PROVE  Delivered'
<1> USE DEF Delivered
<1>0. /\ queue \in Seq({"live", "gone"}) /\ deaths \in Nat
      /\ fqdn \in Seq(Char)
  BY Numbers DEF Counted, TypeOK
<1>1. CASE StartServer
  <2>1. NameIsServed'
    BY <1>0, <1>1, NameStays DEF StartServer, fetchVars
  <2> QED
    BY <1>1, <2>1 DEF StartServer, fetchVars
<1>2. CASE AcceptClient
  <2>1. NameIsServed'
    BY <1>0, <1>2, NameStays DEF AcceptClient, fetchVars
  <2>2. /\ Head(queue) = queue[1] /\ Len(queue) \in Nat /\ Len(queue) >= 1
        /\ Len(Tail(queue)) = Len(queue) - 1
        /\ \A i \in 1 .. Len(Tail(queue)) : Tail(queue)[i] = queue[i + 1]
    BY <1>0, <1>2, HeadTailProperties DEF AcceptClient
  <2>3. peer' = queue[1] /\ queue' = Tail(queue) /\ peer = "none"
    BY <1>2, <2>2 DEF AcceptClient
  <2>4. UNCHANGED <<fqdn, deaths, enclave, link, wire>>
    BY <1>2 DEF AcceptClient, fetchVars
  <2>5. peer' = "live" =>
          link = "open" /\ left' = Remaining(wire, fqdn) /\ wire = <<>>
    <3>1. validate_fqdn(fqdn) /\ left' = <<fqdn, <<"LF">>>>
      BY <1>2 DEF AcceptClient
    <3>2. Len(<<>>) = 0 /\ Len(fqdn) \in Nat /\ Len(fqdn) # 0
      BY <1>0, <3>1 DEF validate_fqdn
    <3>3. SubSeq(fqdn, 1, Len(fqdn)) = fqdn
      BY <1>0, SubSeqFull
    <3>4. Remaining(<<>>, fqdn) = <<fqdn, <<"LF">>>>
      BY <3>2, <3>3 DEF Remaining
    <3> QED
      BY <2>2, <2>3, <3>1, <3>4
  <2>6. ASSUME NEW i \in 1 .. Len(queue'), queue'[i] = "live"
        PROVE  /\ link = "open" /\ peer' # "live"
               /\ \A j \in 1 .. Len(queue') : queue'[j] = "live" => j = i
    <3>1. \A j \in 1 .. Len(queue') :
            /\ j + 1 \in 1 .. Len(queue) /\ j \in Nat /\ j + 1 # 1
            /\ queue'[j] = queue[j + 1]
      BY <2>2, <2>3
    <3>2. 1 \in 1 .. Len(queue)
      BY <2>2
    <3>3. i + 1 \in 1 .. Len(queue) /\ queue[i + 1] = "live"
      BY <2>6, <3>1
    <3>4. link = "open" /\ \A j \in 1 .. Len(queue) : queue[j] = "live" => j = i + 1
      BY <3>3
    <3>5. queue[1] # "live"
      BY <3>1, <3>2, <3>4
    <3> QED
      BY <2>3, <3>1, <3>4, <3>5
  <2> QED
    BY <1>2, <2>1, <2>3, <2>4, <2>5, <2>6 DEF AcceptClient
<1>3. ASSUME NEW n, WriteBytes(n) PROVE Delivered'
  <2>1. NameIsServed'
    BY <1>0, <1>3, NameStays DEF WriteBytes
  <2>2. UNCHANGED <<fqdn, server, queue, peer, deaths, enclave, link>>
    BY <1>3 DEF WriteBytes
  <2>3. CASE peer = "live"
    <3>1. /\ left = Remaining(wire, fqdn) /\ left # <<>> /\ n \in 1 .. Len(left[1])
          /\ validate_fqdn(fqdn) /\ fqdn # <<>>
      BY <1>3, <2>3 DEF WriteBytes, validate_fqdn
    <3>2. wire' = wire \o SubSeq(left[1], 1, n)
      BY <1>3, <2>3 DEF WriteBytes
    <3>3. Begins(wire', fqdn) /\ left' = Remaining(wire', fqdn)
      <4>1. left' = IF n = Len(left[1])
                    THEN Tail(left)
                    ELSE <<SubSeq(left[1], n + 1, Len(left[1]))>> \o Tail(left)
        BY <1>3 DEF WriteBytes
      <4> HIDE DEF Delivered
      <4>2. Begins(wire, fqdn)
        BY DEF Delivered
      <4>3. PICK w, rest : w = wire /\ rest = left
        OBVIOUS
      <4>4. /\ Begins(w, fqdn) /\ rest = Remaining(w, fqdn) /\ rest # <<>>
            /\ n \in 1 .. Len(rest[1]) /\ fqdn # <<>>
        BY <3>1, <4>2, <4>3
      <4>5. /\ Begins(w \o SubSeq(rest[1], 1, n), fqdn)
            /\ Remaining(w \o SubSeq(rest[1], 1, n), fqdn)
                 = IF n = Len(rest[1])
                   THEN Tail(rest)
                   ELSE <<SubSeq(rest[1], n + 1, Len(rest[1]))>> \o Tail(rest)
        BY <1>0, <4>4, WriteMoves
      <4> QED
        BY <3>2, <4>1, <4>3, <4>5, Zenon
    <3> QED
      BY <2>1, <2>2, <2>3, <3>1, <3>3
  <2>4. CASE peer # "live"
    <3>1. wire' = wire
      BY <1>3, <2>4 DEF WriteBytes
    <3> QED
      BY <2>1, <2>2, <2>4, <3>1
  <2> QED
    BY <2>3, <2>4
<1>4. CASE DropClient
  <2>1. NameIsServed'
    BY <1>0, <1>4, NameStays DEF DropClient
  <2>2. peer = "live" => Len(wire) = Len(fqdn) + 1
    BY <1>0, <1>4 DEF DropClient, Remaining, Begins
  <2> QED
    BY <1>4, <2>1, <2>2 DEF DropClient
<1>5. CASE WriteFails
  <2>1. NameIsServed'
    BY <1>0, <1>5, NameStays DEF WriteFails, ServerExits
  <2> QED
    BY <1>5, <2>1 DEF WriteFails, ServerExits
<1>6. CASE ServerDies
  <2>1. NameIsServed'
    BY <1>0, <1>6, NameStays DEF ServerDies, ServerExits
  <2> QED
    BY <1>0, <1>6, <2>1 DEF ServerDies, ServerExits
<1> QED
  BY <1>1, <1>2, <1>3, <1>4, <1>5, <1>6 DEF ServerStep

\* fetch-fqdn hands on only what it has validated, and one connection's bytes.
LEMMA FetchDelivers ==
  ASSUME Counted, Delivered, FetchStep
  PROVE  Delivered'
<1> USE DEF Delivered
<1>0. /\ queue \in Seq({"live", "gone"}) /\ deaths \in Nat
      /\ fqdn \in Seq(Char)
  BY Numbers DEF Counted, TypeOK
<1>1. CASE StartEnclave \/ ConnectFails \/ WakeUp
  <2>1. /\ UNCHANGED <<fqdn, serverVars, deaths, link, wire, proof_fqdn>>
        /\ enclave # "reading" /\ enclave' # "reading" /\ enclave' # "started"
    BY <1>1 DEF StartEnclave, ConnectFails, WakeUp
  <2> QED
    BY <2>1 DEF serverVars, NameIsServed
<1>2. CASE Connect
  <2>1. /\ enclave' = "reading" /\ link' = "open" /\ wire' = <<>>
        /\ enclave = "connecting"
        /\ queue' = Append(queue, "live")
        /\ UNCHANGED <<fqdn, server, peer, left, deaths>>
    BY <1>2 DEF Connect
  <2>2. peer # "live" /\ \A i \in 1 .. Len(queue) : queue[i] # "live"
    BY <2>1
  <2>3. /\ Len(queue') = Len(queue) + 1 /\ Len(queue) \in Nat
        /\ \A i \in 1 .. Len(queue) : queue'[i] = queue[i]
    BY <1>0, <2>1, AppendProperties
  <2>4. \A i \in 1 .. Len(queue') : queue'[i] = "live" => i = Len(queue) + 1
    BY <2>2, <2>3
  <2>5. Begins(wire', fqdn)
    BY <1>0, <2>1 DEF Begins
  <2> QED
    BY <2>1, <2>2, <2>4, <2>5 DEF NameIsServed
<1>3. CASE FetchReturns
  <2>1. /\ link' = "none" /\ wire' = <<>> /\ link # "open" /\ enclave' # "reading"
        /\ UNCHANGED <<fqdn, server, queue, peer, left, deaths>>
    BY <1>3 DEF FetchReturns, serverVars
  <2>2. Begins(wire', fqdn)
    BY <1>0, <2>1 DEF Begins
  <2>3. NameIsServed'
    <3>1. CASE fetch_fqdn_once(wire, link)
      <4>1. proof_fqdn' = trimmed(wire) /\ link = "closed" /\ validate_fqdn(trimmed(wire))
        BY <1>3, <3>1 DEF FetchReturns, fetch_fqdn_once
      <4>2. wire # <<>>
        <5>1. trimmed(<<>>) = <<>>
          BY DEF trimmed
        <5> QED
          BY <4>1, <5>1 DEF validate_fqdn
      <4>3. /\ IsPrefixOf(trimmed(wire), fqdn)
            /\ Len(wire) = Len(fqdn) + 1 => trimmed(wire) = fqdn
        BY <1>0, <4>2, TrimmedBegins
      <4> QED
        BY <2>1, <4>1, <4>2, <4>3 DEF NameIsServed
    <3>2. CASE ~fetch_fqdn_once(wire, link)
      BY <1>3, <3>2 DEF FetchReturns, NameIsServed
    <3> QED
      BY <3>1, <3>2
  <2> QED
    BY <2>1, <2>2, <2>3
<1> QED
  BY <1>1, <1>2, <1>3 DEF FetchStep

\* Every step keeps written and left together the name.
LEMMA NextDelivered == Counted /\ Delivered /\ [Next]_allVars => Delivered'
<1> SUFFICES ASSUME Counted, Delivered, [Next]_allVars PROVE Delivered'
  OBVIOUS
<1>1. CASE UNCHANGED configVars
  BY <1>1 DEF configVars, serverVars, fetchVars, Delivered, NameIsServed
<1>2. CASE ServerStep \/ WriteFails \/ ServerDies
  BY <1>2, ServerDelivers
<1>3. CASE FetchStep
  BY <1>3, FetchDelivers
<1>4. CASE TerminateEnclave
  <2>1. /\ enclave' = "down" /\ link' = "none" /\ wire' = <<>>
        /\ queue' = [i \in 1 .. Len(queue) |-> "gone"]
        /\ peer' = IF peer = "live" THEN "gone" ELSE peer
        /\ UNCHANGED <<fqdn, server, left, deaths>>
    BY <1>4 DEF TerminateEnclave
  <2>2. \A i \in 1 .. Len(queue') : queue'[i] # "live"
    BY <2>1, Numbers DEF Counted, TypeOK
  <2>3. Begins(wire', fqdn)
    BY <2>1 DEF Delivered, Begins
  <2> QED
    BY <2>1, <2>2, <2>3 DEF Delivered, NameIsServed
<1> QED
  BY <1>1, <1>2, <1>3, <1>4
  DEF Next, ConfigNext, NitridingStep, ProverStep, EndOfEnclave, allVars,
      StartNitriding, StartApp, NitridingAnswers, Bind, BindFails,
      ConnectRefused, SendReady, CallReturns, SignalAgain, CallBreaks

\* The name the enclave serves under is the one the parent was given, or a valid
\* beginning of it when the server died: no connection of an enclave that was
\* terminated adds to it or takes from it.
THEOREM NameIsTheParents == Spec => []NameIsServed
<1>1. Delivered => NameIsServed
  BY DEF Delivered
<1> QED
  BY <1>1, InitCounted, NextCounted, InitDelivered, NextDelivered, PTL DEF Spec
================================================================================

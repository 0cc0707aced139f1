-------------------------- MODULE RequestReaderProofs --------------------------
(***************************************************************************)
(* read_http_request for every size of a read, every limit and every       *)
(* request: the bound on its buffer, that it returns what was asked, and   *)
(* that it takes what fits.  The middle part finds the words of a request  *)
(* line by where its bytes stand.                                          *)
(***************************************************************************)
EXTENDS RequestReader, SequenceTheorems, FiniteSetTheorems, TLAPS

\* While the loop goes on the limit has not been passed, so that one more read
\* can pass it by one buffer at most.
ReaderInv ==
  /\ stream \in Seq(Byte)
  /\ bytes \in Seq(Byte)
  /\ phase = "reading" => Len(bytes) <= MAX_REQUEST_BYTES
  /\ BufferIsBounded

\* The sizes by themselves.
LEMMA Sizes == BUF \in Nat /\ MAX_REQUEST_BYTES \in Nat
  BY ReaderAssumption, Zenon

\* Nothing has been read at first.
LEMMA InitReader == Init => ReaderInv
<1> SUFFICES ASSUME Init PROVE ReaderInv
  OBVIOUS
<1>1. Written(asked) \in Seq(Byte)
  <2>1. /\ asked.method \in Seq(Byte) /\ asked.target \in Seq(Byte)
        /\ asked.version \in Seq(Byte) /\ asked.rest \in Seq(Byte)
    BY ReaderAssumption DEF Init
  <2>2. \A x, y \in Byte : <<x>> \in Seq(Byte) /\ <<x, y>> \in Seq(Byte)
    OBVIOUS
  <2>3. "SP" \in Byte /\ "CR" \in Byte /\ "LF" \in Byte
    BY ReaderAssumption
  <2>4. <<"SP">> \in Seq(Byte) /\ CRLF \in Seq(Byte)
    BY <2>2, <2>3, Zenon DEF CRLF
  <2> QED
    BY <2>1, <2>4, ConcatProperties DEF Written
<1> QED
  BY <1>1, Sizes DEF Init, ReaderInv, BufferIsBounded

\* A read appends what it returned, and the loop's checks follow.
LEMMA NextReader == ReaderInv /\ [Next]_vars => ReaderInv'
<1> SUFFICES ASSUME ReaderInv, [Next]_vars PROVE ReaderInv'
  OBVIOUS
<1> USE DEF ReaderInv, BufferIsBounded
<1>1. ASSUME NEW n \in 1 .. BUF, Read(n) PROVE ReaderInv'
  <2> DEFINE piece == SubSeq(stream, Len(bytes) + 1, Len(bytes) + n)
  <2>1. Len(bytes) \in Nat /\ Len(stream) \in Nat /\ n \in Nat /\ n <= BUF
    BY Sizes
  <2>2. piece \in Seq(Byte) /\ Len(piece) = n
    BY <1>1, <2>1 DEF Read
  <2>3. bytes' = bytes \o piece /\ UNCHANGED stream
    BY <1>1 DEF Read
  <2> HIDE DEF piece
  <2>4. bytes' \in Seq(Byte) /\ Len(bytes') = Len(bytes) + n
    BY <2>2, <2>3, ConcatProperties
  <2>5. phase = "reading" /\ phase' = PhaseAfter(bytes')
    BY <1>1 DEF Read
  <2>6. phase' = "reading" => Len(bytes') <= MAX_REQUEST_BYTES
    BY <2>1, <2>4, <2>5, Sizes DEF PhaseAfter
  <2> QED
    BY <2>1, <2>3, <2>4, <2>5, <2>6, Sizes
<1>2. CASE EndOfStream \/ ReadError
  BY <1>2 DEF EndOfStream, ReadError
<1>3. CASE Parse
  BY <1>3 DEF Parse
<1>4. CASE UNCHANGED vars
  BY <1>4 DEF vars
<1> QED
  BY <1>1, <1>2, <1>3, <1>4 DEF Next

\* However a client sends, and whatever it sends, a thread's buffer stays within
\* the limit and one read.
THEOREM BufferBound == Spec => []BufferIsBounded
<1>1. Spec => []ReaderInv
  BY InitReader, NextReader, PTL DEF Spec
<1> QED
  BY <1>1, PTL DEF ReaderInv

-----------------------------------------------------------------------------
(* Where the bytes of a request line stand: m of the method, t of the      *)
(* target, v of the version.                                               *)

\* w begins with such a line and the CRLF behind it.
Laid(w, m, t, v) ==
  /\ w \in Seq(Byte)
  /\ m \in Nat \ {0} /\ t \in Nat \ {0} /\ v \in Nat \ {0}
  /\ Len(w) >= m + t + v + 4
  /\ \A i \in 1 .. m + t + v + 4 :
       IsSpace(w[i]) <=> i \in {m + 1, m + t + 2, m + t + v + 3, m + t + v + 4}
  /\ \A i \in 1 .. m + t + v + 4 : w[i] = "LF" <=> i = m + t + v + 4
  /\ \A i \in 1 .. m + t + v + 4 : w[i] = "CR" <=> i = m + t + v + 3

\* A sequence and one more element.
LEMMA PutBehind ==
  ASSUME NEW S, NEW s \in Seq(S), NEW n, n = Len(s), NEW x \in S,
         NEW u, u = s \o <<x>>
  PROVE  /\ u \in Seq(S)
         /\ Len(u) = n + 1
         /\ \A i \in 1 .. n : u[i] = s[i]
         /\ u[n + 1] = x
<1>1. Append(s, x) = u
  BY AppendIsConcat
<1>2. /\ Append(s, x) \in Seq(S)
      /\ Len(Append(s, x)) = Len(s) + 1
      /\ \A i \in 1 .. Len(s) : Append(s, x)[i] = s[i]
      /\ Append(s, x)[Len(s) + 1] = x
  BY AppendProperties
<1> QED
  BY <1>1, <1>2, Zenon

\* Two sequences, one behind the other.
LEMMA PutTogether ==
  ASSUME NEW S, NEW s \in Seq(S), NEW n, n = Len(s),
         NEW e \in Seq(S), NEW k, k = Len(e), NEW u, u = s \o e
  PROVE  /\ u \in Seq(S)
         /\ Len(u) = n + k
         /\ \A i \in 1 .. n : u[i] = s[i]
         /\ \A i \in 1 .. k : u[n + i] = e[i]
<1>1. /\ u \in Seq(S)
      /\ Len(u) = n + k
      /\ \A i \in 1 .. n + k : u[i] = IF i <= n THEN s[i] ELSE e[i - n]
  BY ConcatProperties
<1>2. n \in Nat /\ k \in Nat
  OBVIOUS
<1>3. ASSUME NEW i \in 1 .. k PROVE u[n + i] = e[i]
  <2>1. n + i \in 1 .. n + k /\ ~(n + i <= n) /\ (n + i) - n = i
    BY <1>2
  <2> QED
    BY <1>1, <2>1
<1>4. \A i \in 1 .. n : u[i] = s[i]
  BY <1>1, <1>2
<1> QED
  BY <1>1, <1>3, <1>4

\* The line end.
LEMMA LineEnd == /\ CRLF \in Seq(Byte) /\ 2 = Len(CRLF)
                 /\ CRLF[1] = "CR" /\ CRLF[2] = "LF"
<1>1. "CR" \in Byte /\ "LF" \in Byte
  BY ReaderAssumption, Zenon
<1>2. \A x, y \in Byte : <<x, y>> \in Seq(Byte)
  OBVIOUS
<1>3. CRLF \in Seq(Byte)
  BY <1>1, <1>2, Zenon DEF CRLF
<1> QED
  BY <1>3 DEF CRLF

\* The parts of a request line and the CRLF behind it are where w has them.
Stands(w, method, m, target, t, version, v) ==
  /\ m \in Nat /\ t \in Nat /\ v \in Nat
  /\ w \in Seq(Byte) /\ Len(w) >= m + t + v + 4
  /\ \A i \in 1 .. m : w[i] = method[i]
  /\ w[m + 1] = "SP"
  /\ \A i \in 1 .. t : w[m + 1 + i] = target[i]
  /\ w[m + t + 2] = "SP"
  /\ \A i \in 1 .. v : w[m + t + 2 + i] = version[i]
  /\ w[m + t + v + 3] = "CR"
  /\ w[m + t + v + 4] = "LF"

\* A part of a part that starts with it.
LEMMA Further ==
  ASSUME NEW n \in Nat, NEW k \in Nat, n <= k, NEW x, NEW y, NEW z,
         \A i \in 1 .. n : y[i] = x[i], \A i \in 1 .. k : z[i] = y[i]
  PROVE  \A i \in 1 .. n : z[i] = x[i]
OBVIOUS

\* The bytes of four parts written one behind the other as a request is.
LEMMA PartsStand ==
  ASSUME NEW method \in Seq(Byte), NEW target \in Seq(Byte),
         NEW version \in Seq(Byte), NEW rest \in Seq(Byte), "SP" \in Byte
  PROVE  Stands(method \o <<"SP">> \o target \o <<"SP">> \o version \o CRLF \o rest,
                method, Len(method), target, Len(target), version, Len(version))
<1>1. PICK m, t, v : m = Len(method) /\ t = Len(target) /\ v = Len(version)
  OBVIOUS
<1>2. m \in Nat /\ t \in Nat /\ v \in Nat
  BY <1>1
<1>3. PICK l : l = Len(rest)
  OBVIOUS
<1>4. l \in Nat
  BY <1>3
<1>5. PICK a, b, c, d : a = m + 1 /\ b = a + t /\ c = b + 1 /\ d = c + v
  OBVIOUS
<1>6. PICK w1, w2, w3, w4, w5 :
        /\ w1 = method \o <<"SP">> /\ w2 = w1 \o target
        /\ w3 = w2 \o <<"SP">> /\ w4 = w3 \o version /\ w5 = w4 \o CRLF
  OBVIOUS
<1>7. PICK w : w = w5 \o rest
  OBVIOUS
<1>8. /\ w1 \in Seq(Byte) /\ Len(w1) = m + 1
      /\ \A i \in 1 .. m : w1[i] = method[i]
      /\ w1[m + 1] = "SP"
  <2>1. w1 = method \o <<"SP">>
    BY <1>6
  <2> QED
    BY <1>1, <2>1, PutBehind
<1>9. w1 \in Seq(Byte) /\ a = Len(w1)
  BY <1>5, <1>8, Zenon
<1>10. /\ w2 \in Seq(Byte) /\ Len(w2) = a + t
       /\ \A i \in 1 .. a : w2[i] = w1[i]
       /\ \A i \in 1 .. t : w2[a + i] = target[i]
  <2>1. w2 = w1 \o target
    BY <1>6
  <2> QED
    BY <1>1, <1>9, <2>1, PutTogether
<1>11. w2 \in Seq(Byte) /\ b = Len(w2)
  BY <1>5, <1>10, Zenon
<1>12. /\ w3 \in Seq(Byte) /\ Len(w3) = b + 1
       /\ \A i \in 1 .. b : w3[i] = w2[i]
       /\ w3[b + 1] = "SP"
  <2>1. w3 = w2 \o <<"SP">>
    BY <1>6
  <2> QED
    BY <1>11, <2>1, PutBehind
<1>13. w3 \in Seq(Byte) /\ c = Len(w3)
  BY <1>5, <1>12, Zenon
<1>14. /\ w4 \in Seq(Byte) /\ Len(w4) = c + v
       /\ \A i \in 1 .. c : w4[i] = w3[i]
       /\ \A i \in 1 .. v : w4[c + i] = version[i]
  <2>1. w4 = w3 \o version
    BY <1>6
  <2> QED
    BY <1>1, <1>13, <2>1, PutTogether
<1>15. w4 \in Seq(Byte) /\ d = Len(w4)
  BY <1>5, <1>14, Zenon
<1>16. /\ w5 \in Seq(Byte) /\ Len(w5) = d + 2
       /\ \A i \in 1 .. d : w5[i] = w4[i]
       /\ \A i \in 1 .. 2 : w5[d + i] = CRLF[i]
  <2>1. w5 = w4 \o CRLF
    BY <1>6
  <2>2. PICK crlf, k : crlf = CRLF /\ k = 2
    OBVIOUS
  <2>3. crlf \in Seq(Byte) /\ k = Len(crlf) /\ w5 = w4 \o crlf
    BY <2>1, <2>2, LineEnd, Zenon
  <2>4. /\ w5 \in Seq(Byte) /\ Len(w5) = d + k
        /\ \A i \in 1 .. d : w5[i] = w4[i]
        /\ \A i \in 1 .. k : w5[d + i] = crlf[i]
    BY <1>15, <2>3, PutTogether
  <2> QED
    BY <2>2, <2>4, Zenon
<1>17. w5 \in Seq(Byte) /\ d + 2 = Len(w5)
  BY <1>16, Zenon
<1>18. /\ w \in Seq(Byte) /\ Len(w) = (d + 2) + l
       /\ \A i \in 1 .. d + 2 : w[i] = w5[i]
  <2>1. PICK n : n = d + 2
    OBVIOUS
  <2>2. n = Len(w5) /\ w5 \in Seq(Byte)
    BY <1>17, <2>1, Zenon
  <2>3. /\ w \in Seq(Byte) /\ Len(w) = n + l
        /\ \A i \in 1 .. n : w[i] = w5[i]
    BY <1>3, <1>7, <2>2, PutTogether
  <2> QED
    BY <2>1, <2>3, Zenon
<1>19. /\ a \in Nat /\ b \in Nat /\ c \in Nat /\ d \in Nat
       /\ m < a /\ a <= b /\ b < c /\ c <= d
       /\ m + t + 2 = c /\ m + t + v + 3 = d + 1 /\ m + t + v + 4 = d + 2
  BY <1>2, <1>5
<1>20. w \in Seq(Byte) /\ Len(w) >= m + t + v + 4
  BY <1>4, <1>18, <1>19
<1>21. \A i \in 1 .. d : w[i] = w4[i]
  <2>1. d \in Nat /\ d + 2 \in Nat /\ d <= d + 2
    BY <1>19
  <2>2. (\A i \in 1 .. d : w5[i] = w4[i]) /\ \A i \in 1 .. d + 2 : w[i] = w5[i]
    BY <1>16, <1>18
  <2> QED
    BY <2>1, <2>2, Further
<1>22. \A i \in 1 .. c : w[i] = w3[i]
  BY <1>14, <1>19, <1>21
<1>23. \A i \in 1 .. b : w[i] = w2[i]
  BY <1>12, <1>19, <1>22
<1>24. \A i \in 1 .. a : w[i] = w1[i]
  BY <1>10, <1>19, <1>23
<1>25. (\A i \in 1 .. m : w[i] = method[i]) /\ w[m + 1] = "SP"
  BY <1>2, <1>5, <1>8, <1>19, <1>24
<1>26. \A i \in 1 .. t : w[m + 1 + i] = target[i]
  <2>1. \A i \in 1 .. t : a + i \in 1 .. b
    BY <1>2, <1>5, <1>19
  <2> QED
    BY <1>5, <1>10, <1>23, <2>1
<1>27. w[m + t + 2] = "SP"
  <2>1. c \in 1 .. c /\ c = b + 1
    BY <1>5, <1>19
  <2>2. w[c] = w3[c] /\ w3[c] = "SP"
    BY <1>12, <1>22, <2>1
  <2> QED
    BY <1>19, <2>2
<1>28. \A i \in 1 .. v : w[m + t + 2 + i] = version[i]
  <2>1. \A i \in 1 .. v : c + i \in 1 .. d
    BY <1>2, <1>5, <1>19
  <2> QED
    BY <1>14, <1>19, <1>21, <2>1
<1>29. w[m + t + v + 3] = "CR" /\ w[m + t + v + 4] = "LF"
  <2>1. d + 1 \in 1 .. d + 2 /\ d + 2 \in 1 .. d + 2 /\ 1 \in 1 .. 2 /\ 2 \in 1 .. 2
    BY <1>19
  <2> QED
    BY <1>16, <1>18, <1>19, <2>1, LineEnd, Zenon
<1>30. Stands(w, method, m, target, t, version, v)
  BY <1>2, <1>20, <1>25, <1>26, <1>27, <1>28, <1>29, Zenon DEF Stands
<1> QED
  BY <1>1, <1>6, <1>7, <1>30, Zenon

\* Spaces and line ends are nowhere but between and behind the words.
LEMMA LineIsLaid ==
  ASSUME NEW w, NEW method, NEW m, NEW target, NEW t, NEW version, NEW v,
         Stands(w, method, m, target, t, version, v),
         m # 0, t # 0, v # 0,
         \A i \in 1 .. m : ~IsSpace(method[i]),
         \A i \in 1 .. t : ~IsSpace(target[i]),
         \A i \in 1 .. v : ~IsSpace(version[i])
  PROVE  Laid(w, m, t, v)
<1>1. /\ m \in Nat \ {0} /\ t \in Nat \ {0} /\ v \in Nat \ {0}
      /\ w \in Seq(Byte) /\ Len(w) >= m + t + v + 4
  BY DEF Stands
<1>2. /\ w[m + 1] = "SP" /\ w[m + t + 2] = "SP"
      /\ w[m + t + v + 3] = "CR" /\ w[m + t + v + 4] = "LF"
  BY DEF Stands
<1>3. \A i \in 1 .. m : ~IsSpace(w[i])
  BY DEF Stands
<1>4. \A i \in m + 2 .. m + t + 1 : ~IsSpace(w[i])
  <2> TAKE i \in m + 2 .. m + t + 1
  <2>1. PICK k \in 1 .. t : i = m + 1 + k
    BY <1>1
  <2> QED
    BY <2>1 DEF Stands
<1>5. \A i \in m + t + 3 .. m + t + v + 2 : ~IsSpace(w[i])
  <2> TAKE i \in m + t + 3 .. m + t + v + 2
  <2>1. PICK k \in 1 .. v : i = m + t + 2 + k
    <3>1. i - (m + t + 2) \in 1 .. v /\ i = m + t + 2 + (i - (m + t + 2))
      BY <1>1
    <3> QED
      BY <3>1, Zenon
  <2> QED
    BY <2>1 DEF Stands
<1>6. \A i \in 1 .. m + t + v + 4 :
        \/ i \in 1 .. m \/ i \in m + 2 .. m + t + 1 \/ i \in m + t + 3 .. m + t + v + 2
        \/ i \in {m + 1, m + t + 2, m + t + v + 3, m + t + v + 4}
  BY <1>1
<1>7. \A i \in 1 .. m + t + v + 4 :
        (i \in 1 .. m \/ i \in m + 2 .. m + t + 1 \/ i \in m + t + 3 .. m + t + v + 2)
        => i \notin {m + 1, m + t + 2, m + t + v + 3, m + t + v + 4}
  BY <1>1
<1>8. \A i \in 1 .. m + t + v + 4 :
       IsSpace(w[i]) <=> i \in {m + 1, m + t + 2, m + t + v + 3, m + t + v + 4}
  <2>1. \A i \in {m + 1, m + t + 2, m + t + v + 3, m + t + v + 4} : IsSpace(w[i])
    <3>1. IsSpace("SP") /\ IsSpace("CR") /\ IsSpace("LF")
      BY DEF IsSpace
    <3> QED
      BY <1>2, <3>1, Zenon
  <2> TAKE i \in 1 .. m + t + v + 4
  <2>2. CASE i \in {m + 1, m + t + 2, m + t + v + 3, m + t + v + 4}
    BY <2>1, <2>2, Zenon
  <2>3. CASE i \notin {m + 1, m + t + 2, m + t + v + 3, m + t + v + 4}
    <3>1. CASE i \in 1 .. m
      BY <1>3, <2>3, <3>1, Zenon
    <3>2. CASE i \in m + 2 .. m + t + 1
      BY <1>4, <2>3, <3>2, Zenon
    <3>3. CASE i \in m + t + 3 .. m + t + v + 2
      BY <1>5, <2>3, <3>3, Zenon
    <3> QED
      BY <1>6, <2>3, <3>1, <3>2, <3>3, Zenon
  <2> QED
    BY <2>2, <2>3
<1>9. \A ch : (ch = "LF" \/ ch = "CR") => IsSpace(ch)
  BY DEF IsSpace
<1>10. \A i \in 1 .. m + t + v + 4 : w[i] = "LF" <=> i = m + t + v + 4
  BY <1>1, <1>2, <1>8, <1>9
<1>11. \A i \in 1 .. m + t + v + 4 : w[i] = "CR" <=> i = m + t + v + 3
  BY <1>1, <1>2, <1>8, <1>9
<1> QED
  BY <1>1, <1>8, <1>10, <1>11 DEF Laid

\* The beginning of a sequence.
LEMMA Beginning ==
  ASSUME NEW w \in Seq(Byte), NEW n \in 0 .. Len(w)
  PROVE  /\ SubSeq(w, 1, n) \in Seq(Byte)
         /\ Len(SubSeq(w, 1, n)) = n
         /\ \A i \in 1 .. n : SubSeq(w, 1, n)[i] = w[i]
<1>1. \A i \in 1 .. n : w[i] \in Byte
  OBVIOUS
<1> QED
  BY <1>1, SubSeqProperties

\* The beginning of a beginning.
LEMMA BeginningOfBeginning ==
  ASSUME NEW w \in Seq(Byte), NEW n \in 0 .. Len(w), NEW k \in 0 .. n
  PROVE  SubSeq(SubSeq(w, 1, n), 1, k) = SubSeq(w, 1, k)
<1>1. PICK s : s = SubSeq(w, 1, n)
  OBVIOUS
<1>2. s \in Seq(Byte) /\ Len(s) = n /\ \A i \in 1 .. n : s[i] = w[i]
  BY <1>1, Beginning
<1>3. /\ SubSeq(s, 1, k) \in Seq(Byte) /\ Len(SubSeq(s, 1, k)) = k
      /\ \A i \in 1 .. k : SubSeq(s, 1, k)[i] = s[i]
  BY <1>2, Beginning
<1>4. k \in 0 .. Len(w)
  OBVIOUS
<1>5. /\ SubSeq(w, 1, k) \in Seq(Byte) /\ Len(SubSeq(w, 1, k)) = k
      /\ \A i \in 1 .. k : SubSeq(w, 1, k)[i] = w[i]
  BY <1>4, Beginning
<1>6. \A i \in 1 .. k : SubSeq(s, 1, k)[i] = SubSeq(w, 1, k)[i]
  BY <1>2, <1>3, <1>5
<1>7. SubSeq(s, 1, k) = SubSeq(w, 1, k)
  BY <1>3, <1>5, <1>6, SeqEqual
<1> QED
  BY <1>1, <1>7

\* The first line of what has been read is the request line once its LF is
\* there, and all that has been read before.
LEMMA FirstLine ==
  ASSUME NEW w, NEW m, NEW t, NEW v, Laid(w, m, t, v), NEW n \in 0 .. Len(w)
  PROVE  first_line(SubSeq(w, 1, n))
           = SubSeq(w, 1, IF n >= m + t + v + 4 THEN m + t + v + 2 ELSE n)
<1>1. PICK s : s = SubSeq(w, 1, n)
  OBVIOUS
<1>2. w \in Seq(Byte) /\ n \in Nat /\ n \in 0 .. Len(w)
  BY DEF Laid
<1>3. s \in Seq(Byte) /\ Len(s) = n /\ \A i \in 1 .. n : s[i] = w[i]
  BY <1>1, <1>2, Beginning
<1>4. PICK e : e = m + t + v + 4
  OBVIOUS
<1>5. /\ e \in Nat /\ e > 3 /\ e <= Len(w)
      /\ e - 1 = m + t + v + 3 /\ e - 2 = m + t + v + 2
  BY <1>4 DEF Laid
<1>6. /\ \A i \in 1 .. e : w[i] = "LF" <=> i = e
      /\ \A i \in 1 .. e : w[i] = "CR" <=> i = e - 1
  BY <1>4, <1>5, Zenon DEF Laid
<1> DEFINE stops == {i \in 1 .. Len(s) : s[i] = "LF"} \cup {Len(s) + 1}
           stop == CHOOSE i \in stops : \A j \in stops : i <= j
           last == IF stop <= Len(s) /\ stop > 1 /\ s[stop - 1] = "CR"
                   THEN stop - 2 ELSE stop - 1
<1>7. first_line(s) = SubSeq(s, 1, last)
  BY DEF first_line
<1>8. CASE n >= e
  <2>1. e \in stops /\ \A j \in stops : e <= j
    BY <1>2, <1>3, <1>5, <1>6, <1>8
  <2>2. stops \subseteq Nat
    BY <1>2, <1>3
  <2> HIDE DEF stops
  <2>3. stop = e
    <3>1. \A i \in stops : (\A j \in stops : i <= j) => i = e
      BY <1>5, <2>1, <2>2
    <3> QED
      BY <2>1, <3>1
  <2> HIDE DEF stop
  <2>4. s[stop - 1] = "CR"
    BY <1>2, <1>3, <1>5, <1>6, <1>8, <2>3
  <2>5. last = e - 2
    BY <1>2, <1>3, <1>5, <1>8, <2>3, <2>4
  <2>6. e - 2 \in 0 .. n
    BY <1>2, <1>5, <1>8
  <2>7. SubSeq(s, 1, e - 2) = SubSeq(w, 1, e - 2)
    BY <1>1, <1>2, <2>6, BeginningOfBeginning
  <2> QED
    BY <1>1, <1>4, <1>5, <1>7, <1>8, <2>5, <2>7
<1>9. CASE ~(n >= e)
  <2>1. stops = {n + 1}
    BY <1>2, <1>3, <1>5, <1>6, <1>9
  <2> HIDE DEF stops
  <2>2. stop = n + 1
    BY <1>2, <2>1
  <2> HIDE DEF stop
  <2>3. last = n
    BY <1>2, <1>3, <2>2
  <2>4. SubSeq(s, 1, n) = s
    BY <1>3, SubSeqFull
  <2> QED
    BY <1>1, <1>4, <1>7, <1>9, <2>3, <2>4
<1> QED
  BY <1>8, <1>9

\* The words of a line start at its beginning and behind its spaces.
LEMMA Starts ==
  ASSUME NEW w, NEW m, NEW t, NEW v, Laid(w, m, t, v),
         NEW n \in 0 .. m + t + v + 3, NEW f, f = SubSeq(w, 1, n)
  PROVE  WordStarts(f) = {i \in {1, m + 2, m + t + 3} : i <= n}
<1>1. /\ m \in Nat \ {0} /\ t \in Nat \ {0} /\ v \in Nat \ {0}
      /\ w \in Seq(Byte) /\ n \in Nat /\ n \in 0 .. Len(w)
  BY DEF Laid
<1>2. f \in Seq(Byte) /\ Len(f) = n /\ \A i \in 1 .. n : f[i] = w[i]
  BY <1>1, Beginning
<1>3. \A i \in 1 .. n : IsSpace(w[i]) <=> i \in {m + 1, m + t + 2, m + t + v + 3}
  BY <1>1 DEF Laid
<1>4. \A i \in 1 .. n :
        IsSpace(f[i]) <=> (i = m + 1 \/ i = m + t + 2 \/ i = m + t + v + 3)
  BY <1>2, <1>3
<1>5. ASSUME NEW i \in 1 .. n
      PROVE  (~IsSpace(f[i]) /\ (i = 1 \/ IsSpace(f[i - 1]))) <=>
               i \in {1, m + 2, m + t + 3}
  <2>1. CASE i = 1
    BY <1>1, <1>4, <2>1
  <2>2. CASE i # 1
    <3>1. i - 1 \in 1 .. n
      BY <1>1, <2>2
    <3>2. IsSpace(f[i - 1]) <=> (i = m + 2 \/ i = m + t + 3)
      BY <1>1, <1>4, <3>1
    <3> QED
      BY <1>1, <1>4, <2>2, <3>2
  <2> QED
    BY <2>1, <2>2
<1>6. \A i : i \in {1, m + 2, m + t + 3} /\ i <= n => i \in 1 .. n
  BY <1>1
<1>7. \A i \in 1 .. n : i <= n
  BY <1>1
<1> QED
  BY <1>2, <1>5, <1>6, <1>7 DEF WordStarts

\* S holds a, b and c, to be counted in this order, or not all of them.
Counts(S, a, b, c, n) ==
  /\ c <= n => /\ Cardinality(S) = 3
               /\ S = {a, b, c}
               /\ \A i \in S : Cardinality({j \in S : j <= i}) = 1 <=> i = a
               /\ \A i \in S : Cardinality({j \in S : j <= i}) = 2 <=> i = b
               /\ \A i \in S : Cardinality({j \in S : j <= i}) = 3 <=> i = c
  /\ ~(c <= n) => ~(Cardinality(S) >= 3)

\* Counting three starts in order.
LEMMA ThreeStarts ==
  ASSUME NEW n \in Nat, NEW a \in Nat, NEW b \in Nat, NEW c \in Nat,
         a < b, b < c, NEW S, S = {i \in {a, b, c} : i <= n}
  PROVE  Counts(S, a, b, c, n)
<1>1. IsFiniteSet({a}) /\ Cardinality({a}) = 1
  BY FS_Singleton
<1>2. IsFiniteSet({a, b}) /\ Cardinality({a, b}) = 2
  <2>1. {a} \cup {b} = {a, b} /\ b \notin {a}
    OBVIOUS
  <2>2. /\ IsFiniteSet({a} \cup {b})
        /\ Cardinality({a} \cup {b}) = Cardinality({a}) + 1
    BY <1>1, <2>1, FS_AddElement
  <2> QED
    BY <1>1, <2>1, <2>2
<1>3. Cardinality({a, b, c}) = 3
  <2>1. {a, b} \cup {c} = {a, b, c} /\ c \notin {a, b}
    OBVIOUS
  <2>2. Cardinality({a, b} \cup {c}) = Cardinality({a, b}) + 1
    BY <1>2, <2>1, FS_AddElement
  <2> QED
    BY <1>2, <2>1, <2>2
<1>4. CASE c <= n
  <2>1. /\ S = {a, b, c} /\ {j \in S : j <= a} = {a}
        /\ {j \in S : j <= b} = {a, b} /\ {j \in S : j <= c} = {a, b, c}
    BY <1>4
  <2>2. /\ Cardinality({j \in S : j <= a}) = 1 /\ Cardinality({j \in S : j <= b}) = 2
        /\ Cardinality({j \in S : j <= c}) = 3
    BY <1>1, <1>2, <1>3, <2>1, Zenon
  <2>3. a # b /\ b # c /\ a # c /\ 1 # 2 /\ 2 # 3 /\ 1 # 3
    OBVIOUS
  <2>4. \A i \in S : i = a \/ i = b \/ i = c
    BY <2>1
  <2>5. /\ \A i \in S : Cardinality({j \in S : j <= i}) = 1 <=> i = a
        /\ \A i \in S : Cardinality({j \in S : j <= i}) = 2 <=> i = b
        /\ \A i \in S : Cardinality({j \in S : j <= i}) = 3 <=> i = c
    BY <2>2, <2>3, <2>4, Zenon
  <2> QED
    BY <1>3, <1>4, <2>1, <2>5, Zenon DEF Counts
<1>5. CASE ~(c <= n)
  <2>1. S \in SUBSET {a, b}
    BY <1>5
  <2>2. Cardinality(S) <= 2 /\ Cardinality(S) \in Nat
    BY <1>2, <2>1, FS_Subset, FS_CardinalityType
  <2> QED
    BY <1>5, <2>2 DEF Counts
<1> QED
  BY <1>4, <1>5

\* A word runs from its start to the space or the end behind it.
LEMMA WordRuns ==
  ASSUME NEW f \in Seq(Byte), NEW k, NEW p \in 1 .. Len(f), NEW q \in p .. Len(f) + 1,
         p \in WordStarts(f),
         \A i \in WordStarts(f) : Cardinality({j \in WordStarts(f) : j <= i}) = k <=> i = p,
         \A i \in p .. q - 1 : ~IsSpace(f[i]),
         q = Len(f) + 1 \/ IsSpace(f[q])
  PROVE  word(f, k) = SubSeq(f, p, q - 1)
<1>1. (CHOOSE i \in WordStarts(f) : Cardinality({j \in WordStarts(f) : j <= i}) = k) = p
  OBVIOUS
<1> DEFINE stops == {j \in p .. Len(f) : IsSpace(f[j])} \cup {Len(f) + 1}
<1>2. Len(f) \in Nat
  OBVIOUS
<1>3. q \in stops /\ stops \subseteq Nat /\ \A j \in stops : q <= j
  <2>1. q \in stops
    BY <1>2
  <2>2. stops \subseteq Nat
    BY <1>2
  <2>3. \A j \in stops : q <= j
    BY <1>2
  <2> QED
    BY <2>1, <2>2, <2>3
<1> HIDE DEF stops
<1>4. (CHOOSE i \in stops : \A j \in stops : i <= j) = q
  <2>1. \A i \in stops : (\A j \in stops : i <= j) => i = q
    BY <1>2, <1>3
  <2> QED
    BY <1>3, <2>1
<1> QED
  BY <1>1, <1>4, Zenon DEF word, stops

\* A piece of w that stands where a part does is that part.
LEMMA PartIs ==
  ASSUME NEW w \in Seq(Byte), NEW x \in Seq(Byte), NEW o \in Nat,
         NEW n \in 0 .. Len(w), NEW k, k = Len(x), o + k <= n,
         \A i \in 1 .. k : w[o + i] = x[i]
  PROVE  SubSeq(SubSeq(w, 1, n), o + 1, o + k) = x
<1>1. PICK f : f = SubSeq(w, 1, n)
  OBVIOUS
<1>2. f \in Seq(Byte) /\ Len(f) = n /\ \A i \in 1 .. n : f[i] = w[i]
  BY <1>1, Beginning
<1>3. k \in Nat /\ n \in Nat
  OBVIOUS
<1>4. \A i \in o + 1 .. o + k : f[i] \in Byte
  BY <1>2, <1>3
<1>5. /\ SubSeq(f, o + 1, o + k) \in Seq(Byte)
      /\ Len(SubSeq(f, o + 1, o + k))
           = IF o + 1 <= o + k THEN (o + k) - (o + 1) + 1 ELSE 0
      /\ \A i \in 1 .. (o + k) - (o + 1) + 1 :
           SubSeq(f, o + 1, o + k)[i] = f[(o + 1) + i - 1]
  <2>1. o + 1 \in Int /\ o + k \in Int
    BY <1>3
  <2> QED
    BY <1>4, <2>1, SubSeqProperties
<1>6. PICK g : g = SubSeq(f, o + 1, o + k)
  OBVIOUS
<1>7. g \in Seq(Byte) /\ Len(g) = k
  BY <1>3, <1>5, <1>6
<1>8. ASSUME NEW i \in 1 .. k PROVE g[i] = x[i]
  <2>1. /\ i \in 1 .. (o + k) - (o + 1) + 1 /\ (o + 1) + i - 1 = o + i
        /\ o + i \in 1 .. n
    BY <1>3
  <2>2. g[i] = f[o + i] /\ f[o + i] = w[o + i]
    BY <1>2, <1>5, <1>6, <2>1
  <2> QED
    BY <2>2
<1>9. g = x
  BY <1>7, <1>8, SeqEqual
<1> QED
  BY <1>1, <1>6, <1>9

\* A request with a proper request line is laid out as one.
LEMMA RequestIsLaid ==
  ASSUME NEW r \in Requests, IsRequestLine(r),
         NEW w, w = Written(r), NEW method, method = r.method,
         NEW target, target = r.target, NEW version, version = r.version,
         NEW m, m = Len(method), NEW t, t = Len(target), NEW v, v = Len(version)
  PROVE  /\ method \in Seq(Byte) /\ target \in Seq(Byte) /\ version \in Seq(Byte)
         /\ Stands(w, method, m, target, t, version, v)
         /\ Laid(w, m, t, v)
<1>1. /\ method \in Seq(Byte) /\ target \in Seq(Byte) /\ version \in Seq(Byte)
      /\ r.rest \in Seq(Byte) /\ "SP" \in Byte
  BY ReaderAssumption, Zenon
<1>2. Stands(w, method, m, target, t, version, v)
  <2>1. PICK rest : rest = r.rest
    OBVIOUS
  <2>2. w = method \o <<"SP">> \o target \o <<"SP">> \o version \o CRLF \o rest
    BY <2>1, Zenon DEF Written
  <2>3. Stands(method \o <<"SP">> \o target \o <<"SP">> \o version \o CRLF \o rest,
               method, Len(method), target, Len(target), version, Len(version))
    BY <1>1, <2>1, PartsStand
  <2> QED
    BY <2>2, <2>3, Zenon
<1>3. /\ method # <<>> /\ target # <<>> /\ version # <<>>
      /\ \A i \in 1 .. m : ~IsSpace(method[i])
      /\ \A i \in 1 .. t : ~IsSpace(target[i])
      /\ \A i \in 1 .. v : ~IsSpace(version[i])
  BY Zenon DEF IsRequestLine
<1>4. m # 0 /\ t # 0 /\ v # 0
  BY <1>1, <1>3
<1>5. Laid(w, m, t, v)
  BY <1>2, <1>3, <1>4, LineIsLaid, Zenon
<1> QED
  BY <1>1, <1>2, <1>5

\* What Parse makes of the first n bytes of a request: with a third word it has
\* the method and the target, and with the line's end it has the version too.
LEMMA LineReads ==
  ASSUME NEW r \in Requests, IsRequestLine(r),
         NEW n \in 0 .. Len(Written(r)),
         NEW f, f = first_line(SubSeq(Written(r), 1, n))
  PROVE  /\ Cardinality(WordStarts(f)) >= 3 =>
              word(f, 1) = r.method /\ word(f, 2) = r.target
         /\ n >= Len(r.method) + Len(r.target) + Len(r.version) + 4 =>
              Cardinality(WordStarts(f)) >= 3 /\ word(f, 3) = r.version
<1>1. PICK w, method, target, version, m, t, v :
        /\ w = Written(r) /\ method = r.method /\ target = r.target
        /\ version = r.version
        /\ m = Len(method) /\ t = Len(target) /\ v = Len(version)
  OBVIOUS
<1>2. method \in Seq(Byte) /\ target \in Seq(Byte) /\ version \in Seq(Byte)
  BY <1>1, RequestIsLaid, Zenon
<1>3. Stands(w, method, m, target, t, version, v)
  BY <1>1, RequestIsLaid, Zenon
<1>4. Laid(w, m, t, v)
  BY <1>1, RequestIsLaid, Zenon
<1>5. /\ m \in Nat \ {0} /\ t \in Nat \ {0} /\ v \in Nat \ {0}
      /\ w \in Seq(Byte) /\ m + t + v + 4 <= Len(w)
      /\ n \in Nat /\ n \in 0 .. Len(w)
  <2>1. n \in 0 .. Len(w)
    BY <1>1
  <2>2. /\ m \in Nat \ {0} /\ t \in Nat \ {0} /\ v \in Nat \ {0}
        /\ w \in Seq(Byte) /\ Len(w) >= m + t + v + 4
    BY <1>4, Zenon DEF Laid
  <2> QED
    BY <2>1, <2>2
<1>6. PICK k : k = IF n >= m + t + v + 4 THEN m + t + v + 2 ELSE n
  OBVIOUS
<1>7. k \in 0 .. m + t + v + 3 /\ k \in 0 .. Len(w) /\ k \in Nat
  BY <1>5, <1>6
<1>8. f = SubSeq(w, 1, k)
  <2>1. first_line(SubSeq(w, 1, n))
           = SubSeq(w, 1, IF n >= m + t + v + 4 THEN m + t + v + 2 ELSE n)
    BY <1>4, <1>5, FirstLine
  <2> QED
    BY <1>1, <1>6, <2>1, Zenon
<1>9. f \in Seq(Byte) /\ Len(f) = k /\ \A i \in 1 .. k : f[i] = w[i]
  BY <1>5, <1>7, <1>8, Beginning
<1>10. PICK a, b, c : a = 1 /\ b = m + 2 /\ c = m + t + 3
  OBVIOUS
<1>11. /\ a \in Nat /\ b \in Nat /\ c \in Nat /\ a < b /\ b < c
       /\ b - 1 = m + 1 /\ c - 1 = m + t + 2
  BY <1>5, <1>10
<1>12. PICK S : S = WordStarts(f)
  OBVIOUS
<1>13. S = {i \in {a, b, c} : i <= k}
  <2>1. WordStarts(f) = {i \in {1, m + 2, m + t + 3} : i <= k}
    BY <1>4, <1>7, <1>8, Starts
  <2> QED
    BY <1>10, <1>12, <2>1, Zenon
<1>14. /\ c <= k => /\ Cardinality(S) = 3
                    /\ S = {a, b, c}
                    /\ \A i \in S : Cardinality({j \in S : j <= i}) = 1 <=> i = a
                    /\ \A i \in S : Cardinality({j \in S : j <= i}) = 2 <=> i = b
                    /\ \A i \in S : Cardinality({j \in S : j <= i}) = 3 <=> i = c
       /\ ~(c <= k) => ~(Cardinality(S) >= 3)
  <2>1. /\ k \in Nat /\ a \in Nat /\ b \in Nat /\ c \in Nat /\ a < b /\ b < c
    BY <1>7, <1>11
  <2>2. Counts(S, a, b, c, k)
    BY <1>13, <2>1, ThreeStarts
  <2> QED
    BY <2>2, Zenon DEF Counts
<1>15. \A i \in 1 .. k :
         IsSpace(f[i]) <=> (i = m + 1 \/ i = m + t + 2 \/ i = m + t + v + 3)
  <2>1. \A i \in 1 .. k :
          IsSpace(w[i]) <=> (i = m + 1 \/ i = m + t + 2 \/ i = m + t + v + 3)
    BY <1>4, <1>5, <1>7 DEF Laid
  <2> QED
    BY <1>9, <2>1, Zenon
<1>16. ASSUME c <= k PROVE word(f, 1) = method
  <2>1. PICK q, o : q = m + 1 /\ o = 0
    OBVIOUS
  <2>2. a \in 1 .. Len(f) /\ q \in a .. Len(f) + 1 /\ q \in 1 .. k
    BY <1>5, <1>7, <1>9, <1>10, <1>16, <2>1
  <2>3. (\A i \in a .. q - 1 : ~IsSpace(f[i])) /\ IsSpace(f[q])
    BY <1>5, <1>7, <1>10, <1>15, <2>1, <2>2
  <2>4. a \in S /\ \A i \in S : Cardinality({j \in S : j <= i}) = 1 <=> i = a
    BY <1>14, <1>16
  <2>5. word(f, 1) = SubSeq(f, a, q - 1)
    BY <1>9, <1>12, <2>2, <2>3, <2>4, WordRuns
  <2>6. SubSeq(SubSeq(w, 1, k), o + 1, o + m) = method
    <3>1. \A i \in 1 .. m : w[i] = method[i]
      BY <1>3, Zenon DEF Stands
    <3>2. o \in Nat /\ o + m <= k /\ \A i \in 1 .. m : o + i = i
      BY <1>5, <1>7, <1>10, <1>16, <2>1
    <3>3. \A i \in 1 .. m : w[o + i] = method[i]
      BY <3>1, <3>2, Zenon
    <3>4. /\ method \in Seq(Byte) /\ m = Len(method)
          /\ w \in Seq(Byte) /\ k \in 0 .. Len(w)
      BY <1>1, <1>2, <1>5, <1>7
    <3> QED
      BY <3>2, <3>3, <3>4, PartIs
  <2>7. o + 1 = a /\ o + m = q - 1
    BY <1>5, <1>10, <2>1
  <2> QED
    BY <1>8, <2>5, <2>6, <2>7, Zenon
<1>17. ASSUME c <= k PROVE word(f, 2) = target
  <2>1. PICK q, o : q = m + t + 2 /\ o = m + 1
    OBVIOUS
  <2>2. b \in 1 .. Len(f) /\ q \in b .. Len(f) + 1 /\ q \in 1 .. k
    BY <1>5, <1>9, <1>10, <1>16, <1>17, <2>1
  <2>3. (\A i \in b .. q - 1 : ~IsSpace(f[i])) /\ IsSpace(f[q])
    BY <1>5, <1>7, <1>10, <1>15, <2>1, <2>2
  <2>4. b \in S /\ \A i \in S : Cardinality({j \in S : j <= i}) = 2 <=> i = b
    BY <1>14, <1>17
  <2>5. word(f, 2) = SubSeq(f, b, q - 1)
    BY <1>9, <1>12, <2>2, <2>3, <2>4, WordRuns
  <2>6. SubSeq(SubSeq(w, 1, k), o + 1, o + t) = target
    <3>1. o \in Nat /\ o + t <= k
      BY <1>5, <1>7, <1>10, <1>17, <2>1
    <3>2. \A i \in 1 .. t : w[o + i] = target[i]
      BY <1>3, <2>1, Zenon DEF Stands
    <3>3. /\ target \in Seq(Byte) /\ t = Len(target)
          /\ w \in Seq(Byte) /\ k \in 0 .. Len(w)
      BY <1>1, <1>2, <1>5, <1>7
    <3> QED
      BY <3>1, <3>2, <3>3, PartIs
  <2>7. o + 1 = b /\ o + t = q - 1
    BY <1>5, <1>10, <2>1
  <2> QED
    BY <1>8, <2>5, <2>6, <2>7, Zenon
<1>18. ASSUME n >= m + t + v + 4 PROVE c <= k /\ word(f, 3) = version
  <2>1. PICK q, o : q = m + t + v + 3 /\ o = m + t + 2
    OBVIOUS
  <2>2. k = m + t + v + 2 /\ c <= k /\ q = Len(f) + 1
    BY <1>5, <1>6, <1>9, <1>10, <1>18, <2>1
  <2>3. c \in 1 .. Len(f) /\ q \in c .. Len(f) + 1
    BY <1>5, <1>9, <1>10, <2>1, <2>2
  <2>4. \A i \in c .. q - 1 : ~IsSpace(f[i])
    BY <1>5, <1>7, <1>10, <1>15, <2>1, <2>2
  <2>5. c \in S /\ \A i \in S : Cardinality({j \in S : j <= i}) = 3 <=> i = c
    BY <1>14, <2>2
  <2>6. word(f, 3) = SubSeq(f, c, q - 1)
    BY <1>9, <1>12, <2>2, <2>3, <2>4, <2>5, WordRuns
  <2>7. SubSeq(SubSeq(w, 1, k), o + 1, o + v) = version
    <3>1. o \in Nat /\ o + v <= k
      BY <1>5, <2>1, <2>2
    <3>2. \A i \in 1 .. v : w[o + i] = version[i]
      BY <1>3, <2>1, Zenon DEF Stands
    <3>3. /\ version \in Seq(Byte) /\ v = Len(version)
          /\ w \in Seq(Byte) /\ k \in 0 .. Len(w)
      BY <1>1, <1>2, <1>5, <1>7
    <3> QED
      BY <3>1, <3>2, <3>3, PartIs
  <2>8. o + 1 = c /\ o + v = q - 1
    BY <1>5, <1>10, <2>1
  <2> QED
    BY <1>8, <2>2, <2>6, <2>7, <2>8, Zenon
<1>19. Cardinality(WordStarts(f)) >= 3 => c <= k
  BY <1>12, <1>14
<1>20. c <= k => Cardinality(WordStarts(f)) >= 3
  BY <1>12, <1>14
<1> QED
  BY <1>1, <1>16, <1>17, <1>18, <1>19, <1>20, Zenon

\* The end of the headers is seen as soon as it has been read.
LEMMA HeaderEndIsSeen ==
  ASSUME NEW w \in Seq(Byte), NEW n \in 0 .. Len(w),
         NEW i \in 1 .. Len(w) - 3, i + 3 <= n,
         SubSeq(w, i, i + 3) = CRLF \o CRLF
  PROVE  has_header_end(SubSeq(w, 1, n))
<1>1. PICK s, x, o, k : s = SubSeq(w, 1, n) /\ x = SubSeq(w, i, i + 3) /\ o = i - 1 /\ k = 4
  OBVIOUS
<1>2. s \in Seq(Byte) /\ Len(s) = n
  BY <1>1, Beginning
<1>3. /\ Len(w) \in Nat /\ n \in Nat /\ i \in Nat /\ i >= 1 /\ i + 3 <= Len(w)
      /\ o \in Nat /\ o + 1 = i /\ o + k = i + 3 /\ o + k <= n /\ k = (i + 3) - i + 1
  BY <1>1
<1>4. /\ x \in Seq(Byte) /\ Len(x) = k /\ \A j \in 1 .. k : x[j] = w[i + j - 1]
  <2>1. \A j \in i .. i + 3 : w[j] \in Byte
    BY <1>3
  <2>2. /\ SubSeq(w, i, i + 3) \in Seq(Byte)
        /\ Len(SubSeq(w, i, i + 3)) = IF i <= i + 3 THEN (i + 3) - i + 1 ELSE 0
        /\ \A j \in 1 .. (i + 3) - i + 1 : SubSeq(w, i, i + 3)[j] = w[i + j - 1]
    BY <1>3, <2>1, SubSeqProperties
  <2> QED
    BY <1>1, <1>3, <2>2
<1>5. \A j \in 1 .. k : w[o + j] = x[j]
  <2>1. \A j \in 1 .. k : i + j - 1 = o + j
    BY <1>1, <1>3
  <2> QED
    BY <1>4, <2>1
<1>6. SubSeq(SubSeq(w, 1, n), o + 1, o + k) = x
  <2>1. k = Len(x) /\ x \in Seq(Byte) /\ o \in Nat /\ o + k <= n
    BY <1>3, <1>4
  <2> QED
    BY <1>5, <2>1, PartIs
<1>7. SubSeq(s, i, i + 3) = CRLF \o CRLF
  BY <1>1, <1>3, <1>6, Zenon
<1>8. i \in 1 .. Len(s) - 3
  BY <1>2, <1>3
<1>9. has_header_end(s)
  BY <1>7, <1>8, Zenon DEF has_header_end
<1> QED
  BY <1>1, <1>9

\* The headers end behind the request line: when their end has been read, so
\* has the line with its LF.
LEMMA HeaderEndIsBehind ==
  ASSUME NEW w, NEW m, NEW t, NEW v, Laid(w, m, t, v),
         NEW n \in 0 .. Len(w), has_header_end(SubSeq(w, 1, n))
  PROVE  n >= m + t + v + 4
<1>1. PICK s, e : s = SubSeq(w, 1, n) /\ e = m + t + v + 4
  OBVIOUS
<1>2. w \in Seq(Byte) /\ n \in Nat /\ e \in Nat /\ e <= Len(w)
  BY <1>1 DEF Laid
<1>3. s \in Seq(Byte) /\ Len(s) = n /\ \A i \in 1 .. n : s[i] = w[i]
  BY <1>1, <1>2, Beginning
<1>4. \A i \in 1 .. e : w[i] = "LF" => i = e
  BY <1>1, Zenon DEF Laid
<1>5. PICK i \in 1 .. Len(s) - 3 : SubSeq(s, i, i + 3) = CRLF \o CRLF
  BY <1>1 DEF has_header_end
<1>6. i \in Nat /\ i >= 1 /\ i + 3 <= n
  BY <1>2, <1>3
<1>7. SubSeq(s, i, i + 3)[2] = s[i + 1]
  <2>1. \A j \in i .. i + 3 : s[j] \in Byte
    BY <1>3, <1>6
  <2>2. \A j \in 1 .. (i + 3) - i + 1 : SubSeq(s, i, i + 3)[j] = s[i + j - 1]
    BY <1>6, <2>1, SubSeqProperties
  <2>3. 2 \in 1 .. (i + 3) - i + 1 /\ i + 2 - 1 = i + 1
    BY <1>6
  <2> QED
    BY <2>2, <2>3
<1>8. (CRLF \o CRLF)[2] = "LF"
  <2>1. PICK x, k : x = CRLF /\ k = 2
    OBVIOUS
  <2>2. x \in Seq(Byte) /\ k = Len(x) /\ x[2] = "LF"
    BY <2>1, LineEnd, Zenon
  <2>3. PICK u : u = x \o x
    OBVIOUS
  <2>4. \A j \in 1 .. k : u[j] = x[j]
    BY <2>2, <2>3, PutTogether
  <2>5. 2 \in 1 .. k
    BY <2>1
  <2>6. u[2] = "LF"
    BY <2>2, <2>4, <2>5, Zenon
  <2> QED
    BY <2>1, <2>3, <2>6, Zenon
<1>9. w[i + 1] = "LF"
  <2>1. i + 1 \in 1 .. n
    BY <1>2, <1>6
  <2>2. s[i + 1] = w[i + 1]
    BY <1>3, <2>1, Zenon
  <2> QED
    BY <1>5, <1>7, <1>8, <2>2, Zenon
<1>10. n >= e
  <2>1. ~(i + 1 \in 1 .. e) \/ i + 1 = e
    BY <1>4, <1>9, Zenon
  <2> QED
    BY <1>2, <1>6, <2>1
<1> QED
  BY <1>1, <1>10, Zenon

-----------------------------------------------------------------------------
\* What the thread has read is the beginning of what the client wrote; it goes
\* on to parse when the stream has ended or the headers have.
Progress ==
  /\ asked \in Requests /\ stream = Written(asked)
  /\ Len(bytes) <= Len(stream) /\ bytes = SubSeq(stream, 1, Len(bytes))
  /\ phase = "reading" => ended = "no"
  /\ phase = "parsing" => ended # "no" \/ has_header_end(bytes)
  /\ ActsOnWhatWasAsked
  /\ ShortRequestIsTaken

\* What Parse returns is the client's method and target.
LEMMA ParsedAsAsked ==
  ASSUME NEW r \in Requests, IsRequestLine(r), NEW n \in 0 .. Len(Written(r)),
         NEW s, s = SubSeq(Written(r), 1, n), parses(s)
  PROVE  word(first_line(s), 1) = r.method /\ word(first_line(s), 2) = r.target
<1>1. PICK f : f = first_line(s)
  OBVIOUS
<1>2. f = first_line(SubSeq(Written(r), 1, n))
  BY <1>1, Zenon
<1>3. Cardinality(WordStarts(f)) >= 3
  BY <1>1, Zenon DEF parses
<1>4. word(f, 1) = r.method /\ word(f, 2) = r.target
  BY <1>2, <1>3, LineReads
<1> QED
  BY <1>1, <1>4, Zenon

\* With the end of its headers read, a proper request parses, unless what was
\* read ends inside a character.
LEMMA WholeRequestParses ==
  ASSUME NEW r \in Requests, IsRequestLine(r), NEW n \in 0 .. Len(Written(r)),
         NEW s, s = SubSeq(Written(r), 1, n), is_utf8(Written(r)), has_header_end(s),
         ~EndsInCharacter(s)
  PROVE  parses(s)
<1>1. PICK w, method, target, version, m, t, v :
        /\ w = Written(r) /\ method = r.method /\ target = r.target
        /\ version = r.version
        /\ m = Len(method) /\ t = Len(target) /\ v = Len(version)
  OBVIOUS
<1>2. Laid(w, m, t, v)
  BY <1>1, RequestIsLaid, Zenon
<1>3. w \in Seq(Byte) /\ n \in 0 .. Len(w) /\ s = SubSeq(w, 1, n)
  BY <1>1, <1>2, Zenon DEF Laid
<1>4. n >= m + t + v + 4
  <2>1. has_header_end(SubSeq(w, 1, n))
    BY <1>3, Zenon
  <2> QED
    BY <1>2, <1>3, <2>1, HeaderEndIsBehind
<1>5. PICK f : f = first_line(s)
  OBVIOUS
<1>6. Cardinality(WordStarts(f)) >= 3 /\ word(f, 3) = version
  <2>1. n >= Len(r.method) + Len(r.target) + Len(r.version) + 4
    BY <1>1, <1>4, Zenon
  <2>2. f = first_line(SubSeq(Written(r), 1, n))
    BY <1>5, Zenon
  <2>3. Cardinality(WordStarts(f)) >= 3 /\ word(f, 3) = r.version
    BY <2>1, <2>2, LineReads
  <2> QED
    BY <1>1, <2>3, Zenon
<1>7. is_utf8(s)
  <2>1. Len(s) = n /\ \A i \in 1 .. n : s[i] = w[i]
    BY <1>3, Beginning
  <2>2. is_utf8(w)
    BY <1>1, Zenon
  <2> SUFFICES ASSUME NEW i \in 1 .. Len(s)
               PROVE  /\ s[i] # "?"
                      /\ s[i] = "C3" => i < Len(s) /\ s[i + 1] = "A9"
                      /\ s[i] = "A9" => i > 1 /\ s[i - 1] = "C3"
    BY Zenon DEF is_utf8
  <2>3. n \in Nat /\ i \in Nat /\ 1 <= i /\ i <= n /\ i \in 1 .. Len(w) /\ s[i] = w[i]
    BY <1>3, <2>1
  <2>4. /\ w[i] # "?"
        /\ w[i] = "C3" => i < Len(w) /\ w[i + 1] = "A9"
        /\ w[i] = "A9" => i > 1 /\ w[i - 1] = "C3"
    BY <2>2, <2>3, Zenon DEF is_utf8
  <2>5. ASSUME s[i] = "C3" PROVE i < Len(s) /\ s[i + 1] = "A9"
    <3>1. i # n
      BY <2>1, <2>3, <2>5 DEF EndsInCharacter
    <3>2. i < n /\ i + 1 \in 1 .. n
      BY <2>3, <3>1
    <3> QED
      BY <2>1, <2>3, <2>4, <2>5, <3>2
  <2>6. ASSUME s[i] = "A9" PROVE i > 1 /\ s[i - 1] = "C3"
    <3>1. i > 1 /\ w[i - 1] = "C3"
      BY <2>3, <2>4, <2>6, Zenon
    <3>2. i - 1 \in 1 .. n
      BY <2>3, <3>1
    <3> QED
      BY <2>1, <3>1, <3>2
  <2> QED
    BY <2>3, <2>4, <2>5, <2>6, Zenon
<1>8. Len(version) >= 2 /\ SubSeq(version, 1, 2) = <<"H", "/">>
  BY <1>1, Zenon DEF IsRequestLine
<1> QED
  BY <1>5, <1>6, <1>7, <1>8, Zenon DEF parses

\* The loop starts from the beginning.
LEMMA InitProgress == Init => Progress
<1> SUFFICES ASSUME Init PROVE Progress
  OBVIOUS
<1>1. ReaderInv
  BY InitReader
<1>2. PICK w : w = stream
  OBVIOUS
<1>3. w \in Seq(Byte) /\ 0 \in 0 .. Len(w)
  BY <1>1, <1>2 DEF ReaderInv
<1>4. PICK n : n = 0
  OBVIOUS
<1>5. SubSeq(w, 1, n) \in Seq(Byte) /\ Len(SubSeq(w, 1, n)) = n
  <2>1. w \in Seq(Byte) /\ n \in 0 .. Len(w)
    BY <1>3, <1>4
  <2> QED
    BY <2>1, Beginning
<1>6. SubSeq(w, 1, 0) = <<>>
  BY <1>4, <1>5
<1>7. Len(bytes) <= Len(stream) /\ bytes = SubSeq(stream, 1, Len(bytes))
  <2>1. bytes = <<>> /\ Len(bytes) = 0
    BY DEF Init
  <2> QED
    BY <1>2, <1>3, <1>6, <2>1
<1> QED
  BY <1>7, Zenon DEF Init, Progress, ActsOnWhatWasAsked, ShortRequestIsTaken

\* A read that brings neither the end of the headers nor room for it: there is
\* no such end within the limit.
LEMMA NextProgress == ReaderInv /\ Progress /\ [Next]_vars => Progress'
<1> SUFFICES ASSUME ReaderInv, Progress, [Next]_vars PROVE Progress'
  OBVIOUS
<1>1. PICK r, w, b, n : r = asked /\ w = stream /\ b = bytes /\ n = Len(bytes)
  OBVIOUS
<1>2. /\ r \in Requests /\ w = Written(r) /\ w \in Seq(Byte) /\ b \in Seq(Byte)
      /\ n = Len(b) /\ n <= Len(w) /\ b = SubSeq(w, 1, n)
  BY <1>1, Zenon DEF Progress, ReaderInv
<1>3. n \in 0 .. Len(w) /\ n \in Nat /\ Len(w) \in Nat
  BY <1>2
<1>4. ASSUME NEW k \in 1 .. BUF, Read(k) PROVE Progress'
  <2>1. PICK c : c = bytes'
    OBVIOUS
  <2>2. k \in Nat /\ k >= 1 /\ n + k <= Len(w)
    BY <1>1, <1>4, Sizes DEF Read
  <2>3. c = b \o SubSeq(w, n + 1, n + k)
    BY <1>1, <1>4, <2>1, Zenon DEF Read
  <2>4. PICK l : l = n + k
    OBVIOUS
  <2>5. l \in 0 .. Len(w) /\ l \in Nat
    BY <1>3, <2>2, <2>4
  <2>6. c = SubSeq(w, 1, l)
    <3>1. PICK o : o = 1
      OBVIOUS
    <3>2. o \in 1 .. Len(w) + 1 /\ n \in o - 1 .. Len(w) /\ l \in n .. Len(w)
      BY <1>3, <2>2, <2>4, <3>1
    <3>3. SubSeq(w, o, n) \o SubSeq(w, n + 1, l) = SubSeq(w, o, l)
      BY <1>2, <3>2, ConcatAdjacentSubSeq
    <3> QED
      BY <1>2, <2>3, <2>4, <3>1, <3>3, Zenon
  <2>7. Len(c) = l
    BY <1>2, <2>5, <2>6, Beginning
  <2>8. /\ phase = "reading" /\ ended = "no" /\ ended' = ended
        /\ asked' = r /\ stream' = w /\ phase' = PhaseAfter(c)
    BY <1>1, <1>4, <2>1, Zenon DEF Read, Progress
  <2>9. Len(c) <= Len(w) /\ c = SubSeq(w, 1, Len(c))
    BY <2>5, <2>6, <2>7
  <2>10. phase' = "parsing" => has_header_end(c)
    BY <2>8 DEF PhaseAfter
  <2>11. phase' # "parsed"
    BY <2>8 DEF PhaseAfter
  <2>12. ASSUME phase' = "error"
         PROVE  \A i \in 1 .. Len(w) - 3 :
                  i + 3 <= MAX_REQUEST_BYTES => SubSeq(w, i, i + 3) # CRLF \o CRLF
    <3>1. ~has_header_end(c) /\ Len(c) > MAX_REQUEST_BYTES
      BY <2>8, <2>12 DEF PhaseAfter
    <3>2. SUFFICES ASSUME NEW i \in 1 .. Len(w) - 3, i + 3 <= MAX_REQUEST_BYTES,
                          SubSeq(w, i, i + 3) = CRLF \o CRLF
                   PROVE  FALSE
      BY Zenon
    <3>3. i + 3 <= l
      BY <1>3, <2>5, <2>7, <3>1, <3>2, Sizes
    <3>4. has_header_end(SubSeq(w, 1, l))
      BY <1>2, <2>5, <3>2, <3>3, HeaderEndIsSeen
    <3> QED
      BY <2>6, <3>1, <3>4, Zenon
  <2>13. ShortRequestIsTaken'
    BY <2>8, <2>12, Zenon DEF ShortRequestIsTaken
  <2>14. ActsOnWhatWasAsked'
    BY <2>11, Zenon DEF ActsOnWhatWasAsked
  <2> QED
    BY <1>2, <2>1, <2>8, <2>9, <2>10, <2>13, <2>14, Zenon DEF Progress
<1>5. CASE EndOfStream
  BY <1>5 DEF EndOfStream, Progress, ActsOnWhatWasAsked, ShortRequestIsTaken
<1>6. CASE ReadError
  BY <1>6 DEF ReadError, Progress, ActsOnWhatWasAsked, ShortRequestIsTaken
<1>7. CASE Parse
  <2>1. UNCHANGED <<asked, stream, bytes, ended>> /\ phase = "parsing"
    BY <1>7 DEF Parse
  <2>2. phase' \in {"parsed", "error"}
    BY <1>7 DEF Parse
  <2>3. ActsOnWhatWasAsked'
    <3>1. SUFFICES ASSUME phase' = "parsed", IsRequestLine(asked)'
                   PROVE  request' = [method |-> r.method, target |-> r.target]
      BY <1>1, <2>1, Zenon DEF ActsOnWhatWasAsked
    <3>2. IsRequestLine(r)
      BY <1>1, <2>1, <3>1, Zenon
    <3>3. /\ parses(b)
          /\ request' = [method |-> word(first_line(b), 1),
                         target |-> word(first_line(b), 2)]
      BY <1>1, <1>7, <3>1 DEF Parse
    <3>4. /\ n \in 0 .. Len(Written(r)) /\ b = SubSeq(Written(r), 1, n)
      BY <1>2, <1>3, Zenon
    <3>5. word(first_line(b), 1) = r.method /\ word(first_line(b), 2) = r.target
      BY <1>2, <3>2, <3>3, <3>4, ParsedAsAsked, Zenon
    <3> QED
      BY <3>3, <3>5, Zenon
  <2>4. ShortRequestIsTaken'
    <3>1. SUFFICES ASSUME phase' = "error", ended = "no", IsRequestLine(r), is_utf8(w),
                          ~(has_header_end(b) /\ EndsInCharacter(b))
                   PROVE  FALSE
      BY <1>1, <2>1, Zenon DEF ShortRequestIsTaken
    <3>2. has_header_end(b)
      BY <1>1, <2>1, <3>1, Zenon DEF Progress
    <3>3. /\ n \in 0 .. Len(Written(r)) /\ b = SubSeq(Written(r), 1, n)
          /\ is_utf8(Written(r)) /\ ~EndsInCharacter(b)
      BY <1>2, <1>3, <3>1, <3>2, Zenon
    <3>4. parses(b)
      BY <1>2, <3>1, <3>2, <3>3, WholeRequestParses, Zenon
    <3> QED
      BY <1>1, <1>7, <3>1, <3>4 DEF Parse
  <2> QED
    BY <1>1, <1>2, <2>1, <2>2, <2>3, <2>4 DEF Progress
<1>8. CASE UNCHANGED vars
  BY <1>8 DEF vars, Progress, ActsOnWhatWasAsked, ShortRequestIsTaken
<1> QED
  BY <1>4, <1>5, <1>6, <1>7, <1>8 DEF Next

\* Both invariants hold of every run of the loop.
LEMMA ProgressHolds == Spec => []Progress
<1>1. Init => ReaderInv /\ Progress
  BY InitReader, InitProgress
<1>2. (ReaderInv /\ Progress) /\ [Next]_vars => (ReaderInv /\ Progress)'
  BY NextReader, NextProgress
<1> QED
  BY <1>1, <1>2, PTL DEF Spec

\* However TCP cuts a request of any length into reads, and wherever the client
\* stops, read_http_request returns the method and the target it wrote, or fails.
THEOREM OnlyWhatWasAsked == Spec => []ActsOnWhatWasAsked
<1>1. Progress => ActsOnWhatWasAsked
  BY DEF Progress
<1> QED
  BY <1>1, ProgressHolds, PTL

\* A proper UTF-8 request whose headers end within MAX_REQUEST_BYTES is refused
\* in two cases only, for every limit and every size of a read: its stream ends
\* early, or the read that brought the end of its headers stopped inside a
\* character behind them, which from_utf8 does not take.
THEOREM ShortRequestsAreTaken == Spec => []ShortRequestIsTaken
<1>1. Progress => ShortRequestIsTaken
  BY DEF Progress
<1> QED
  BY <1>1, ProgressHolds, PTL
================================================================================

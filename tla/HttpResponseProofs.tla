--------------------------- MODULE HttpResponseProofs --------------------------
(***************************************************************************)
(* parse_http_response and decode_chunked for every body, every way of     *)
(* cutting it into chunks, every place where the connection ends and every *)
(* width of a usize.                                                       *)
(***************************************************************************)
EXTENDS HttpResponse, SequenceTheorems, WellFoundedInduction, TLAPS

-----------------------------------------------------------------------------
(* The digit of the last chunk. *)

\* "0" reads as 0.
LEMMA ZeroReads == SizeOf(<<"0">>) = 0
<1>1. PICK z : z = <<"0">>
  OBVIOUS
<1>2. Len(z) = 1 /\ z[1] = "0" /\ z # <<>>
  BY <1>1
<1>3. size_hex(z) = z
  <2>0. z \in Seq(Byte)
    <3>1. "0" \in Byte
      BY HttpAssumption, Zenon
    <3>2. \A x \in Byte : <<x>> \in Seq(Byte)
      OBVIOUS
    <3> QED
      BY <1>1, <3>1, <3>2, Zenon
  <2>1. \A i \in 1 .. Len(z) : i = 1 /\ z[i] # "SEMI" /\ z[i] \notin Whitespace
    BY <1>2 DEF Whitespace
  <2>2. PICK l : l = Len(z) /\ l = 1
    BY <1>2
  <2>3. SubSeq(z, 1, l) = z
    BY <2>0, <2>2, SubSeqFull
  <2>4. {i \in 1 .. Len(z) : z[i] = "SEMI"} \cup {Len(z) + 1} = {l + 1}
    BY <2>1, <2>2, Zenon
  <2>5. (CHOOSE i \in {l + 1} : \A j \in {l + 1} : i <= j) = l + 1 /\ (l + 1) - 1 = l
    BY <2>2
  <2>6. {i \in 1 .. Len(z) : z[i] \notin Whitespace} = {l}
    <3>1. l \in 1 .. Len(z)
      BY <2>2
    <3> QED
      BY <2>1, <2>2, <3>1, Zenon
  <2>7. /\ (CHOOSE i \in {l} : \A j \in {l} : i <= j) = l
        /\ (CHOOSE i \in {l} : \A j \in {l} : j <= i) = l
        /\ {l} # {}
    BY <2>2
  <2>8. trim(z, Whitespace) = z
    <3>1. trim(z, Whitespace) =
            LET kept == {i \in 1 .. Len(z) : z[i] \notin Whitespace}
            IN IF kept = {} THEN <<>>
               ELSE SubSeq(z, CHOOSE i \in kept : \A j \in kept : i <= j,
                              CHOOSE i \in kept : \A j \in kept : j <= i)
      BY DEF trim
    <3>2. trim(z, Whitespace) = SubSeq(z, l, l)
      BY <2>6, <2>7, <3>1
    <3> QED
      BY <2>2, <2>3, <3>2
  <2>9. size_hex(z) =
          LET stops == {i \in 1 .. Len(z) : z[i] = "SEMI"} \cup {Len(z) + 1}
              stop == CHOOSE i \in stops : \A j \in stops : i <= j
          IN trim(SubSeq(z, 1, stop - 1), Whitespace)
    BY DEF size_hex
  <2>10. size_hex(z) = trim(SubSeq(z, 1, (l + 1) - 1), Whitespace)
    BY <2>4, <2>5, <2>9
  <2> QED
    BY <2>3, <2>5, <2>8, <2>10
<1>4. IsDigit("0") /\ DigitValue("0") = 0
  <2>1. Digits[1] = "0" /\ \A d \in 1 .. 22 : Digits[d] = "0" => d = 1
    BY DEF Digits
  <2>2. (CHOOSE d \in 1 .. 22 : Digits[d] = "0") = 1
    BY <2>1
  <2> QED
    BY <2>1, <2>2 DEF IsDigit, DigitValue
<1>5. HexValue(z) = 0
  <2> DEFINE F(f) == f = [i \in 0 .. Len(z) |->
                            IF i = 0 THEN 0 ELSE 16 * f[i - 1] + DigitValue(z[i])]
  <2>1. F([i \in 0 .. Len(z) |-> 0])
    BY <1>2, <1>4
  <2>2. F(CHOOSE f : F(f))
    BY <2>1, Zenon
  <2>3. \A f : F(f) => f[1] = 0
    BY <1>2, <1>4
  <2>4. HexValue(z) = (CHOOSE f : F(f))[Len(z)]
    BY Zenon DEF HexValue
  <2> QED
    BY <1>2, <2>2, <2>3, <2>4
<1>6. from_str_radix(z) = 0
  <2>1. USIZE_MAX \in Nat
    BY HttpAssumption, Zenon
  <2>2. ~(\E i \in 1 .. Len(z) : ~IsDigit(z[i])) /\ ~(HexValue(z) > USIZE_MAX)
    BY <1>2, <1>4, <1>5, <2>1
  <2>3. (IF z # <<>> /\ z[1] = "+" THEN Tail(z) ELSE z) = z
    BY <1>2
  <2> QED
    BY <1>2, <1>5, <2>2, <2>3, Zenon DEF from_str_radix
<1> QED
  BY <1>1, <1>3, <1>6 DEF SizeOf

-----------------------------------------------------------------------------
(* Where things stand in a response. *)

\* s is the beginning of w.
Part(s, w) ==
  /\ s \in Seq(Byte) /\ w \in Seq(Byte)
  /\ Len(s) <= Len(w)
  /\ \A i \in 1 .. Len(s) : s[i] = w[i]

\* A size line stands behind the first p bytes of w, with its CRLF.
Line(w, p, line) ==
  /\ line \in Seq(Byte)
  /\ p + Len(line) + 2 <= Len(w)
  /\ \A i \in 1 .. Len(line) : w[p + i] = line[i] /\ line[i] # "CR"
  /\ w[p + Len(line) + 1] = "CR"
  /\ w[p + Len(line) + 2] = "LF"

\* The line end.
LEMMA LineEnd == CRLF \in Seq(Byte) /\ Len(CRLF) = 2 /\ CRLF[1] = "CR" /\ CRLF[2] = "LF"
<1>1. "CR" \in Byte /\ "LF" \in Byte
  BY HttpAssumption, Zenon
<1>2. \A x, y \in Byte : <<x, y>> \in Seq(Byte)
  OBVIOUS
<1>3. CRLF \in Seq(Byte)
  BY <1>1, <1>2, Zenon DEF CRLF
<1> QED
  BY <1>3 DEF CRLF

\* A piece of s, byte by byte.
LEMMA Piece ==
  ASSUME NEW s \in Seq(Byte), NEW p \in Nat, NEW n \in Nat, p + n <= Len(s)
  PROVE  /\ SubSeq(s, p + 1, p + n) \in Seq(Byte)
         /\ Len(SubSeq(s, p + 1, p + n)) = n
         /\ \A i \in 1 .. n : SubSeq(s, p + 1, p + n)[i] = s[p + i]
<1>1. PICK a, b : a = p + 1 /\ b = p + n
  OBVIOUS
<1>2. a \in Int /\ b \in Int /\ \A i \in a .. b : s[i] \in Byte
  BY <1>1
<1>3. /\ SubSeq(s, a, b) \in Seq(Byte)
      /\ Len(SubSeq(s, a, b)) = IF a <= b THEN b - a + 1 ELSE 0
      /\ \A i \in 1 .. b - a + 1 : SubSeq(s, a, b)[i] = s[a + i - 1]
  BY <1>2, SubSeqProperties
<1>4. (IF a <= b THEN b - a + 1 ELSE 0) = n /\ b - a + 1 = n
  BY <1>1
<1>5. \A i \in 1 .. n : a + i - 1 = p + i
  BY <1>1
<1>6. \A i \in 1 .. n : SubSeq(s, a, b)[i] = s[p + i]
  BY <1>3, <1>4, <1>5
<1> QED
  BY <1>1, <1>3, <1>4, <1>6, Zenon

\* A piece of s that has the bytes of x is x.
LEMMA PieceIs ==
  ASSUME NEW s \in Seq(Byte), NEW p \in Nat, NEW x \in Seq(Byte),
         NEW n, n = Len(x), p + n <= Len(s),
         \A i \in 1 .. n : s[p + i] = x[i]
  PROVE  SubSeq(s, p + 1, p + n) = x
<1>1. n \in Nat
  OBVIOUS
<1>2. PICK g : g = SubSeq(s, p + 1, p + n)
  OBVIOUS
<1>3. g \in Seq(Byte) /\ Len(g) = n /\ \A i \in 1 .. n : g[i] = s[p + i]
  BY <1>1, <1>2, Piece
<1>4. \A i \in 1 .. Len(g) : g[i] = x[i]
  BY <1>3
<1>5. g = x
  BY <1>3, <1>4, SeqEqual
<1> QED
  BY <1>2, <1>5

\* A CRLF is its two bytes.
LEMMA TwoBytes ==
  ASSUME NEW s \in Seq(Byte), NEW i \in Nat, i + 2 <= Len(s)
  PROVE  SubSeq(s, i + 1, i + 2) = CRLF <=> s[i + 1] = "CR" /\ s[i + 2] = "LF"
<1>1. PICK n, x : n = 2 /\ x = CRLF
  OBVIOUS
<1>2. n \in Nat /\ i + n <= Len(s) /\ 1 \in 1 .. n /\ 2 \in 1 .. n
      /\ \A j \in 1 .. n : j = 1 \/ j = 2
  BY <1>1
<1>3. PICK g : g = SubSeq(s, i + 1, i + n)
  OBVIOUS
<1>4. Len(g) = n /\ \A j \in 1 .. n : g[j] = s[i + j]
  BY <1>2, <1>3, Piece
<1>5. x \in Seq(Byte) /\ n = Len(x) /\ x[1] = "CR" /\ x[2] = "LF"
  BY <1>1, LineEnd, Zenon
<1>6. ASSUME g = x PROVE s[i + 1] = "CR" /\ s[i + 2] = "LF"
  BY <1>2, <1>4, <1>5, <1>6, Zenon
<1>7. ASSUME s[i + 1] = "CR", s[i + 2] = "LF" PROVE g = x
  <2>1. \A j \in 1 .. n : s[i + j] = x[j]
    BY <1>2, <1>5, <1>7, Zenon
  <2> QED
    BY <1>2, <1>3, <1>5, <2>1, PieceIs
<1> QED
  BY <1>1, <1>3, <1>6, <1>7, Zenon

\* Where find_crlf stops, from the beginning of a line: at its end, or nowhere
\* if that has not arrived.
LEMMA LineFound ==
  ASSUME NEW w, NEW s, Part(s, w), NEW p \in Nat, NEW line, Line(w, p, line),
         NEW l, l = Len(line)
  PROVE  /\ Len(s) < p + l + 2 => Crlfs(s, p) = {}
         /\ Len(s) >= p + l + 2 => /\ Crlfs(s, p) # {}
                                   /\ find_crlf(s, p) = p + l
                                   /\ SubSeq(s, p + 1, p + l) = line
<1>1. PICK k : k = Len(s)
  OBVIOUS
<1>2. /\ s \in Seq(Byte) /\ w \in Seq(Byte) /\ k <= Len(w)
      /\ \A i \in 1 .. k : s[i] = w[i]
  BY <1>1, Zenon DEF Part
<1>3. /\ line \in Seq(Byte) /\ p + l + 2 <= Len(w)
      /\ \A i \in 1 .. l : w[p + i] = line[i] /\ line[i] # "CR"
      /\ w[p + l + 1] = "CR" /\ w[p + l + 2] = "LF"
  BY Zenon DEF Line
<1>4. k \in Nat /\ l \in Nat
  BY <1>1, <1>2, <1>3
<1>5. \A i \in p .. p + l - 1 : i + 1 <= k => s[i + 1] # "CR"
  <2> SUFFICES ASSUME NEW i \in p .. p + l - 1, i + 1 <= k PROVE s[i + 1] # "CR"
    OBVIOUS
  <2>1. PICK j : j = i + 1 - p
    OBVIOUS
  <2>2. j \in 1 .. l /\ p + j = i + 1 /\ i + 1 \in 1 .. k
    BY <1>4, <2>1
  <2> QED
    BY <1>2, <1>3, <2>2
<1>6. Crlfs(s, p) = {i \in p .. k - 2 : SubSeq(s, i + 1, i + 2) = CRLF}
  BY <1>1, Zenon DEF Crlfs
<1>7. \A i \in p .. k - 2 : SubSeq(s, i + 1, i + 2) = CRLF
                              <=> s[i + 1] = "CR" /\ s[i + 2] = "LF"
  <2> TAKE i \in p .. k - 2
  <2>1. i \in Nat /\ i + 2 <= Len(s)
    BY <1>1, <1>4
  <2> QED
    BY <1>2, <2>1, TwoBytes
<1>8. Crlfs(s, p) = {i \in p .. k - 2 : s[i + 1] = "CR" /\ s[i + 2] = "LF"}
  BY <1>6, <1>7, Zenon
<1>9. \A i \in Crlfs(s, p) : i \in Nat /\ i <= k - 2 /\ p + l <= i
  BY <1>4, <1>5, <1>8
<1>10. ASSUME k < p + l + 2 PROVE Crlfs(s, p) = {}
  BY <1>4, <1>9, <1>10
<1>11. ASSUME k >= p + l + 2
       PROVE  /\ Crlfs(s, p) # {} /\ find_crlf(s, p) = p + l
              /\ SubSeq(s, p + 1, p + l) = line
  <2>1. /\ p + l \in p .. k - 2 /\ p + l + 1 \in 1 .. k /\ p + l + 2 \in 1 .. k
        /\ (p + l) + 1 = p + l + 1 /\ (p + l) + 2 = p + l + 2
    BY <1>4, <1>11
  <2>2. s[(p + l) + 1] = "CR" /\ s[(p + l) + 2] = "LF"
    BY <1>2, <1>3, <2>1, Zenon
  <2>3. p + l \in Crlfs(s, p)
    BY <1>8, <2>1, <2>2
  <2>4. PICK C : C = Crlfs(s, p)
    OBVIOUS
  <2>5. PICK e : e = p + l
    OBVIOUS
  <2>6. e \in C /\ e \in Nat /\ \A i \in C : i \in Nat /\ e <= i
    BY <1>4, <1>9, <2>3, <2>4, <2>5
  <2>7. (CHOOSE i \in C : \A j \in C : i <= j) = e
    <3>1. \A i \in C : (\A j \in C : i <= j) => i = e
      BY <2>6
    <3> QED
      BY <2>6, <3>1
  <2>8. find_crlf(s, p) = p + l
    BY <2>4, <2>5, <2>7, Zenon DEF find_crlf
  <2>9. \A i \in 1 .. l : s[p + i] = line[i]
    <3>1. \A i \in 1 .. l : p + i \in 1 .. k
      BY <1>4, <1>11
    <3> QED
      BY <1>2, <1>3, <3>1, Zenon
  <2>10. SubSeq(s, p + 1, p + l) = line
    <3>1. p + l <= Len(s)
      BY <1>1, <1>4, <1>11
    <3> QED
      BY <1>2, <1>3, <2>9, <3>1, PieceIs
  <2> QED
    BY <2>3, <2>8, <2>10
<1> QED
  BY <1>1, <1>10, <1>11, Zenon

\* What decode_chunked reads at the beginning of a line.
LEMMA AtLine ==
  ASSUME NEW w, Part(wire, w), pos \in Nat, NEW line, Line(w, pos, line),
         NEW l, l = Len(line)
  PROVE  /\ Len(wire) < pos + l + 2 => size = NoSize
         /\ Len(wire) >= pos + l + 2 => size = SizeOf(line) /\ next = pos + l + 2
<1>1. PICK s, p : s = wire /\ p = pos
  OBVIOUS
<1>2. Part(s, w) /\ p \in Nat /\ Line(w, p, line)
  BY <1>1, Zenon
<1>3. Len(s) < p + l + 2 => Crlfs(s, p) = {}
  BY <1>2, LineFound
<1>4. Len(s) >= p + l + 2 => /\ Crlfs(s, p) # {}
                             /\ find_crlf(s, p) = p + l
                             /\ SubSeq(s, p + 1, p + l) = line
  BY <1>2, LineFound
<1> QED
  BY <1>1, <1>3, <1>4, Zenon DEF size, next, line_end

\* A chunk stands behind the first p bytes of w: a size line, and n bytes of b
\* from behind its first o.
Block(w, b, p, line, n, o) ==
  /\ Line(w, p, line)
  /\ n \in Nat \ {0} /\ o \in Nat /\ o + n <= Len(b)
  /\ p + Len(line) + n + 4 <= Len(w)
  /\ \A i \in 1 .. n : w[p + Len(line) + 2 + i] = b[o + i]
  /\ w[p + Len(line) + n + 3] = "CR"
  /\ w[p + Len(line) + n + 4] = "LF"

\* The line claims more than there is.
Claims(line) == SizeOf(line) = NoSize \/ (SizeOf(line) \in Nat /\ SizeOf(line) > MaxWire)

\* M gives, for each end of a chunk in w up to e, how much of b stands before it;
\* `lies` is whether a size line claims too much.
Chain(w, b, M, e, lies) ==
  /\ w \in Seq(Byte) /\ b \in Seq(Byte)
  /\ e \in Nat /\ e <= Len(w)
  /\ 0 \in DOMAIN M /\ e \in DOMAIN M /\ M[0] = 0
  /\ \A p \in DOMAIN M : p \in 0 .. e /\ M[p] \in 0 .. Len(b)
  /\ \A p \in DOMAIN M : p # e =>
       \E line, n, q :
         /\ Block(w, b, p, line, n, M[p]) /\ q = p + Len(line) + n + 4
         /\ q \in DOMAIN M /\ M[q] = M[p] + n
         /\ \A r \in DOMAIN M : r <= p \/ q <= r
         /\ SizeOf(line) = n \/ (lies /\ Claims(line))
  /\ lies => \E p \in DOMAIN M : p # e /\ \E line : Line(w, p, line) /\ Claims(line)

-----------------------------------------------------------------------------
(* The server's side: a chunk more. *)

\* Two sequences, one behind the other.
LEMMA Joined ==
  ASSUME NEW s \in Seq(Byte), NEW n, n = Len(s),
         NEW e \in Seq(Byte), NEW k, k = Len(e), NEW u, u = s \o e
  PROVE  /\ u \in Seq(Byte)
         /\ Len(u) = n + k
         /\ \A i \in 1 .. n : u[i] = s[i]
         /\ \A i \in 1 .. k : u[n + i] = e[i]
<1>1. /\ u \in Seq(Byte)
      /\ Len(u) = n + k
      /\ \A i \in 1 .. n + k : u[i] = IF i <= n THEN s[i] ELSE e[i - n]
  BY ConcatProperties
<1>2. n \in Nat /\ k \in Nat
  OBVIOUS
<1>3. ASSUME NEW i \in 1 .. k PROVE u[n + i] = e[i]
  <2>1. n + i \in 1 .. n + k /\ ~(n + i <= n) /\ (n + i) - n = i
    BY <1>2
  <2> QED
    BY <1>1, <2>1
<1>4. \A i \in 1 .. n : u[i] = s[i]
  BY <1>1, <1>2
<1> QED
  BY <1>1, <1>3, <1>4

\* A part of a part.
LEMMA Longer ==
  ASSUME NEW a, NEW b, NEW c, Part(a, b), Part(b, c)
  PROVE  Part(a, c)
<1>1. Len(a) \in Nat /\ Len(b) \in Nat /\ Len(c) \in Nat
  BY DEF Part
<1>2. Len(a) <= Len(b) /\ Len(b) <= Len(c) /\ a \in Seq(Byte) /\ c \in Seq(Byte)
  BY Zenon DEF Part
<1>3. /\ \A i \in 1 .. Len(a) : a[i] = b[i]
      /\ \A i \in 1 .. Len(b) : b[i] = c[i]
  BY Zenon DEF Part
<1>4. \A i \in 1 .. Len(a) : i \in 1 .. Len(b)
  BY <1>1, <1>2
<1>5. \A i \in 1 .. Len(a) : a[i] = c[i]
  BY <1>3, <1>4, Zenon
<1> QED
  BY <1>1, <1>2, <1>5 DEF Part

\* u is w with a chunk behind it: n bytes of b, from behind its first o.
Put(w, p, line, b, o, n, u) ==
  /\ w \in Seq(Byte) /\ p = Len(w)
  /\ line \in Seq(Byte) /\ (\A i \in 1 .. Len(line) : line[i] # "CR")
  /\ b \in Seq(Byte) /\ o \in Nat /\ n \in Nat \ {0} /\ o + n <= Len(b)
  /\ u = w \o line \o CRLF \o SubSeq(b, o + 1, o + n) \o CRLF

\* Where the parts of the chunk then stand.
LEMMA BlockIsPut ==
  ASSUME NEW w, NEW p, NEW line, NEW b, NEW o, NEW n, NEW u, Put(w, p, line, b, o, n, u)
  PROVE  /\ Part(w, u)
         /\ Len(u) = p + Len(line) + n + 4
         /\ Block(u, b, p, line, n, o)
<1>0. /\ w \in Seq(Byte) /\ p = Len(w)
      /\ line \in Seq(Byte) /\ (\A i \in 1 .. Len(line) : line[i] # "CR")
      /\ b \in Seq(Byte) /\ o \in Nat /\ n \in Nat \ {0} /\ o + n <= Len(b)
      /\ u = w \o line \o CRLF \o SubSeq(b, o + 1, o + n) \o CRLF
  BY Zenon DEF Put
<1> USE <1>0
<1>1. PICK l, x, data, two : /\ l = Len(line) /\ x = CRLF /\ two = 2
                             /\ data = SubSeq(b, o + 1, o + n)
  OBVIOUS
<1>2. x \in Seq(Byte) /\ two = Len(x) /\ x[1] = "CR" /\ x[2] = "LF"
  BY <1>1, LineEnd, Zenon
<1>3. data \in Seq(Byte) /\ n = Len(data) /\ \A i \in 1 .. n : data[i] = b[o + i]
  BY <1>1, Piece
<1>4. PICK w1, w2, w3 : w1 = w \o line /\ w2 = w1 \o x /\ w3 = w2 \o data
  OBVIOUS
<1>5. PICK v : v = w3 \o x
  OBVIOUS
<1>6. PICK p1, p2, p3 : p1 = p + l /\ p2 = p1 + two /\ p3 = p2 + n
  OBVIOUS
<1>7. /\ p \in Nat /\ l \in Nat /\ n \in Nat /\ n # 0
      /\ p1 \in Nat /\ p2 \in Nat /\ p3 \in Nat
      /\ p2 = p + l + 2 /\ p3 = p + l + n + 2
      /\ p1 + 1 = p + l + 1 /\ p1 + 2 = p + l + 2
      /\ p3 + 1 = p + l + n + 3 /\ p3 + 2 = p + l + n + 4
  BY <1>1, <1>6
<1>8. /\ w1 \in Seq(Byte) /\ Len(w1) = p + l
      /\ \A i \in 1 .. p : w1[i] = w[i]
      /\ \A i \in 1 .. l : w1[p + i] = line[i]
  <2>1. w1 = w \o line
    BY <1>4
  <2> QED
    BY <1>1, <2>1, Joined
<1>9. /\ w2 \in Seq(Byte) /\ Len(w2) = p1 + two
      /\ \A i \in 1 .. p1 : w2[i] = w1[i]
      /\ \A i \in 1 .. two : w2[p1 + i] = x[i]
  <2>1. w2 = w1 \o x /\ w1 \in Seq(Byte) /\ p1 = Len(w1)
    BY <1>4, <1>6, <1>8
  <2> QED
    BY <1>2, <2>1, Joined
<1>10. /\ w3 \in Seq(Byte) /\ Len(w3) = p2 + n
       /\ \A i \in 1 .. p2 : w3[i] = w2[i]
       /\ \A i \in 1 .. n : w3[p2 + i] = data[i]
  <2>1. w3 = w2 \o data /\ w2 \in Seq(Byte) /\ p2 = Len(w2)
    BY <1>4, <1>6, <1>9
  <2> QED
    BY <1>3, <2>1, Joined
<1>11. /\ v \in Seq(Byte) /\ Len(v) = p3 + two
       /\ \A i \in 1 .. p3 : v[i] = w3[i]
       /\ \A i \in 1 .. two : v[p3 + i] = x[i]
  <2>1. v = w3 \o x /\ w3 \in Seq(Byte) /\ p3 = Len(w3)
    BY <1>5, <1>6, <1>10
  <2> QED
    BY <1>2, <2>1, Joined
<1>12. Len(v) = p + l + n + 4
  BY <1>1, <1>7, <1>11
<1>13. Part(w1, w2) /\ Part(w2, w3) /\ Part(w3, v) /\ Part(w, w1)
  <2>1. Part(w, w1)
    <3>1. Len(w) = p /\ Len(w) <= Len(w1) /\ \A i \in 1 .. p : w[i] = w1[i]
      BY <1>7, <1>8
    <3> QED
      BY <1>8, <3>1, Zenon DEF Part
  <2>2. Part(w1, w2)
    <3>1. Len(w1) = p1 /\ Len(w1) <= Len(w2)
      BY <1>1, <1>6, <1>7, <1>8, <1>9
    <3> QED
      BY <1>8, <1>9, <3>1, Zenon DEF Part
  <2>3. Part(w2, w3)
    <3>1. Len(w2) = p2 /\ Len(w2) <= Len(w3)
      BY <1>1, <1>6, <1>7, <1>9, <1>10
    <3> QED
      BY <1>9, <1>10, <3>1, Zenon DEF Part
  <2>4. Part(w3, v)
    <3>1. Len(w3) = p3 /\ Len(w3) <= Len(v)
      BY <1>1, <1>6, <1>7, <1>10, <1>11
    <3> QED
      BY <1>10, <1>11, <3>1, Zenon DEF Part
  <2> QED
    BY <2>1, <2>2, <2>3, <2>4
<1>14. Part(w2, v) /\ Part(w1, v) /\ Part(w, v)
  <2>1. Part(w2, v)
    BY <1>13, Longer
  <2>2. Part(w1, v)
    BY <1>13, <2>1, Longer
  <2> QED
    BY <1>13, <2>1, <2>2, Longer
<1>15. \A i \in 1 .. l : v[p + i] = line[i]
  <2>1. \A i \in 1 .. l : p + i \in 1 .. Len(w1)
    BY <1>7, <1>8
  <2>2. \A i \in 1 .. Len(w1) : w1[i] = v[i]
    BY <1>14, Zenon DEF Part
  <2> QED
    BY <1>8, <2>1, <2>2
<1>16. v[p + l + 1] = "CR" /\ v[p + l + 2] = "LF"
  <2>1. p1 + 1 \in 1 .. Len(w2) /\ p1 + 2 \in 1 .. Len(w2) /\ 1 \in 1 .. two /\ 2 \in 1 .. two
    BY <1>1, <1>7, <1>9
  <2>2. \A i \in 1 .. Len(w2) : w2[i] = v[i]
    BY <1>14, Zenon DEF Part
  <2>3. v[p1 + 1] = "CR" /\ v[p1 + 2] = "LF"
    BY <1>2, <1>9, <2>1, <2>2, Zenon
  <2> QED
    BY <1>7, <2>3, Zenon
<1>17. \A i \in 1 .. n : v[p + l + 2 + i] = b[o + i]
  <2>1. \A i \in 1 .. n : p2 + i \in 1 .. Len(w3) /\ p2 + i = p + l + 2 + i
    BY <1>7, <1>10
  <2>2. \A i \in 1 .. Len(w3) : w3[i] = v[i]
    BY <1>13, Zenon DEF Part
  <2>3. \A i \in 1 .. n : v[p2 + i] = b[o + i]
    BY <1>3, <1>10, <2>1, <2>2, Zenon
  <2> QED
    BY <2>1, <2>3, Zenon
<1>18. v[p + l + n + 3] = "CR" /\ v[p + l + n + 4] = "LF"
  <2>1. 1 \in 1 .. two /\ 2 \in 1 .. two
    BY <1>1
  <2>2. v[p3 + 1] = "CR" /\ v[p3 + 2] = "LF"
    BY <1>2, <1>11, <2>1, Zenon
  <2> QED
    BY <1>7, <2>2, Zenon
<1>19. p + l + 2 <= Len(v) /\ p + l + n + 4 <= Len(v)
  BY <1>7, <1>12
<1>20. Line(v, p, line)
  BY <1>1, <1>15, <1>16, <1>19, Zenon DEF Line
<1>21. Block(v, b, p, line, n, o)
  BY <1>1, <1>17, <1>18, <1>19, <1>20, Zenon DEF Block
<1>22. u = v
  BY <1>1, <1>4, <1>5, Zenon
<1> QED
  BY <1>1, <1>12, <1>14, <1>21, <1>22, Zenon

\* What stands in w stands in a longer wire too.
LEMMA LineStays ==
  ASSUME NEW w, NEW u, Part(w, u), NEW p \in Nat, NEW line, Line(w, p, line)
  PROVE  Line(u, p, line)
<1>1. PICK l : l = Len(line)
  OBVIOUS
<1>2. /\ line \in Seq(Byte) /\ p + l + 2 <= Len(w)
      /\ \A i \in 1 .. l : w[p + i] = line[i] /\ line[i] # "CR"
      /\ w[p + l + 1] = "CR" /\ w[p + l + 2] = "LF"
  BY <1>1, Zenon DEF Line
<1>3. w \in Seq(Byte) /\ u \in Seq(Byte) /\ Len(w) <= Len(u)
  BY Zenon DEF Part
<1>4. \A i \in 1 .. Len(w) : w[i] = u[i]
  BY Zenon DEF Part
<1>5. l \in Nat /\ Len(w) \in Nat /\ Len(u) \in Nat
  BY <1>1, <1>2, <1>3
<1>6. /\ p + l + 1 \in 1 .. Len(w) /\ p + l + 2 \in 1 .. Len(w)
      /\ p + l + 2 <= Len(u) /\ \A i \in 1 .. l : p + i \in 1 .. Len(w)
  BY <1>2, <1>3, <1>5
<1> QED
  BY <1>1, <1>2, <1>4, <1>6, Zenon DEF Line

\* And so does a chunk.
LEMMA BlockStays ==
  ASSUME NEW w, NEW u, Part(w, u), NEW p \in Nat, NEW line, NEW b, NEW n, NEW o,
         Block(w, b, p, line, n, o)
  PROVE  Block(u, b, p, line, n, o)
<1>1. PICK l : l = Len(line)
  OBVIOUS
<1>2. /\ Line(w, p, line)
      /\ n \in Nat \ {0} /\ o \in Nat /\ o + n <= Len(b)
      /\ p + l + n + 4 <= Len(w)
      /\ \A i \in 1 .. n : w[p + l + 2 + i] = b[o + i]
      /\ w[p + l + n + 3] = "CR" /\ w[p + l + n + 4] = "LF"
  BY <1>1, Zenon DEF Block
<1>3. w \in Seq(Byte) /\ u \in Seq(Byte) /\ Len(w) <= Len(u)
  BY Zenon DEF Part
<1>4. \A i \in 1 .. Len(w) : w[i] = u[i]
  BY Zenon DEF Part
<1>5. line \in Seq(Byte)
  BY <1>2, Zenon DEF Line
<1>6. l \in Nat /\ Len(w) \in Nat /\ Len(u) \in Nat /\ n \in Nat
  BY <1>1, <1>2, <1>3, <1>5
<1>7. /\ p + l + n + 3 \in 1 .. Len(w) /\ p + l + n + 4 \in 1 .. Len(w)
      /\ p + l + n + 4 <= Len(u)
  BY <1>2, <1>3, <1>6
<1>8. \A i \in 1 .. n : p + l + 2 + i \in 1 .. Len(w)
  BY <1>2, <1>3, <1>6
<1>9. Line(u, p, line)
  BY <1>2, LineStays
<1>10. \A i \in 1 .. n : u[p + l + 2 + i] = b[o + i]
  BY <1>2, <1>4, <1>8, Zenon
<1>11. u[p + l + n + 3] = "CR" /\ u[p + l + n + 4] = "LF"
  BY <1>2, <1>4, <1>7, Zenon
<1> QED
  BY <1>1, <1>2, <1>7, <1>9, <1>10, <1>11, Zenon DEF Block

\* And so do all chunks.
LEMMA ChainStays ==
  ASSUME NEW w, NEW u, Part(w, u), NEW b, NEW M, NEW e, NEW lies,
         Chain(w, b, M, e, lies)
  PROVE  Chain(u, b, M, e, lies)
<1>1. /\ w \in Seq(Byte) /\ b \in Seq(Byte) /\ e \in Nat /\ e <= Len(w)
      /\ 0 \in DOMAIN M /\ e \in DOMAIN M /\ M[0] = 0
      /\ \A p \in DOMAIN M : p \in 0 .. e /\ M[p] \in 0 .. Len(b)
  BY Zenon DEF Chain
<1>2. u \in Seq(Byte) /\ e <= Len(u)
  <2>1. u \in Seq(Byte) /\ Len(w) <= Len(u)
    BY Zenon DEF Part
  <2>2. Len(w) \in Nat /\ Len(u) \in Nat
    BY <1>1, <2>1
  <2> QED
    BY <1>1, <2>1, <2>2
<1>3. \A p \in DOMAIN M : p \in Nat
  BY <1>1
<1>4. ASSUME NEW p \in DOMAIN M, p # e
      PROVE  \E line, n, q :
               /\ Block(u, b, p, line, n, M[p]) /\ q = p + Len(line) + n + 4
               /\ q \in DOMAIN M /\ M[q] = M[p] + n
               /\ \A r \in DOMAIN M : r <= p \/ q <= r
               /\ SizeOf(line) = n \/ (lies /\ Claims(line))
  <2>1. PICK line, n, q :
               /\ Block(w, b, p, line, n, M[p]) /\ q = p + Len(line) + n + 4
               /\ q \in DOMAIN M /\ M[q] = M[p] + n
               /\ \A r \in DOMAIN M : r <= p \/ q <= r
               /\ SizeOf(line) = n \/ (lies /\ Claims(line))
    BY <1>4, Zenon DEF Chain
  <2>2. PICK o : o = M[p]
    OBVIOUS
  <2>3. Block(w, b, p, line, n, o) /\ p \in Nat
    BY <1>3, <2>1, <2>2, Zenon
  <2>4. Block(u, b, p, line, n, o)
    BY <2>3, BlockStays
  <2> QED
    BY <2>1, <2>2, <2>4, Zenon
<1>5. ASSUME lies
      PROVE  \E p \in DOMAIN M : p # e /\ \E line : Line(u, p, line) /\ Claims(line)
  <2>1. PICK p \in DOMAIN M : p # e /\ \E line : Line(w, p, line) /\ Claims(line)
    BY <1>5, Zenon DEF Chain
  <2>2. PICK line : Line(w, p, line) /\ Claims(line)
    BY <2>1
  <2>3. Line(u, p, line)
    BY <1>3, <2>2, LineStays
  <2> QED
    BY <2>1, <2>2, <2>3
<1> QED
  BY <1>1, <1>2, <1>4, <1>5, Zenon DEF Chain

\* One more chunk, right or wrong.
Added(w, u, b, M, p, lies, line, n, lie) ==
  /\ Chain(w, b, M, p, lies)
  /\ Part(w, u) /\ p = Len(w)
  /\ Block(u, b, p, line, n, M[p]) /\ Len(u) = p + Len(line) + n + 4
  /\ lies => lie
  /\ lie => lies \/ Claims(line)
  /\ SizeOf(line) = n \/ (lie /\ Claims(line))

LEMMA ChainGrows ==
  ASSUME NEW w, NEW u, NEW b, NEW M, NEW p, NEW lies, NEW line, NEW n, NEW lie,
         Added(w, u, b, M, p, lies, line, n, lie)
  PROVE  \E N : Chain(u, b, N, Len(u), lie) /\ N[Len(u)] = M[p] + n
<1>0. /\ Chain(w, b, M, p, lies)
      /\ Part(w, u) /\ p = Len(w)
      /\ Block(u, b, p, line, n, M[p]) /\ Len(u) = p + Len(line) + n + 4
      /\ lies => lie
      /\ lie => lies \/ Claims(line)
      /\ SizeOf(line) = n \/ (lie /\ Claims(line))
  BY Zenon DEF Added
<1> USE <1>0
<1>1. PICK q, l, o : q = Len(u) /\ l = Len(line) /\ o = M[p]
  OBVIOUS
<1>2. PICK N : N = [x \in DOMAIN M \cup {q} |-> IF x = q THEN o + n ELSE M[x]]
  OBVIOUS
<1>3. /\ w \in Seq(Byte) /\ b \in Seq(Byte) /\ p \in Nat
      /\ 0 \in DOMAIN M /\ p \in DOMAIN M /\ M[0] = 0
      /\ \A x \in DOMAIN M : x \in 0 .. p /\ M[x] \in 0 .. Len(b)
  BY Zenon DEF Chain
<1>4. /\ n \in Nat \ {0} /\ o \in Nat /\ o + n <= Len(b) /\ Line(u, p, line)
  BY <1>1, Zenon DEF Block
<1>5. line \in Seq(Byte)
  BY <1>4, Zenon DEF Line
<1>6. u \in Seq(Byte)
  BY Zenon DEF Part
<1>7. /\ l \in Nat /\ q = p + l + n + 4 /\ q \in Nat /\ p < q /\ Len(b) \in Nat
      /\ q \notin DOMAIN M /\ o + n \in 0 .. Len(b)
  BY <1>1, <1>3, <1>4, <1>5
<1>8. /\ DOMAIN N = DOMAIN M \cup {q} /\ N[q] = o + n
      /\ \A x \in DOMAIN M : N[x] = M[x] /\ x # q
  BY <1>2, <1>7
<1>9. /\ 0 \in DOMAIN N /\ q \in DOMAIN N /\ N[0] = 0
      /\ \A x \in DOMAIN N : x \in 0 .. q /\ N[x] \in 0 .. Len(b)
  <2>1. 0 \in DOMAIN N /\ q \in DOMAIN N /\ N[0] = 0
    BY <1>3, <1>8, Zenon
  <2>2. \A x \in DOMAIN M : x \in 0 .. q
    BY <1>3, <1>7
  <2>3. q \in 0 .. q
    BY <1>7
  <2> QED
    BY <1>3, <1>7, <1>8, <2>1, <2>2, <2>3, Zenon
<1>10. ASSUME NEW x \in DOMAIN N, x # q
       PROVE  \E ln, k, y :
                /\ Block(u, b, x, ln, k, N[x]) /\ y = x + Len(ln) + k + 4
                /\ y \in DOMAIN N /\ N[y] = N[x] + k
                /\ \A r \in DOMAIN N : r <= x \/ y <= r
                /\ SizeOf(ln) = k \/ (lie /\ Claims(ln))
  <2>1. x \in DOMAIN M /\ N[x] = M[x]
    BY <1>8, <1>10
  <2>2. CASE x = p
    <3>1. Block(u, b, x, line, n, N[x])
      BY <2>1, <2>2, Zenon
    <3>2. \A r \in DOMAIN N : r <= x \/ q <= r
      BY <1>3, <1>7, <1>8, <2>2
    <3>3. q = x + Len(line) + n + 4 /\ N[q] = N[x] + n
      BY <1>1, <1>7, <1>8, <2>1, <2>2, Zenon
    <3> QED
      BY <1>9, <3>1, <3>2, <3>3, Zenon
  <2>3. CASE x # p
    <3>1. Chain(u, b, M, p, lies)
      BY ChainStays
    <3>2. PICK ln, k, y :
                /\ Block(u, b, x, ln, k, M[x]) /\ y = x + Len(ln) + k + 4
                /\ y \in DOMAIN M /\ M[y] = M[x] + k
                /\ \A r \in DOMAIN M : r <= x \/ y <= r
                /\ SizeOf(ln) = k \/ (lies /\ Claims(ln))
      BY <2>1, <2>3, <3>1, Zenon DEF Chain
    <3>3. y <= q
      BY <1>3, <1>7, <3>2
    <3>4. \A r \in DOMAIN N : r <= x \/ y <= r
      BY <1>8, <3>2, <3>3, Zenon
    <3>5. y \in DOMAIN N /\ N[y] = N[x] + k
      BY <1>8, <2>1, <3>2, Zenon
    <3> QED
      BY <2>1, <3>2, <3>4, <3>5, Zenon
  <2> QED
    BY <2>2, <2>3
<1>11. ASSUME lie
       PROVE  \E x \in DOMAIN N : x # q /\ \E ln : Line(u, x, ln) /\ Claims(ln)
  <2>1. CASE lies
    <3>1. Chain(u, b, M, p, lies)
      BY ChainStays
    <3>2. PICK x \in DOMAIN M : \E ln : Line(u, x, ln) /\ Claims(ln)
      BY <2>1, <3>1, Zenon DEF Chain
    <3> QED
      BY <1>8, <3>2, Zenon
  <2>2. CASE ~lies
    <3>1. p \in DOMAIN N /\ p # q
      BY <1>3, <1>8, Zenon
    <3>2. Claims(line)
      BY <1>11, <2>2
    <3> QED
      BY <1>4, <3>1, <3>2
  <2> QED
    BY <2>1, <2>2
<1>12. q <= Len(u)
  BY <1>1, <1>7
<1>13. Chain(u, b, N, q, lie)
  BY <1>3, <1>6, <1>7, <1>9, <1>10, <1>11, <1>12, Zenon DEF Chain
<1> QED
  BY <1>1, <1>8, <1>13, Zenon

\* The last chunk's line.
LEMMA LastIsPut ==
  ASSUME NEW w \in Seq(Byte), NEW p, p = Len(w),
         NEW u, u = w \o <<"0">> \o CRLF \o CRLF
  PROVE  Part(w, u) /\ Line(u, p, <<"0">>)
<1>1. PICK x, two, z, one, v, v1, v2 :
        /\ x = CRLF /\ two = 2 /\ z = <<"0">> /\ one = 1
        /\ v1 = w \o z /\ v2 = v1 \o x /\ v = v2 \o x
  OBVIOUS
<1>2. x \in Seq(Byte) /\ two = Len(x) /\ x[1] = "CR" /\ x[2] = "LF"
  BY <1>1, LineEnd, Zenon
<1>3. z \in Seq(Byte) /\ one = Len(z) /\ z[1] = "0"
  <2>1. "0" \in Byte
    BY HttpAssumption, Zenon
  <2>2. \A y \in Byte : <<y>> \in Seq(Byte)
    OBVIOUS
  <2>3. z \in Seq(Byte)
    BY <1>1, <2>1, <2>2, Zenon
  <2> QED
    BY <1>1, <2>3
<1>4. /\ v1 \in Seq(Byte) /\ Len(v1) = p + one
      /\ \A i \in 1 .. p : v1[i] = w[i]
      /\ \A i \in 1 .. one : v1[p + i] = z[i]
  <2>1. v1 = w \o z
    BY <1>1
  <2> QED
    BY <1>3, <2>1, Joined
<1>5. PICK p1, p2 : p1 = p + one /\ p2 = p1 + two
  OBVIOUS
<1>6. /\ v2 \in Seq(Byte) /\ Len(v2) = p1 + two
      /\ \A i \in 1 .. p1 : v2[i] = v1[i]
      /\ \A i \in 1 .. two : v2[p1 + i] = x[i]
  <2>1. v2 = v1 \o x /\ p1 = Len(v1) /\ v1 \in Seq(Byte)
    BY <1>1, <1>4, <1>5
  <2> QED
    BY <1>2, <2>1, Joined
<1>7. /\ v \in Seq(Byte) /\ Len(v) = p2 + two
      /\ \A i \in 1 .. p2 : v[i] = v2[i]
  <2>1. v = v2 \o x /\ p2 = Len(v2) /\ v2 \in Seq(Byte)
    BY <1>1, <1>5, <1>6
  <2> QED
    BY <1>2, <2>1, Joined
<1>8. /\ p \in Nat /\ p1 = p + 1 /\ p2 = p + 3 /\ Len(v) = p + 5
      /\ 1 \in 1 .. one /\ 1 \in 1 .. two /\ 2 \in 1 .. two
      /\ p + 1 \in 1 .. p1 /\ p + 1 \in 1 .. p2
      /\ p1 + 1 \in 1 .. p2 /\ p1 + 2 \in 1 .. p2
  BY <1>1, <1>5, <1>7
<1>9. v[p + 1] = "0" /\ v[p1 + 1] = "CR" /\ v[p1 + 2] = "LF"
  BY <1>2, <1>3, <1>4, <1>6, <1>7, <1>8, Zenon
<1>10. Part(w, v)
  <2>1. \A i \in 1 .. p : i \in 1 .. p1 /\ i \in 1 .. p2
    BY <1>8
  <2>2. \A i \in 1 .. p : w[i] = v[i]
    BY <1>4, <1>6, <1>7, <2>1, Zenon
  <2>3. Len(w) <= Len(v)
    BY <1>8
  <2> QED
    BY <1>7, <2>2, <2>3, Zenon DEF Part
<1>11. Line(v, p, z)
  <2>1. p + Len(z) + 2 <= Len(v)
    BY <1>1, <1>3, <1>8
  <2>2. \A i \in 1 .. Len(z) : v[p + i] = z[i] /\ z[i] # "CR"
    <3>1. \A i \in 1 .. Len(z) : i = 1
      BY <1>1, <1>3
    <3>2. z[1] # "CR" /\ v[p + 1] = z[1]
      BY <1>3, <1>9
    <3> QED
      BY <3>1, <3>2, Zenon
  <2>3. v[p + Len(z) + 1] = "CR" /\ v[p + Len(z) + 2] = "LF"
    <3>1. p + Len(z) + 1 = p1 + 1 /\ p + Len(z) + 2 = p1 + 2
      BY <1>3, <1>5, <1>8
    <3> QED
      BY <1>9, <3>1, Zenon
  <2> QED
    BY <1>3, <2>1, <2>2, <2>3, Zenon DEF Line
<1>12. u = v
  BY <1>1, Zenon
<1> QED
  BY <1>1, <1>10, <1>11, <1>12, Zenon

-----------------------------------------------------------------------------
(* The end of the connection as the end of a JSON value. *)

\* A set of positions that is not empty has a first one.
LEMMA FirstExists ==
  ASSUME NEW n \in Nat, NEW at, \A k \in at : k \in 1 .. n, at # {}
  PROVE  \E k \in at : \A l \in at : k <= l
<1>1. at \subseteq Nat
  BY SMT
<1>2. \A x, y \in Nat : y < x => <<y, x>> \in OpToRel(<, Nat)
  BY DEF OpToRel
<1>3. PICK x \in at : \A y \in at : <<y, x>> \notin OpToRel(<, Nat)
  BY <1>1, NatLessThanWellFounded, WFMin, Zenon
<1>4. \A y \in at : ~(y < x)
  BY <1>1, <1>2, <1>3
<1>5. \A y \in at : x <= y
  BY <1>4
<1> QED
  BY <1>5, Zenon

\* And a last one.
LEMMA LastExists ==
  ASSUME NEW n \in Nat, NEW at, \A k \in at : k \in 1 .. n, at # {}
  PROVE  \E k \in at : \A l \in at : l <= k
<1>1. PICK T : T = {n + 1 - k : k \in at}
  OBVIOUS
<1>2. \A x \in T : x \in 1 .. n
  BY <1>1
<1>3. T # {}
  BY <1>1, Zenon
<1>4. PICK x \in T : \A y \in T : x <= y
  BY <1>2, <1>3, FirstExists
<1>5. PICK k \in at : x = n + 1 - k
  BY <1>1
<1>6. \A l \in at : n + 1 - k <= n + 1 - l
  BY <1>1, <1>4, <1>5, Zenon
<1>7. \A l \in at : l <= k
  BY <1>6
<1> QED
  BY <1>7, Zenon

\* What trim keeps.
Kept(x, f, g, drop) ==
  /\ f \in 1 .. Len(x) /\ g \in 1 .. Len(x) /\ f <= g
  /\ x[f] \notin drop /\ x[g] \notin drop
  /\ \A i \in 1 .. Len(x) : x[i] \notin drop => f <= i /\ i <= g

\* trim cuts at the first and the last byte that is not to be dropped.
LEMMA Trimmed ==
  ASSUME NEW x \in Seq(Byte), NEW drop, trim(x, drop) # <<>>
  PROVE  \E f, g : Kept(x, f, g, drop) /\ trim(x, drop) = SubSeq(x, f, g)
<1>1. PICK at : at = {i \in 1 .. Len(x) : x[i] \notin drop}
  OBVIOUS
<1>2. trim(x, drop) = IF at = {} THEN <<>>
                      ELSE SubSeq(x, CHOOSE i \in at : \A j \in at : i <= j,
                                     CHOOSE i \in at : \A j \in at : j <= i)
  BY <1>1 DEF trim
<1>3. at # {}
  BY <1>2, Zenon
<1>4. PICK n : n = Len(x)
  OBVIOUS
<1>5. n \in Nat /\ \A k \in at : k \in 1 .. n
  BY <1>1, <1>4
<1>6. PICK f : f = CHOOSE i \in at : \A j \in at : i <= j
  OBVIOUS
<1>7. PICK g : g = CHOOSE i \in at : \A j \in at : j <= i
  OBVIOUS
<1>8. f \in at /\ \A j \in at : f <= j
  BY <1>3, <1>5, <1>6, FirstExists
<1>9. g \in at /\ \A j \in at : j <= g
  BY <1>3, <1>5, <1>7, LastExists
<1>10. Kept(x, f, g, drop)
  BY <1>1, <1>8, <1>9, Zenon DEF Kept
<1> QED
  BY <1>2, <1>3, <1>6, <1>7, <1>10, Zenon

\* A JSON text's value, by where it stands.
LEMMA ValueStands ==
  ASSUME NEW x \in Seq(Byte), is_json_text(x)
  PROVE  \E f, g :
           /\ Kept(x, f, g, Whitespace)
           /\ f < g /\ x[g] = "CLOSE"
           /\ \A i \in f + 1 .. g - 1 : x[i] # "CLOSE"
           /\ json_value(x) = SubSeq(x, f, g)
<1>1. PICK v : v = json_value(x)
  OBVIOUS
<1>2. /\ Len(v) >= 2 /\ v[Len(v)] = "CLOSE"
      /\ \A i \in 2 .. Len(v) - 1 : v[i] \notin {"OPEN", "CLOSE"}
  BY <1>1, Zenon DEF is_json_text
<1>3. v # <<>>
  BY <1>2
<1>4. PICK drop : drop = Whitespace
  OBVIOUS
<1>5. v = trim(x, drop)
  BY <1>1, <1>4, Zenon DEF json_value
<1>6. PICK f, g : Kept(x, f, g, drop) /\ trim(x, drop) = SubSeq(x, f, g)
  BY <1>3, <1>5, Trimmed
<1>7. f \in 1 .. Len(x) /\ g \in 1 .. Len(x) /\ f <= g
  BY <1>6, Zenon DEF Kept
<1>8. PICK p, n : p = f - 1 /\ n = g - f + 1
  OBVIOUS
<1>9. /\ p \in Nat /\ n \in Nat /\ p + n <= Len(x) /\ p + 1 = f /\ p + n = g
      /\ Len(x) \in Nat /\ n \in 1 .. n
  BY <1>7, <1>8
<1>10. v = SubSeq(x, p + 1, p + n)
  BY <1>5, <1>6, <1>9, Zenon
<1>11. Len(v) = n /\ \A i \in 1 .. n : v[i] = x[p + i]
  BY <1>9, <1>10, Piece
<1>12. f < g /\ x[g] = "CLOSE"
  <2>1. f < g
    BY <1>2, <1>7, <1>8, <1>11
  <2> QED
    BY <1>2, <1>9, <1>11, <2>1, Zenon
<1>13. \A i \in f + 1 .. g - 1 : x[i] # "CLOSE"
  <2> TAKE i \in f + 1 .. g - 1
  <2>1. PICK j : j = i - p
    OBVIOUS
  <2>2. j \in 2 .. Len(v) - 1 /\ j \in 1 .. n /\ p + j = i
    BY <1>7, <1>8, <1>9, <1>11, <2>1
  <2> QED
    BY <1>2, <1>11, <2>2, Zenon
<1> QED
  BY <1>1, <1>4, <1>5, <1>6, <1>12, <1>13, Zenon

\* A beginning of a JSON text that is one itself has the same value: what is
\* missing is white space.
LEMMA SameValue ==
  ASSUME NEW s, NEW b, Part(s, b), is_json_text(s), is_json_text(b)
  PROVE  json_value(s) = json_value(b)
<1>1. s \in Seq(Byte) /\ b \in Seq(Byte) /\ Len(s) <= Len(b)
  BY Zenon DEF Part
<1>2. \A i \in 1 .. Len(s) : s[i] = b[i]
  BY Zenon DEF Part
<1>3. PICK drop : drop = Whitespace
  OBVIOUS
<1>4. PICK f, g : /\ Kept(s, f, g, drop)
                  /\ f < g /\ s[g] = "CLOSE"
                  /\ json_value(s) = SubSeq(s, f, g)
  BY <1>1, <1>3, ValueStands
<1>5. PICK f2, g2 : /\ Kept(b, f2, g2, drop)
                    /\ f2 < g2
                    /\ \A i \in f2 + 1 .. g2 - 1 : b[i] # "CLOSE"
                    /\ json_value(b) = SubSeq(b, f2, g2)
  BY <1>1, <1>3, ValueStands
<1>6. Len(s) \in Nat /\ Len(b) \in Nat
  BY <1>1
<1>7. /\ f \in 1 .. Len(s) /\ g \in 1 .. Len(s)
      /\ s[f] \notin drop /\ s[g] \notin drop
      /\ \A i \in 1 .. Len(s) : s[i] \notin drop => f <= i /\ i <= g
  BY <1>4, Zenon DEF Kept
<1>8. /\ f2 \in 1 .. Len(b) /\ g2 \in 1 .. Len(b)
      /\ b[f2] \notin drop /\ b[g2] \notin drop
      /\ \A i \in 1 .. Len(b) : b[i] \notin drop => f2 <= i /\ i <= g2
  BY <1>5, Zenon DEF Kept
<1>9. f \in 1 .. Len(b) /\ g \in 1 .. Len(b)
  BY <1>1, <1>6, <1>7
<1>10. b[f] \notin drop /\ b[g] \notin drop /\ b[g] = "CLOSE"
  BY <1>2, <1>4, <1>7, Zenon
<1>11. f2 <= f /\ g <= g2
  BY <1>8, <1>9, <1>10, Zenon
<1>12. f2 \in 1 .. Len(s)
  BY <1>6, <1>7, <1>8, <1>11
<1>13. f <= f2
  BY <1>2, <1>7, <1>8, <1>12, Zenon
<1>14. f = f2
  BY <1>7, <1>8, <1>11, <1>13
<1>15. g = g2
  <2>1. ~(g \in f2 + 1 .. g2 - 1)
    BY <1>5, <1>10, Zenon
  <2> QED
    BY <1>4, <1>7, <1>8, <1>11, <1>14, <2>1
<1>16. PICK p, n : p = f - 1 /\ n = g - f + 1
  OBVIOUS
<1>17. /\ p \in Nat /\ n \in Nat /\ p + n <= Len(s) /\ p + n <= Len(b)
       /\ p + 1 = f /\ p + n = g
  BY <1>1, <1>4, <1>6, <1>7, <1>16
<1>18. PICK v : v = SubSeq(b, p + 1, p + n)
  OBVIOUS
<1>19. v \in Seq(Byte) /\ Len(v) = n /\ \A i \in 1 .. n : v[i] = b[p + i]
  BY <1>1, <1>17, <1>18, Piece
<1>20. \A i \in 1 .. n : s[p + i] = v[i]
  <2>1. \A i \in 1 .. n : p + i \in 1 .. Len(s)
    BY <1>6, <1>17
  <2> QED
    BY <1>2, <1>19, <2>1, Zenon
<1>21. SubSeq(s, p + 1, p + n) = v
  <2>1. v \in Seq(Byte) /\ n = Len(v) /\ p \in Nat /\ p + n <= Len(s) /\ s \in Seq(Byte)
    BY <1>1, <1>17, <1>19
  <2> QED
    BY <1>20, <2>1, PieceIs
<1> QED
  BY <1>4, <1>5, <1>14, <1>15, <1>17, <1>18, <1>21, Zenon

-----------------------------------------------------------------------------
(* What a size line reads as. *)

\* trim, where its ends are known.
LEMMA TrimIs ==
  ASSUME NEW x \in Seq(Byte), NEW f, NEW g, NEW drop, Kept(x, f, g, drop)
  PROVE  trim(x, drop) = SubSeq(x, f, g)
<1>1. PICK at : at = {i \in 1 .. Len(x) : x[i] \notin drop}
  OBVIOUS
<1>2. /\ f \in 1 .. Len(x) /\ g \in 1 .. Len(x)
      /\ x[f] \notin drop /\ x[g] \notin drop
      /\ \A i \in 1 .. Len(x) : x[i] \notin drop => f <= i /\ i <= g
  BY Zenon DEF Kept
<1>3. f \in at /\ g \in at /\ \A i \in at : f <= i /\ i <= g
  BY <1>1, <1>2, Zenon
<1>4. \A i \in at : i \in Int
  BY <1>1
<1>5. (CHOOSE i \in at : \A j \in at : i <= j) = f
  <2>1. \A i \in at : (\A j \in at : i <= j) => i = f
    BY <1>3, <1>4
  <2> QED
    BY <1>3, <2>1
<1>6. (CHOOSE i \in at : \A j \in at : j <= i) = g
  <2>1. \A i \in at : (\A j \in at : j <= i) => i = g
    BY <1>3, <1>4
  <2> QED
    BY <1>3, <2>1
<1>7. trim(x, drop) = IF at = {} THEN <<>>
                      ELSE SubSeq(x, CHOOSE i \in at : \A j \in at : i <= j,
                                     CHOOSE i \in at : \A j \in at : j <= i)
  BY <1>1 DEF trim
<1> QED
  BY <1>3, <1>5, <1>6, <1>7, Zenon

\* The spaces around a text go.
LEMMA SpacesGo ==
  ASSUME NEW x \in Seq(Byte), \A i \in 1 .. Len(x) : x[i] \in Whitespace,
         NEW t \in Seq(Byte), \A i \in 1 .. Len(t) : t[i] \notin Whitespace,
         NEW y \in Seq(Byte), \A i \in 1 .. Len(y) : y[i] \in Whitespace,
         NEW u, u = (x \o t) \o y
  PROVE  trim(u, Whitespace) = t
<1>1. PICK a, l, c, m, v, drop : /\ a = Len(x) /\ l = Len(t) /\ c = Len(y) /\ m = a + l
                                 /\ v = x \o t /\ drop = Whitespace
  OBVIOUS
<1>2. a \in Nat /\ l \in Nat /\ c \in Nat /\ m \in Nat
  BY <1>1
<1>3. /\ v \in Seq(Byte) /\ Len(v) = a + l
      /\ \A i \in 1 .. a : v[i] = x[i]
      /\ \A i \in 1 .. l : v[a + i] = t[i]
  <2>1. x \in Seq(Byte) /\ a = Len(x) /\ t \in Seq(Byte) /\ l = Len(t) /\ v = x \o t
    BY <1>1
  <2> QED
    BY ONLY <2>1, Joined
<1>4. /\ u \in Seq(Byte) /\ Len(u) = m + c
      /\ \A i \in 1 .. m : u[i] = v[i]
      /\ \A i \in 1 .. c : u[m + i] = y[i]
  <2>1. v \in Seq(Byte) /\ m = Len(v) /\ y \in Seq(Byte) /\ c = Len(y) /\ u = v \o y
    BY <1>1, <1>3
  <2> QED
    BY ONLY <2>1, Joined
<1>5. \A i \in 1 .. l : u[a + i] = t[i]
  <2>1. \A i \in 1 .. l : a + i \in 1 .. m
    BY <1>1, <1>2
  <2> QED
    BY <1>3, <1>4, <2>1, Zenon
<1>6. \A i \in 1 .. Len(u) : u[i] \notin drop => a + 1 <= i /\ i <= m
  <2> SUFFICES ASSUME NEW i \in 1 .. Len(u), u[i] \notin Whitespace PROVE a + 1 <= i /\ i <= m
    BY <1>1, Zenon
  <2>1. ASSUME i <= a PROVE FALSE
    <3>1. i \in 1 .. a /\ i \in 1 .. m
      BY <1>1, <1>2, <1>4, <2>1
    <3> QED
      BY <1>1, <1>3, <1>4, <3>1
  <2>2. ASSUME m < i PROVE FALSE
    <3>1. PICK j : j = i - m
      OBVIOUS
    <3>2. j \in 1 .. c /\ m + j = i
      BY <1>2, <1>4, <2>2, <3>1
    <3> QED
      BY <1>1, <1>4, <3>2
  <2> QED
    BY <1>2, <1>4, <2>1, <2>2
<1>7. CASE l = 0
  <2>1. t = <<>>
    <3>1. t \in Seq(Byte) /\ Len(t) = 0
      BY <1>1, <1>7, Zenon
    <3> QED
      BY ONLY <3>1, EmptySeq
  <2>2. ASSUME NEW f, NEW g, Kept(u, f, g, drop) PROVE FALSE
    <3>1. f \in 1 .. Len(u) /\ u[f] \notin drop
      BY <2>2, Zenon DEF Kept
    <3>2. a + 1 <= f /\ f <= m
      BY <1>6, <3>1
    <3> QED
      BY <1>1, <1>2, <1>4, <1>7, <3>1, <3>2
  <2>3. trim(u, drop) = <<>>
    BY <1>4, <2>2, Trimmed
  <2> QED
    BY <1>1, <2>1, <2>3, Zenon
<1>8. CASE l # 0
  <2>1. Kept(u, a + 1, m, drop)
    <3>1. /\ a + 1 \in 1 .. Len(u) /\ m \in 1 .. Len(u) /\ a + 1 <= m
          /\ 1 \in 1 .. l /\ l \in 1 .. l /\ a + l = m
      BY <1>1, <1>2, <1>4, <1>8
    <3>2. u[a + 1] = t[1] /\ u[m] = t[l]
      BY <1>5, <3>1, Zenon
    <3>3. u[a + 1] \notin drop /\ u[m] \notin drop
      BY <1>1, <3>1, <3>2
    <3> QED
      BY <1>6, <3>1, <3>3, Zenon DEF Kept
  <2>2. trim(u, drop) = SubSeq(u, a + 1, m)
    <3>1. PICK f : f = a + 1
      OBVIOUS
    <3>2. u \in Seq(Byte) /\ Kept(u, f, m, drop)
      BY <1>4, <2>1, <3>1, Zenon
    <3>3. trim(u, drop) = SubSeq(u, f, m)
      BY ONLY <3>2, TrimIs
    <3> QED
      BY <3>1, <3>3
  <2>3. SubSeq(u, a + 1, a + l) = t
    <3>1. /\ u \in Seq(Byte) /\ a \in Nat /\ t \in Seq(Byte) /\ l = Len(t)
          /\ a + l <= Len(u)
      BY <1>1, <1>2, <1>4
    <3> QED
      BY ONLY <1>5, <3>1, PieceIs
  <2> QED
    BY <1>1, <2>2, <2>3, Zenon
<1> QED
  BY <1>7, <1>8

\* An extension goes.
LEMMA ExtensionGoes ==
  ASSUME NEW v \in Seq(Byte), \A i \in 1 .. Len(v) : v[i] # "SEMI",
         NEW x \in Seq(Byte), x # <<>> => x[1] = "SEMI",
         NEW u, u = v \o x
  PROVE  size_hex(u) = trim(v, Whitespace)
<1>1. PICK n, k, p : n = Len(v) /\ k = Len(x) /\ p = 0
  OBVIOUS
<1>2. n \in Nat /\ k \in Nat /\ p \in Nat /\ p + 1 = 1 /\ p + n = n
  BY <1>1
<1>3. /\ u \in Seq(Byte) /\ Len(u) = n + k
      /\ \A i \in 1 .. n : u[i] = v[i]
      /\ \A i \in 1 .. k : u[n + i] = x[i]
  <2>1. v \in Seq(Byte) /\ n = Len(v) /\ x \in Seq(Byte) /\ k = Len(x) /\ u = v \o x
    BY <1>1
  <2> QED
    BY ONLY <2>1, Joined
<1>4. PICK stops : stops = {i \in 1 .. Len(u) : u[i] = "SEMI"} \cup {Len(u) + 1}
  OBVIOUS
<1>5. n + 1 \in stops
  <2>1. CASE k = 0
    BY <1>2, <1>3, <1>4, <2>1
  <2>2. CASE k # 0
    <3>1. x # <<>> /\ 1 \in 1 .. k /\ n + 1 \in 1 .. Len(u)
      BY <1>1, <1>2, <1>3, <2>2
    <3>2. u[n + 1] = "SEMI"
      BY <1>3, <3>1, Zenon
    <3> QED
      BY <1>4, <3>1, <3>2
  <2> QED
    BY <2>1, <2>2
<1>6. \A j \in stops : j \in Int /\ n + 1 <= j
  <2>1. ASSUME NEW j \in 1 .. Len(u), u[j] = "SEMI" PROVE n + 1 <= j
    <3>1. ~(j \in 1 .. n)
      BY <1>1, <1>3, <2>1, Zenon
    <3> QED
      BY <1>2, <1>3, <3>1
  <2>2. \A j \in 1 .. Len(u) : j \in Int
    OBVIOUS
  <2>3. Len(u) + 1 \in Int /\ n + 1 <= Len(u) + 1
    BY <1>2, <1>3
  <2> QED
    BY <1>4, <2>1, <2>2, <2>3, Zenon
<1>7. (CHOOSE i \in stops : \A j \in stops : i <= j) = n + 1
  <2>1. PICK f : f = n + 1
    OBVIOUS
  <2>2. f \in stops /\ f \in Int /\ \A j \in stops : j \in Int /\ f <= j
    BY <1>2, <1>5, <1>6, <2>1
  <2>3. \A i \in stops : (\A j \in stops : i <= j) => i = f
    BY <2>2
  <2> QED
    BY <2>1, <2>2, <2>3
<1>8. size_hex(u) =
        LET all == {i \in 1 .. Len(u) : u[i] = "SEMI"} \cup {Len(u) + 1}
            stop == CHOOSE i \in all : \A j \in all : i <= j
        IN trim(SubSeq(u, 1, stop - 1), Whitespace)
  BY DEF size_hex
<1>9. size_hex(u) = trim(SubSeq(u, 1, (n + 1) - 1), Whitespace)
  BY <1>4, <1>7, <1>8
<1>10. (n + 1) - 1 = n
  BY <1>2
<1>11. SubSeq(u, p + 1, p + n) = v
  <2>1. /\ u \in Seq(Byte) /\ p \in Nat /\ v \in Seq(Byte) /\ n = Len(v)
        /\ p + n <= Len(u)
    BY <1>1, <1>2, <1>3
  <2>2. \A i \in 1 .. n : p + i = i
    BY <1>1, <1>2
  <2>3. \A i \in 1 .. n : u[p + i] = v[i]
    BY <1>3, <2>2, Zenon
  <2> QED
    BY ONLY <2>1, <2>3, PieceIs
<1> QED
  BY <1>2, <1>9, <1>10, <1>11, Zenon

\* A sign and digits read as the number, if it is a usize.
LEMMA TextReads ==
  ASSUME NEW sign \in {<<>>, <<"+">>}, NEW digits \in Seq(Byte \ (Whitespace \cup {"SEMI", "+"})),
         NEW text, text = sign \o digits
  PROVE  from_str_radix(text) = IF IsNumber(digits) /\ ~(HexValue(digits) > USIZE_MAX)
                                THEN HexValue(digits) ELSE NoSize
<1>1. PICK rest : rest = IF text # <<>> /\ text[1] = "+" THEN Tail(text) ELSE text
  OBVIOUS
<1>2. rest = digits
  <2>1. CASE sign = <<>>
    <3>1. text = digits
      BY <2>1, ConcatEmptySeq
    <3>2. digits # <<>> => digits[1] # "+"
      OBVIOUS
    <3> QED
      BY <1>1, <3>1, <3>2
  <2>2. CASE sign = <<"+">>
    <3>1. text \in Seq(Byte \cup {"+"}) /\ Len(text) = Len(digits) + 1 /\ text[1] = "+"
      BY <2>2
    <3>2. \A i \in 1 .. Len(digits) : text[i + 1] = digits[i]
      BY <2>2
    <3>3. text # <<>>
      BY <3>1
    <3>4. rest = Tail(text)
      BY <1>1, <3>1, <3>3
    <3>5. /\ rest \in Seq(Byte \cup {"+"}) /\ Len(rest) = Len(text) - 1
          /\ \A i \in 1 .. Len(rest) : rest[i] = text[i + 1]
      BY <3>1, <3>3, <3>4, HeadTailProperties
    <3>6. Len(rest) = Len(digits) /\ digits \in Seq(Byte \cup {"+"})
      BY <3>1, <3>5
    <3>7. \A i \in 1 .. Len(rest) : rest[i] = digits[i]
      BY <3>2, <3>5, <3>6
    <3> QED
      BY <3>5, <3>6, <3>7, SeqEqual
  <2> QED
    BY <2>1, <2>2
<1>3. from_str_radix(text) =
        IF \/ rest = <<>>
           \/ \E i \in 1 .. Len(rest) : ~IsDigit(rest[i])
           \/ HexValue(rest) > USIZE_MAX
        THEN NoSize
        ELSE HexValue(rest)
  BY <1>1, Zenon DEF from_str_radix
<1> QED
  BY <1>2, <1>3, Zenon DEF IsNumber

\* A size line reads as its digits do, and its CRLF is the first.
LEMMA SizeLineReads ==
  ASSUME NEW sp, IsSpelling(sp), NEW line, line = SizeLine(sp)
  PROVE  /\ line \in Seq(Byte)
         /\ \A i \in 1 .. Len(line) : line[i] # "CR"
         /\ SizeOf(line) = IF IsNumber(sp.digits) /\ ~(HexValue(sp.digits) > USIZE_MAX)
                           THEN HexValue(sp.digits) ELSE NoSize
<1>1. PICK x, sign, digits, y, ext, text, v, w :
        /\ x = sp.before /\ sign = sp.sign /\ digits = sp.digits /\ y = sp.after
        /\ ext = sp.extension /\ text = sign \o digits
        /\ v = x \o text /\ w = v \o y
  OBVIOUS
<1>2. line = w \o ext
  BY <1>1, Zenon DEF SizeLine, SizeText
<1>3. /\ x \in Seq({"SP"}) /\ y \in Seq({"SP"}) /\ sign \in {<<>>, <<"+">>}
      /\ digits \in Seq(Byte \ (Whitespace \cup {"SEMI", "+"}))
      /\ ext \in Seq(Byte \ {"CR"})
      /\ ext # <<>> => ext[1] = "SEMI"
  BY <1>1, Zenon DEF IsSpelling
<1>4. PICK plain : plain = Byte \ {"CR"}
  OBVIOUS
<1>5. "SP" \in plain /\ "+" \in plain
  BY <1>4, HttpAssumption
<1>6. x \in Seq(plain) /\ y \in Seq(plain) /\ ext \in Seq(plain)
  BY <1>3, <1>4, <1>5
<1>7. /\ text \in Seq(plain)
      /\ \A i \in 1 .. Len(text) : text[i] \notin Whitespace /\ text[i] # "SEMI"
  <2>1. PICK D : D = plain \ (Whitespace \cup {"SEMI"})
    OBVIOUS
  <2>2. sign \in Seq(D)
    <3>1. "+" \in D
      BY <1>5, <2>1 DEF Whitespace
    <3>2. <<"+">> \in Seq(D) /\ <<>> \in Seq(D)
      BY <3>1
    <3> QED
      BY <1>3, <3>2
  <2>3. digits \in Seq(D)
    BY <1>3, <1>4, <2>1 DEF Whitespace
  <2>4. text \in Seq(D)
    BY <1>1, <2>2, <2>3
  <2> QED
    BY <2>1, <2>4
<1>8. w \in Seq(plain) /\ \A i \in 1 .. Len(w) : w[i] # "SEMI"
  <2>1. PICK D : D = plain \ {"SEMI"}
    OBVIOUS
  <2>2. x \in Seq(D) /\ y \in Seq(D)
    BY <1>3, <1>5, <2>1
  <2>3. text \in Seq(D)
    BY <1>7, <2>1
  <2>4. w \in Seq(D)
    BY <1>1, <2>2, <2>3
  <2> QED
    BY <2>1, <2>4
<1>9. line \in Seq(plain)
  BY <1>2, <1>6, <1>8
<1>10. \A z : z \in Seq(plain) => z \in Seq(Byte) /\ \A i \in 1 .. Len(z) : z[i] # "CR"
  BY <1>4
<1>11. size_hex(line) = trim(w, Whitespace)
  <2>1. w \in Seq(Byte) /\ ext \in Seq(Byte)
    BY <1>6, <1>8, <1>10, Zenon
  <2> QED
    BY ONLY <1>2, <1>3, <1>8, <2>1, ExtensionGoes
<1>12. trim(w, Whitespace) = text
  <2>1. x \in Seq(Byte) /\ y \in Seq(Byte) /\ text \in Seq(Byte)
    BY <1>6, <1>7, <1>10, Zenon
  <2>2. /\ \A i \in 1 .. Len(x) : x[i] \in Whitespace
        /\ \A i \in 1 .. Len(y) : y[i] \in Whitespace
    BY <1>3 DEF Whitespace
  <2>3. w = (x \o text) \o y
    BY <1>1
  <2> QED
    BY ONLY <1>7, <2>1, <2>2, <2>3, SpacesGo
<1>13. from_str_radix(text) = IF IsNumber(digits) /\ ~(HexValue(digits) > USIZE_MAX)
                              THEN HexValue(digits) ELSE NoSize
  <2>1. text = sign \o digits
    BY <1>1
  <2> QED
    BY ONLY <1>3, <2>1, TextReads
<1> QED
  BY <1>1, <1>9, <1>10, <1>11, <1>12, <1>13, Zenon DEF SizeOf

-----------------------------------------------------------------------------
(* The invariant. *)

\* All chunks of the body are in w, and the last line behind them.
Sent(w, M, e) ==
  /\ Chain(w, body, M, e, claimed) /\ M[e] = Len(body)
  /\ Line(w, e, <<"0">>)
  /\ Len(w) <= MaxWire

\* What has arrived of it.
Arrived(w) == Part(wire, w) /\ (whole => Len(wire) = Len(w))

\* The decoder is between two chunks of w, with the body as far as it goes there
\* and a line that claims too much still before it, if there is one.
Reached(w, M, e, at, bytes) ==
  /\ at \in DOMAIN M
  /\ Part(bytes, body) /\ Len(bytes) = M[at]
  /\ claimed => \E p \in DOMAIN M :
                  at <= p /\ p # e /\ \E line : Line(w, p, line) /\ Claims(line)

\* A chunked response.
ChunkedInv ==
  /\ phase = "sending" =>
       \E M : Chain(wire, body, M, Len(wire), claimed) /\ M[Len(wire)] = taken
  /\ phase = "ended" => \E M, e : Sent(wire, M, e)
  /\ phase = "parsing" => \E w, M, e : Sent(w, M, e) /\ Arrived(w)
  /\ phase = "decoding" =>
       \E w, M, e : Sent(w, M, e) /\ Arrived(w) /\ Reached(w, M, e, pos, out)
  /\ phase = "checking" => out = body /\ ~claimed

\* One that is not.
RawInv ==
  /\ ~claimed /\ phase # "decoding"
  /\ phase = "ended" => wire = body
  /\ phase = "parsing" => Arrived(body)
  /\ phase = "checking" => Part(out, body) /\ (whole => Len(out) = Len(body))

HttpInv ==
  /\ body \in Bodies /\ head \in HeadsFor(body) /\ taken \in Nat
  /\ wire \in Seq(Byte)
  /\ phase \in {"sending", "ended", "parsing"} => pos = 0 /\ out = <<>>
  /\ phase \in {"sending", "ended"} => ~whole
  /\ is_chunked(head) => ChunkedInv
  /\ ~is_chunked(head) => RawInv
  /\ BodyIsWhatWasSent
  /\ HonestBodyIsTaken

\* The constants by themselves.
LEMMA Sizes == /\ USIZE_MAX \in Nat /\ MAX_HEADERS \in Nat /\ MaxWire \in Nat
               /\ MaxWire <= USIZE_MAX
  BY HttpAssumption, Zenon

\* A body's bytes.
LEMMA BodyBytes == ASSUME NEW b \in Bodies PROVE b \in Seq(Byte)
  BY HttpAssumption, Zenon

\* What one step of decode_chunked meets: what has not arrived or cannot be
\* read, the last line, a claim, a chunk that is cut off, or a chunk.
LEMMA Decoding ==
  ASSUME body \in Bodies, NEW w, NEW M, NEW e, Sent(w, M, e), Arrived(w),
         Reached(w, M, e, pos, out)
  PROVE  \/ size = NoSize /\ (~whole \/ claimed)
         \/ size = 0 /\ out = body /\ ~claimed
         \/ size \in Nat /\ size > MaxWire /\ next \in Nat /\ claimed
         \/ /\ size \in Nat \ {0} /\ next \in Nat
            /\ next + size + 2 <= MaxWire
            /\ Len(wire) < next + size + 2 /\ ~whole
         \/ /\ size \in Nat \ {0} /\ next \in Nat
            /\ next + size + 2 <= MaxWire
            /\ next + size + 2 <= Len(wire) /\ Closed
            /\ Reached(w, M, e, next + size + 2,
                       out \o SubSeq(wire, next + 1, next + size))
<1>1. PICK b, s, p, x : b = body /\ s = wire /\ p = pos /\ x = out
  OBVIOUS
<1>2. /\ Chain(w, b, M, e, claimed) /\ M[e] = Len(b) /\ Line(w, e, <<"0">>)
      /\ Len(w) <= MaxWire
  BY <1>1, Zenon DEF Sent
<1>3. Part(s, w) /\ (whole => Len(s) = Len(w))
  BY <1>1, Zenon DEF Arrived
<1>4. p \in DOMAIN M /\ Part(x, b) /\ Len(x) = M[p]
  BY <1>1, Zenon DEF Reached
<1>5. /\ w \in Seq(Byte) /\ b \in Seq(Byte) /\ e \in Nat /\ e <= Len(w)
      /\ \A y \in DOMAIN M : y \in 0 .. e /\ M[y] \in 0 .. Len(b)
  BY <1>2, Zenon DEF Chain
<1>6. s \in Seq(Byte) /\ Len(s) <= Len(w) /\ x \in Seq(Byte)
  BY <1>3, <1>4, Zenon DEF Part
<1>7. p \in Nat /\ Len(s) \in Nat /\ Len(w) \in Nat /\ Len(b) \in Nat /\ Len(x) \in Nat
  BY <1>4, <1>5, <1>6
<1>8. CASE p = e
  <2>1. PICK line, l : line = <<"0">> /\ l = Len(line)
    OBVIOUS
  <2>2. Part(wire, w) /\ pos \in Nat /\ Line(w, pos, line)
    BY <1>1, <1>2, <1>3, <1>7, <1>8, <2>1, Zenon
  <2>3. /\ Len(wire) < pos + l + 2 => size = NoSize
        /\ Len(wire) >= pos + l + 2 => size = SizeOf(line)
    BY <2>1, <2>2, AtLine
  <2>4. SizeOf(line) = 0
    BY <2>1, ZeroReads, Zenon
  <2>5. pos + l + 2 <= Len(w)
    BY <2>1, <2>2, Zenon DEF Line
  <2>6. l \in Nat
    BY <2>1
  <2>7. CASE Len(wire) < pos + l + 2
    <3>1. Len(wire) # Len(w)
      BY <1>1, <1>7, <2>5, <2>6, <2>7
    <3> QED
      BY <1>1, <1>3, <2>3, <2>7, <3>1, Zenon
  <2>8. CASE ~(Len(wire) < pos + l + 2)
    <3>1. size = 0
      BY <1>1, <1>7, <2>3, <2>4, <2>6, <2>8
    <3>2. ~claimed
      <4>1. SUFFICES ASSUME NEW y \in DOMAIN M, pos <= y, y # e PROVE FALSE
        BY Zenon DEF Reached
      <4> QED
        BY <1>1, <1>5, <1>8, <4>1
    <3>3. x = b
      <4>1. Len(x) = Len(b)
        BY <1>2, <1>4, <1>8
      <4>2. \A i \in 1 .. Len(x) : x[i] = b[i]
        BY <1>4, Zenon DEF Part
      <4> QED
        BY <1>5, <1>6, <4>1, <4>2, SeqEqual
    <3> QED
      BY <1>1, <3>1, <3>2, <3>3, Zenon
  <2> QED
    BY <2>7, <2>8
<1>9. CASE p # e
  <2>1. PICK line, n, q :
          /\ Block(w, b, p, line, n, M[p]) /\ q = p + Len(line) + n + 4
          /\ q \in DOMAIN M /\ M[q] = M[p] + n
          /\ \A r \in DOMAIN M : r <= p \/ q <= r
          /\ SizeOf(line) = n \/ (claimed /\ Claims(line))
    BY <1>2, <1>4, <1>9, Zenon DEF Chain
  <2>2. PICK l, o : l = Len(line) /\ o = M[p]
    OBVIOUS
  <2>3. /\ Line(w, p, line)
        /\ n \in Nat \ {0} /\ o \in Nat /\ o + n <= Len(b)
        /\ p + l + n + 4 <= Len(w)
        /\ \A i \in 1 .. n : w[p + l + 2 + i] = b[o + i]
        /\ w[p + l + n + 3] = "CR" /\ w[p + l + n + 4] = "LF"
    BY <2>1, <2>2, Zenon DEF Block
  <2>4. line \in Seq(Byte) /\ p + l + 2 <= Len(w)
    BY <2>2, <2>3, Zenon DEF Line
  <2>5. l \in Nat /\ q = p + l + n + 4
    BY <2>1, <2>2, <2>4
  <2>6. /\ Len(wire) < pos + l + 2 => size = NoSize
        /\ Len(wire) >= pos + l + 2 => size = SizeOf(line) /\ next = pos + l + 2
    <3>1. Part(wire, w) /\ pos \in Nat /\ Line(w, pos, line)
      BY <1>1, <1>3, <1>7, <2>3, Zenon
    <3> QED
      BY <2>2, <3>1, AtLine
  <2>7. CASE Len(wire) < pos + l + 2
    <3>1. Len(wire) # Len(w)
      BY <1>1, <1>7, <2>4, <2>5, <2>7
    <3> QED
      BY <1>1, <1>3, <2>6, <2>7, <3>1, Zenon
  <2>8. CASE Len(wire) >= pos + l + 2 /\ SizeOf(line) # n
    <3>1. claimed /\ Claims(line) /\ size = SizeOf(line) /\ next = p + l + 2
      BY <1>1, <2>1, <2>6, <2>8, Zenon
    <3>2. next \in Nat
      BY <1>7, <2>5, <3>1
    <3> QED
      BY <3>1, <3>2, Zenon DEF Claims
  <2>9. CASE Len(wire) >= pos + l + 2 /\ SizeOf(line) = n
    <3>1. size = n /\ next = p + l + 2
      BY <1>1, <2>6, <2>9, Zenon
    <3>2. /\ next \in Nat /\ size \in Nat \ {0} /\ next + size + 2 = q
          /\ q <= MaxWire /\ q <= Len(w) /\ q \in Nat
      BY <1>2, <1>7, <2>3, <2>5, <3>1, Sizes
    <3>3. CASE Len(wire) < q
      <4>1. Len(wire) # Len(w)
        BY <1>1, <1>7, <3>2, <3>3
      <4> QED
        BY <1>1, <1>3, <3>2, <3>3, <4>1, Zenon
    <3>4. CASE q <= Len(wire)
      <4>1. \A i \in 1 .. Len(s) : s[i] = w[i]
        BY <1>3, Zenon DEF Part
      <4>2. Closed
        <5>1. PICK k : k = p + l + n + 2
          OBVIOUS
        <5>2. /\ k \in Nat /\ k + 2 <= Len(s) /\ k + 1 = p + l + n + 3
              /\ k + 2 = p + l + n + 4
              /\ k + 1 \in 1 .. Len(s) /\ k + 2 \in 1 .. Len(s)
              /\ next + size + 1 = k + 1 /\ next + size + 2 = k + 2
          BY <1>1, <1>7, <2>3, <2>5, <3>1, <3>4, <5>1
        <5>3. s[k + 1] = "CR" /\ s[k + 2] = "LF"
          BY <2>3, <4>1, <5>2, Zenon
        <5>4. SubSeq(s, k + 1, k + 2) = CRLF
          BY <1>6, <5>2, <5>3, TwoBytes
        <5> QED
          BY <1>1, <5>2, <5>4, Zenon DEF Closed
      <4>3. PICK h, data, z : /\ h = p + l + 2 /\ data = SubSeq(s, h + 1, h + n)
                              /\ z = x \o data
        OBVIOUS
      <4>4. h \in Nat /\ n \in Nat /\ h + n <= Len(s)
        BY <1>1, <1>7, <2>3, <2>5, <3>4, <4>3
      <4>5. data \in Seq(Byte) /\ n = Len(data) /\ \A i \in 1 .. n : data[i] = s[h + i]
        <5>1. /\ SubSeq(s, h + 1, h + n) \in Seq(Byte)
              /\ Len(SubSeq(s, h + 1, h + n)) = n
              /\ \A i \in 1 .. n : SubSeq(s, h + 1, h + n)[i] = s[h + i]
          BY <1>6, <4>4, Piece
        <5> QED
          BY <4>3, <5>1, Zenon
      <4>6. \A i \in 1 .. n : data[i] = b[o + i]
        <5> TAKE i \in 1 .. n
        <5>1. h + i \in 1 .. Len(s)
          BY <1>7, <4>4
        <5>2. w[h + i] = b[o + i]
          BY <2>3, <4>3, Zenon
        <5> QED
          BY <4>1, <4>5, <5>1, <5>2, Zenon
      <4>7. /\ z \in Seq(Byte) /\ Len(z) = o + n
            /\ \A i \in 1 .. o : z[i] = x[i]
            /\ \A i \in 1 .. n : z[o + i] = data[i]
        <5>1. o = Len(x) /\ z = x \o data /\ x \in Seq(Byte)
          BY <1>4, <1>6, <2>2, <4>3
        <5> QED
          BY <4>5, <5>1, Joined
      <4>8. Part(z, b)
        <5>1. ASSUME NEW i \in 1 .. o + n PROVE z[i] = b[i]
          <6>1. CASE i <= o
            <7>1. i \in 1 .. o /\ i \in 1 .. Len(x)
              BY <1>4, <2>2, <2>3, <6>1
            <7> QED
              BY <1>4, <4>7, <7>1, Zenon DEF Part
          <6>2. CASE ~(i <= o)
            <7>1. PICK j : j = i - o
              OBVIOUS
            <7>2. j \in 1 .. n /\ o + j = i
              BY <2>3, <6>2, <7>1
            <7> QED
              BY <4>6, <4>7, <7>2
          <6> QED
            BY <6>1, <6>2
        <5>2. Len(z) <= Len(b)
          BY <2>3, <4>7
        <5> QED
          BY <1>5, <4>7, <5>1, <5>2, Zenon DEF Part
      <4>9. Len(z) = M[q]
        BY <2>1, <2>2, <4>7
      <4>10. ASSUME claimed
             PROVE  \E y \in DOMAIN M :
                      q <= y /\ y # e /\ \E ln : Line(w, y, ln) /\ Claims(ln)
        <5>1. PICK y \in DOMAIN M :
                p <= y /\ y # e /\ \E ln : Line(w, y, ln) /\ Claims(ln)
          BY <1>1, <4>10, Zenon DEF Reached
        <5>2. y # p
          <6>1. SUFFICES ASSUME y = p PROVE FALSE
            OBVIOUS
          <6>2. PICK ln : Line(w, y, ln) /\ Claims(ln)
            BY <5>1
          <6>3. PICK k : k = Len(ln)
            OBVIOUS
          <6>4. Part(wire, w) /\ pos \in Nat /\ Line(w, pos, ln)
            BY <1>1, <1>3, <1>7, <6>1, <6>2, Zenon
          <6>5. /\ Len(wire) < pos + k + 2 => size = NoSize
                /\ Len(wire) >= pos + k + 2 => size = SizeOf(ln)
            BY <6>3, <6>4, AtLine
          <6>6. k \in Nat
            <7>1. ln \in Seq(Byte)
              BY <6>2, Zenon DEF Line
            <7> QED
              BY <6>3, <7>1
          <6>7. size = NoSize \/ size = SizeOf(ln)
            BY <1>1, <1>7, <6>5, <6>6
          <6>8. size = NoSize \/ size > MaxWire
            BY <6>2, <6>7, Zenon DEF Claims
          <6> QED
            BY <1>7, <2>5, <3>1, <3>2, <6>8, Sizes DEF NoSize
        <5>3. q <= y
          <6>1. y \in Int /\ ~(y <= p)
            BY <1>5, <1>7, <5>1, <5>2
          <6> QED
            BY <2>1, <6>1, Zenon
        <5> QED
          BY <5>1, <5>3, Zenon
      <4>11. Reached(w, M, e, q, z)
        BY <1>1, <2>1, <4>8, <4>9, <4>10, Zenon DEF Reached
      <4>12. z = out \o SubSeq(wire, next + 1, next + size)
        BY <1>1, <3>1, <4>3, Zenon
      <4> QED
        BY <3>2, <3>4, <4>2, <4>11, <4>12, Zenon
    <3> QED
      BY <1>1, <1>7, <3>2, <3>3, <3>4
  <2> QED
    BY <1>1, <1>7, <2>5, <2>7, <2>8, <2>9
<1> QED
  BY <1>8, <1>9

-----------------------------------------------------------------------------
(* Every step keeps the invariant. *)

\* Nothing is said of a response that is still on its way.
LEMMA OnItsWay ==
  ASSUME phase' \notin {"ok", "error", "panic"}
  PROVE  BodyIsWhatWasSent' /\ HonestBodyIsTaken'
  BY Zenon DEF BodyIsWhatWasSent, HonestBodyIsTaken

\* A response may be refused where there is a reason for it.
LEMMA Refused ==
  ASSUME HttpInv, Fail, ~whole \/ claimed \/ ~HonestHead \/ ~is_json_text(body)
  PROVE  HttpInv'
<1>1. /\ phase' = "error" /\ body' = body /\ head' = head /\ taken' = taken
      /\ claimed' = claimed /\ wire' = wire /\ whole' = whole
  BY Zenon DEF Fail, serverVars
<1>2. BodyIsWhatWasSent'
  BY <1>1 DEF BodyIsWhatWasSent
<1>3. HonestBodyIsTaken'
  BY <1>1, Zenon DEF HonestBodyIsTaken, HonestHead
<1>4. is_chunked(head') => ChunkedInv'
  BY <1>1 DEF ChunkedInv
<1>5. ~is_chunked(head') => RawInv'
  <2>1. ~is_chunked(head) => ~claimed
    BY Zenon DEF HttpInv, RawInv
  <2> QED
    BY <1>1, <2>1 DEF RawInv
<1>6. /\ body' \in Bodies /\ head' \in HeadsFor(body') /\ taken' \in Nat
      /\ wire' \in Seq(Byte)
  BY <1>1, Zenon DEF HttpInv
<1> QED
  BY <1>1, <1>2, <1>3, <1>4, <1>5, <1>6 DEF HttpInv

\* The first state.
LEMMA InitHttp == Init => HttpInv
<1> SUFFICES ASSUME Init PROVE HttpInv
  OBVIOUS
<1>1. /\ body \in Bodies /\ head \in HeadsFor(body) /\ taken = 0 /\ claimed = FALSE
      /\ wire = <<>> /\ whole = FALSE /\ phase = "sending" /\ pos = 0 /\ out = <<>>
  BY Zenon DEF Init
<1>2. wire \in Seq(Byte) /\ Len(wire) = 0
  BY <1>1
<1>3. body \in Seq(Byte)
  BY <1>1, BodyBytes
<1>4. ChunkedInv
  <2>1. PICK M, e, b, w, no : /\ M = [x \in {0} |-> 0] /\ e = 0 /\ b = body /\ w = wire
                              /\ no = FALSE
    OBVIOUS
  <2>2. /\ w \in Seq(Byte) /\ b \in Seq(Byte) /\ e \in Nat /\ e <= Len(w)
        /\ 0 \in DOMAIN M /\ e \in DOMAIN M /\ M[0] = 0 /\ M[e] = 0
    BY <1>2, <1>3, <2>1
  <2>3. \A p \in DOMAIN M : p \in 0 .. e /\ M[p] \in 0 .. Len(b) /\ p = e
    BY <2>1, <2>2
  <2>4. Chain(w, b, M, e, no)
    BY <2>1, <2>2, <2>3, Zenon DEF Chain
  <2> QED
    BY <1>1, <1>2, <2>1, <2>2, <2>4 DEF ChunkedInv
<1>5. RawInv
  BY <1>1 DEF RawInv
<1> QED
  BY <1>1, <1>2, <1>4, <1>5 DEF HttpInv, BodyIsWhatWasSent, HonestBodyIsTaken

\* A body without chunks.
LEMMA SendRawInv == ASSUME HttpInv, SendRaw PROVE HttpInv'
<1>1. /\ phase' = "ended" /\ body' = body /\ head' = head /\ taken' = Len(body)
      /\ claimed' = claimed /\ wire' = body /\ whole' = whole /\ pos' = pos /\ out' = out
      /\ phase = "sending" /\ ~is_chunked(head)
  BY Zenon DEF SendRaw, clientVars
<1>2. /\ body \in Bodies /\ head \in HeadsFor(body) /\ ~whole /\ pos = 0 /\ out = <<>>
      /\ ~claimed
  BY <1>1 DEF HttpInv, RawInv
<1>3. body \in Seq(Byte) /\ Len(body) \in Nat
  <2>1. body \in Seq(Byte)
    BY <1>2, BodyBytes
  <2> QED
    BY <2>1
<1>4. BodyIsWhatWasSent' /\ HonestBodyIsTaken'
  BY <1>1, OnItsWay
<1>5. RawInv'
  BY <1>1, <1>2 DEF RawInv
<1> QED
  BY <1>1, <1>2, <1>3, <1>4, <1>5 DEF HttpInv

\* One more chunk of the body.
LEMMA PutChunkInv ==
  ASSUME HttpInv, NEW n, NEW line, PutChunk(n, line), line \in Seq(Byte),
         \A i \in 1 .. Len(line) : line[i] # "CR",
         claimed => claimed', claimed' => claimed \/ Claims(line),
         SizeOf(line) = n \/ (claimed' /\ Claims(line))
  PROVE  HttpInv'
<1>1. /\ phase = "sending" /\ is_chunked(head) /\ n \in 1 .. Len(body) - taken
      /\ wire' = wire \o line \o CRLF \o SubSeq(body, taken + 1, taken + n) \o CRLF
      /\ taken' = taken + n /\ body' = body /\ head' = head
      /\ phase' = phase /\ whole' = whole /\ pos' = pos /\ out' = out
  BY Zenon DEF PutChunk, clientVars
<1>2. /\ body \in Bodies /\ head \in HeadsFor(body) /\ taken \in Nat /\ wire \in Seq(Byte)
      /\ ~whole /\ pos = 0 /\ out = <<>> /\ ChunkedInv
  BY <1>1 DEF HttpInv
<1>3. body \in Seq(Byte)
  BY <1>2, BodyBytes
<1>4. PICK M : Chain(wire, body, M, Len(wire), claimed) /\ M[Len(wire)] = taken
  BY <1>1, <1>2, Zenon DEF ChunkedInv
<1>5. PICK w, p, b, o, u, lies, lie :
        /\ w = wire /\ p = Len(wire) /\ b = body /\ o = taken /\ u = wire'
        /\ lies = claimed /\ lie = claimed'
  OBVIOUS
<1>6. /\ w \in Seq(Byte) /\ p = Len(w) /\ b \in Seq(Byte) /\ o \in Nat
      /\ n \in Nat \ {0} /\ o + n <= Len(b)
      /\ u = w \o line \o CRLF \o SubSeq(b, o + 1, o + n) \o CRLF
  <2>1. n \in Nat \ {0} /\ taken + n <= Len(body)
    <3>1. Len(body) \in Nat
      BY <1>3
    <3> QED
      BY <1>1, <1>2, <3>1
  <2> QED
    BY <1>1, <1>2, <1>3, <1>5, <2>1, Zenon
<1>7. Part(w, u) /\ Len(u) = p + Len(line) + n + 4 /\ Block(u, b, p, line, n, o)
  <2>1. Put(w, p, line, b, o, n, u)
    BY <1>6, Zenon DEF Put
  <2> QED
    BY ONLY <2>1, BlockIsPut
<1>8. Chain(w, b, M, p, lies) /\ M[p] = o /\ Block(u, b, p, line, n, M[p])
  BY <1>4, <1>5, <1>7, Zenon
<1>9. /\ lies => lie
      /\ lie => lies \/ Claims(line)
      /\ SizeOf(line) = n \/ (lie /\ Claims(line))
  BY <1>5
<1>10. \E N : Chain(u, b, N, Len(u), lie) /\ N[Len(u)] = M[p] + n
  <2>1. Added(w, u, b, M, p, lies, line, n, lie)
    BY <1>6, <1>7, <1>8, <1>9, Zenon DEF Added
  <2> QED
    BY ONLY <2>1, ChainGrows
<1>11. ChunkedInv'
  <2>1. PICK N : Chain(u, b, N, Len(u), lie) /\ N[Len(u)] = o + n
    BY <1>8, <1>10, Zenon
  <2>2. Chain(wire', body', N, Len(wire'), claimed') /\ N[Len(wire')] = taken'
    BY <1>1, <1>5, <2>1, Zenon
  <2>3. phase' = "sending"
    BY <1>1
  <2> QED
    BY <2>2, <2>3 DEF ChunkedInv
<1>12. wire' \in Seq(Byte)
  BY <1>5, <1>7, Zenon DEF Part
<1>13. taken' \in Nat
  BY <1>1, <1>2, <1>6
<1>14. BodyIsWhatWasSent' /\ HonestBodyIsTaken'
  BY <1>1, OnItsWay
<1> QED
  BY <1>1, <1>2, <1>11, <1>12, <1>13, <1>14 DEF HttpInv

\* A chunk whose size line says what it is.
LEMMA SendChunkInv == ASSUME HttpInv, NEW n, SendChunk(n) PROVE HttpInv'
<1>1. PICK sp \in SizeLines(n) : PutChunk(n, SizeLine(sp)) /\ claimed' = claimed
  BY Zenon DEF SendChunk
<1> DEFINE line == SizeLine(sp)
<1>2. body \in Bodies /\ taken \in Nat
  BY Zenon DEF HttpInv
<1>3. n \in 1 .. Len(body)
  <2>1. n \in 1 .. Len(body) - taken
    BY <1>1, Zenon DEF PutChunk
  <2>2. body \in Seq(Byte)
    BY <1>2, BodyBytes
  <2>3. Len(body) \in Nat
    BY <2>2
  <2> QED
    BY <1>2, <2>1, <2>3
<1>4. IsSpelling(sp) /\ IsNumber(sp.digits) /\ HexValue(sp.digits) = n
  BY <1>1, <1>2, <1>3, ServerAssumption, Zenon
<1>5. /\ line \in Seq(Byte) /\ (\A i \in 1 .. Len(line) : line[i] # "CR")
      /\ SizeOf(line) = IF IsNumber(sp.digits) /\ ~(HexValue(sp.digits) > USIZE_MAX)
                        THEN HexValue(sp.digits) ELSE NoSize
  BY <1>4, SizeLineReads, Zenon
<1>6. ~(n > USIZE_MAX)
  <2>1. Len(body) <= MaxWire
    BY <1>2, HttpAssumption, Zenon
  <2>2. body \in Seq(Byte)
    BY <1>2, BodyBytes
  <2>3. Len(body) \in Nat
    BY <2>2
  <2> QED
    BY <1>3, <2>1, <2>3, Sizes
<1>7. SizeOf(line) = n
  BY <1>4, <1>5, <1>6, Zenon
<1> QED
  BY <1>1, <1>5, <1>7, PutChunkInv, Zenon

\* A chunk whose size line claims too much.
LEMMA SendOversizeInv == ASSUME HttpInv, NEW n, SendOversize(n) PROVE HttpInv'
<1>1. PICK sp \in Oversizes : PutChunk(n, SizeLine(sp)) /\ claimed' = TRUE
  BY Zenon DEF SendOversize
<1> DEFINE line == SizeLine(sp)
<1>2. /\ IsSpelling(sp)
      /\ IsNumber(sp.digits) =>
           HexValue(sp.digits) \in Nat /\ HexValue(sp.digits) > MaxWire
  BY <1>1, ServerAssumption, Zenon
<1>3. /\ line \in Seq(Byte) /\ (\A i \in 1 .. Len(line) : line[i] # "CR")
      /\ SizeOf(line) = IF IsNumber(sp.digits) /\ ~(HexValue(sp.digits) > USIZE_MAX)
                        THEN HexValue(sp.digits) ELSE NoSize
  BY <1>2, SizeLineReads, Zenon
<1>4. Claims(line)
  BY <1>2, <1>3, Zenon DEF Claims
<1> QED
  BY <1>1, <1>3, <1>4, PutChunkInv, Zenon

\* The last chunk.
LEMMA SendLastInv == ASSUME HttpInv, SendLast PROVE HttpInv'
<1>1. /\ phase = "sending" /\ is_chunked(head) /\ taken = Len(body)
      /\ wire' = wire \o <<"0">> \o CRLF \o CRLF /\ Len(wire') <= MaxWire
      /\ phase' = "ended" /\ body' = body /\ head' = head /\ taken' = taken
      /\ claimed' = claimed /\ whole' = whole /\ pos' = pos /\ out' = out
  BY Zenon DEF SendLast, serverVars, clientVars
<1>2. /\ body \in Bodies /\ head \in HeadsFor(body) /\ taken \in Nat /\ wire \in Seq(Byte)
      /\ ~whole /\ pos = 0 /\ out = <<>> /\ ChunkedInv
  BY <1>1 DEF HttpInv
<1>3. PICK M : Chain(wire, body, M, Len(wire), claimed) /\ M[Len(wire)] = taken
  BY <1>1, <1>2, Zenon DEF ChunkedInv
<1>4. PICK w, p, b, u, lies :
        w = wire /\ p = Len(wire) /\ b = body /\ u = wire' /\ lies = claimed
  OBVIOUS
<1>5. w \in Seq(Byte) /\ p = Len(w) /\ u = w \o <<"0">> \o CRLF \o CRLF
  BY <1>1, <1>2, <1>4, Zenon
<1>6. Part(w, u) /\ Line(u, p, <<"0">>)
  BY ONLY <1>5, LastIsPut
<1>7. Chain(w, b, M, p, lies)
  BY <1>3, <1>4, Zenon
<1>8. Chain(u, b, M, p, lies)
  BY ONLY <1>6, <1>7, ChainStays
<1>9. Sent(wire, M, p)'
  <2>1. Chain(wire', body', M, p, claimed') /\ Line(wire', p, <<"0">>)
    BY <1>1, <1>4, <1>6, <1>8, Zenon
  <2>2. M[p] = Len(body')
    BY <1>1, <1>3, <1>4, Zenon
  <2> QED
    BY <1>1, <2>1, <2>2 DEF Sent
<1>10. ChunkedInv'
  BY <1>1, <1>9 DEF ChunkedInv
<1>11. wire' \in Seq(Byte)
  BY <1>4, <1>6, Zenon DEF Part
<1>12. BodyIsWhatWasSent' /\ HonestBodyIsTaken'
  BY <1>1, OnItsWay
<1> QED
  BY <1>1, <1>2, <1>10, <1>11, <1>12 DEF HttpInv

\* The connection ends behind the head.
LEMMA ArrivesInv == ASSUME HttpInv, NEW n \in 0 .. Len(wire), Arrives(n) PROVE HttpInv'
<1>1. /\ phase = "ended" /\ wire' = SubSeq(wire, 1, n) /\ whole' = (n = Len(wire))
      /\ phase' = "parsing" /\ body' = body /\ head' = head /\ taken' = taken
      /\ claimed' = claimed /\ pos' = pos /\ out' = out
  BY Zenon DEF Arrives, serverVars, clientVars
<1>2. /\ body \in Bodies /\ head \in HeadsFor(body) /\ taken \in Nat /\ wire \in Seq(Byte)
      /\ pos = 0 /\ out = <<>>
  BY <1>1 DEF HttpInv
<1>3. PICK w, p, s : w = wire /\ p = 0 /\ s = wire'
  OBVIOUS
<1>4. w \in Seq(Byte) /\ p \in Nat /\ n \in Nat /\ p + n <= Len(w) /\ p + 1 = 1 /\ p + n = n
  <2>1. Len(wire) \in Nat
    BY <1>2
  <2> QED
    BY <1>2, <1>3, <2>1
<1>5. /\ SubSeq(w, p + 1, p + n) \in Seq(Byte)
      /\ Len(SubSeq(w, p + 1, p + n)) = n
      /\ \A i \in 1 .. n : SubSeq(w, p + 1, p + n)[i] = w[p + i]
  BY ONLY <1>4, Piece
<1>6. s = SubSeq(w, p + 1, p + n)
  BY <1>1, <1>3, <1>4, Zenon
<1>7. s \in Seq(Byte) /\ Len(s) = n /\ \A i \in 1 .. n : s[i] = w[i]
  <2>1. \A i \in 1 .. n : p + i = i
    BY <1>3, <1>4
  <2> QED
    BY <1>5, <1>6, <2>1, Zenon
<1>8. Part(s, w)
  <2>1. Len(s) <= Len(w)
    BY <1>3, <1>4, <1>7
  <2> QED
    BY <1>4, <1>7, <2>1, Zenon DEF Part
<1>9. Arrived(w)'
  <2>1. Part(wire', w) /\ (whole' => Len(wire') = Len(w))
    BY <1>1, <1>3, <1>7, <1>8, Zenon
  <2> QED
    BY <2>1 DEF Arrived
<1>10. ASSUME is_chunked(head) PROVE ChunkedInv'
  <2>1. PICK M, e : Sent(wire, M, e)
    BY <1>1, <1>10, Zenon DEF HttpInv, ChunkedInv
  <2>2. Sent(w, M, e)
    BY <1>3, <2>1, Zenon
  <2>3. Sent(w, M, e)'
    BY <1>1, <2>2 DEF Sent
  <2> QED
    BY <1>1, <1>9, <2>3 DEF ChunkedInv
<1>11. ASSUME ~is_chunked(head) PROVE RawInv'
  <2>1. wire = body /\ ~claimed
    BY <1>1, <1>11, Zenon DEF HttpInv, RawInv
  <2>2. w = body' /\ ~claimed'
    BY <1>1, <1>3, <2>1, Zenon
  <2>3. Part(wire', body') /\ (whole' => Len(wire') = Len(body'))
    BY <1>9, <2>2 DEF Arrived
  <2> QED
    BY <1>1, <2>2, <2>3 DEF RawInv, Arrived
<1>12. BodyIsWhatWasSent' /\ HonestBodyIsTaken'
  BY <1>1, OnItsWay
<1>13. wire' \in Seq(Byte)
  BY <1>3, <1>7, Zenon
<1> QED
  BY <1>1, <1>2, <1>10, <1>11, <1>12, <1>13 DEF HttpInv

\* It ends inside the head.
LEMMA ArrivesWithoutHeadInv == ASSUME HttpInv, ArrivesWithoutHead PROVE HttpInv'
<1>1. /\ phase = "ended" /\ wire' = <<>> /\ whole' = FALSE
      /\ phase' = "error" /\ body' = body /\ head' = head /\ taken' = taken
      /\ claimed' = claimed
  BY Zenon DEF ArrivesWithoutHead, serverVars
<1>2. /\ body \in Bodies /\ head \in HeadsFor(body) /\ taken \in Nat
      /\ ~is_chunked(head) => ~claimed
  BY Zenon DEF HttpInv, RawInv
<1>3. wire' \in Seq(Byte)
  BY <1>1
<1>4. ChunkedInv'
  BY <1>1 DEF ChunkedInv
<1>5. ~is_chunked(head) => RawInv'
  BY <1>1, <1>2 DEF RawInv
<1>6. BodyIsWhatWasSent' /\ HonestBodyIsTaken'
  BY <1>1 DEF BodyIsWhatWasSent, HonestBodyIsTaken
<1> QED
  BY <1>1, <1>2, <1>3, <1>4, <1>5, <1>6 DEF HttpInv

\* httparse gives up.
LEMMA HeadFailsInv == ASSUME HttpInv, HeadFails PROVE HttpInv'
<1>1. Fail /\ (Len(head) > MAX_HEADERS \/ \E i \in 1 .. Len(head) : head[i] = <<"garbage">>)
  BY Zenon DEF HeadFails
<1>2. body \in Bodies /\ head \in HeadsFor(body)
  BY Zenon DEF HttpInv
<1>3. Len(head) \in Nat
  BY <1>2, ServerAssumption, Zenon
<1>4. ~HonestHead
  <2>1. Len(head) > MAX_HEADERS => ~(Len(head) <= MAX_HEADERS)
    BY <1>3, Sizes
  <2> QED
    BY <1>1, <2>1, Zenon DEF HonestHead
<1> QED
  BY <1>1, <1>4, Refused

\* The head is read.
LEMMA ParseHeadInv == ASSUME HttpInv, ParseHead PROVE HttpInv'
<1>1. /\ phase = "parsing" /\ body' = body /\ head' = head /\ taken' = taken
      /\ claimed' = claimed /\ wire' = wire /\ whole' = whole /\ pos' = pos
      /\ is_chunked(head) => phase' = "decoding" /\ out' = out
      /\ ~is_chunked(head) => phase' = "checking" /\ out' = wire
  BY Zenon DEF ParseHead, serverVars
<1>2. /\ body \in Bodies /\ head \in HeadsFor(body) /\ taken \in Nat /\ wire \in Seq(Byte)
      /\ pos = 0 /\ out = <<>>
  BY <1>1 DEF HttpInv
<1>3. body \in Seq(Byte)
  BY <1>2, BodyBytes
<1>4. ASSUME is_chunked(head) PROVE ChunkedInv'
  <2>1. PICK w, M, e : Sent(w, M, e) /\ Arrived(w)
    BY <1>1, <1>4, Zenon DEF HttpInv, ChunkedInv
  <2>2. Chain(w, body, M, e, claimed)
    BY <2>1, Zenon DEF Sent
  <2>3. /\ 0 \in DOMAIN M /\ M[0] = 0
        /\ claimed => \E p \in DOMAIN M : p # e /\ \E line : Line(w, p, line) /\ Claims(line)
        /\ \A p \in DOMAIN M : p \in 0 .. e
    BY <2>2, Zenon DEF Chain
  <2>4. \A p \in DOMAIN M : 0 <= p
    BY <2>3
  <2>5. Part(<<>>, body) /\ Len(<<>>) = 0
    BY <1>3 DEF Part
  <2>6. Reached(w, M, e, 0, <<>>)
    BY <2>3, <2>4, <2>5, Zenon DEF Reached
  <2>7. Sent(w, M, e)' /\ Arrived(w)'
    BY <1>1, <2>1 DEF Sent, Arrived
  <2>8. Reached(w, M, e, pos, out)'
    <3>1. pos' = 0 /\ out' = <<>>
      BY <1>1, <1>2, <1>4
    <3> QED
      BY <1>1, <2>6, <3>1 DEF Reached
  <2> QED
    BY <1>1, <1>4, <2>7, <2>8 DEF ChunkedInv
<1>5. ASSUME ~is_chunked(head) PROVE RawInv'
  <2>1. ~claimed /\ Arrived(body)
    BY <1>1, <1>5, Zenon DEF HttpInv, RawInv
  <2>2. Part(out', body') /\ (whole' => Len(out') = Len(body'))
    BY <1>1, <1>5, <2>1, Zenon DEF Arrived
  <2> QED
    BY <1>1, <1>5, <2>1, <2>2 DEF RawInv
<1>6. phase' \in {"decoding", "checking"}
  BY <1>1
<1>7. BodyIsWhatWasSent' /\ HonestBodyIsTaken'
  BY <1>6, OnItsWay
<1> QED
  BY <1>1, <1>2, <1>4, <1>5, <1>6, <1>7 DEF HttpInv

\* Only a chunked response is decoded.
LEMMA DecodingInv ==
  ASSUME HttpInv, phase = "decoding"
  PROVE  /\ is_chunked(head) /\ body \in Bodies
         /\ \E w, M, e : Sent(w, M, e) /\ Arrived(w) /\ Reached(w, M, e, pos, out)
  BY Zenon DEF HttpInv, ChunkedInv, RawInv

\* The sum of the code is not wrapped where it fits a usize.
LEMMA NotWrapped == ASSUME NEW n \in Nat, n <= USIZE_MAX PROVE usize(n) = n
  BY Sizes DEF usize

\* A size line that is missing or cannot be read.
LEMMA SizeFailsInv == ASSUME HttpInv, SizeFails PROVE HttpInv'
<1>1. Fail /\ phase = "decoding" /\ size = NoSize
  BY Zenon DEF SizeFails
<1>2. PICK w, M, e : Sent(w, M, e) /\ Arrived(w) /\ Reached(w, M, e, pos, out)
  BY <1>1, DecodingInv, Zenon
<1>3. body \in Bodies
  BY <1>1, DecodingInv, Zenon
<1>4. \/ ~whole \/ claimed
      \/ size = 0
      \/ size \in Nat
  BY <1>2, <1>3, Decoding
<1>5. ~whole \/ claimed
  BY <1>1, <1>4 DEF NoSize
<1> QED
  BY <1>1, <1>5, Refused

\* The line of the last chunk.
LEMMA LastChunkInv == ASSUME HttpInv, LastChunk PROVE HttpInv'
<1>1. /\ phase = "decoding" /\ size = 0 /\ phase' = "checking"
      /\ body' = body /\ head' = head /\ taken' = taken
      /\ claimed' = claimed /\ wire' = wire /\ whole' = whole /\ out' = out
  BY Zenon DEF LastChunk, serverVars
<1>2. PICK w, M, e : Sent(w, M, e) /\ Arrived(w) /\ Reached(w, M, e, pos, out)
  BY <1>1, DecodingInv, Zenon
<1>3. body \in Bodies /\ is_chunked(head)
  BY <1>1, DecodingInv, Zenon
<1>4. \/ size = NoSize
      \/ out = body /\ ~claimed
      \/ size \in Nat /\ size > MaxWire
      \/ size \in Nat \ {0}
  BY <1>2, <1>3, Decoding
<1>5. out = body /\ ~claimed
  BY <1>1, <1>4, Sizes DEF NoSize
<1>6. ChunkedInv'
  BY <1>1, <1>5 DEF ChunkedInv
<1>7. BodyIsWhatWasSent' /\ HonestBodyIsTaken'
  BY <1>1, OnItsWay
<1>8. head \in HeadsFor(body) /\ taken \in Nat /\ wire \in Seq(Byte)
  BY Zenon DEF HttpInv
<1> QED
  BY <1>1, <1>3, <1>6, <1>7, <1>8 DEF HttpInv

\* A chunk that does not fit the response, or does not end in CRLF.
LEMMA ChunkFailsInv == ASSUME HttpInv, ChunkFails PROVE HttpInv'
<1>1. /\ Fail /\ phase = "decoding" /\ size > 0
      /\ TooLong \/ (~TooLong /\ ~Closed)
  BY Zenon DEF ChunkFails
<1>2. PICK w, M, e : Sent(w, M, e) /\ Arrived(w) /\ Reached(w, M, e, pos, out)
  BY <1>1, DecodingInv, Zenon
<1>3. body \in Bodies /\ wire \in Seq(Byte)
  BY Zenon DEF HttpInv
<1>4. \/ size = NoSize
      \/ size = 0
      \/ claimed
      \/ ~whole
      \/ /\ size \in Nat \ {0} /\ next \in Nat /\ next + size + 2 <= MaxWire
         /\ next + size + 2 <= Len(wire) /\ Closed
  BY <1>2, <1>3, Decoding
<1>5. CASE /\ size \in Nat \ {0} /\ next \in Nat /\ next + size + 2 <= MaxWire
           /\ next + size + 2 <= Len(wire) /\ Closed
  <2>1. PICK k : k = next + size + 2
    OBVIOUS
  <2>2. k \in Nat /\ k <= USIZE_MAX /\ k <= Len(wire) /\ Len(wire) \in Nat
    BY <1>3, <1>5, <2>1, Sizes
  <2>3. usize(k) = k
    BY <2>2, NotWrapped
  <2>4. ~(Len(wire) < k)
    BY <2>2
  <2>5. ~TooLong
    BY <2>1, <2>3, <2>4, Zenon DEF TooLong
  <2> QED
    BY <1>1, <1>5, <2>5
<1>6. claimed \/ ~whole \/ HttpInv'
  BY <1>1, <1>4, <1>5 DEF NoSize
<1> QED
  BY <1>1, <1>6, Refused

\* A chunk whose end wraps: only a claim reaches that far.
LEMMA ChunkPanicsInv == ASSUME HttpInv, ChunkPanics PROVE HttpInv'
<1>1. /\ phase = "decoding" /\ size > 0 /\ next + size + 2 > USIZE_MAX /\ phase' = "panic"
      /\ body' = body /\ head' = head /\ taken' = taken
      /\ claimed' = claimed /\ wire' = wire /\ whole' = whole
  BY Zenon DEF ChunkPanics, serverVars
<1>2. PICK w, M, e : Sent(w, M, e) /\ Arrived(w) /\ Reached(w, M, e, pos, out)
  BY <1>1, DecodingInv, Zenon
<1>3. /\ body \in Bodies /\ head \in HeadsFor(body) /\ taken \in Nat /\ wire \in Seq(Byte)
  BY Zenon DEF HttpInv
<1>4. is_chunked(head)
  BY <1>1, DecodingInv, Zenon
<1>5. \/ size = NoSize
      \/ size = 0
      \/ claimed
      \/ size \in Nat \ {0} /\ next \in Nat /\ next + size + 2 <= MaxWire
  BY <1>2, <1>3, Decoding
<1>6. claimed
  BY <1>1, <1>5, Sizes DEF NoSize
<1>7. ChunkedInv'
  BY <1>1 DEF ChunkedInv
<1>8. BodyIsWhatWasSent' /\ HonestBodyIsTaken'
  BY <1>1, <1>6 DEF BodyIsWhatWasSent, HonestBodyIsTaken
<1> QED
  BY <1>1, <1>3, <1>4, <1>7, <1>8 DEF HttpInv

\* A chunk.
LEMMA TakeChunkInv == ASSUME HttpInv, TakeChunk PROVE HttpInv'
<1>1. /\ phase = "decoding" /\ size > 0 /\ next + size + 2 <= USIZE_MAX /\ ~TooLong
      /\ phase' = phase /\ body' = body /\ head' = head /\ taken' = taken
      /\ claimed' = claimed /\ wire' = wire /\ whole' = whole
      /\ out' = out \o SubSeq(wire, next + 1, next + size) /\ pos' = next + size + 2
  BY Zenon DEF TakeChunk, serverVars
<1>2. PICK w, M, e : Sent(w, M, e) /\ Arrived(w) /\ Reached(w, M, e, pos, out)
  BY <1>1, DecodingInv, Zenon
<1>3. /\ body \in Bodies /\ head \in HeadsFor(body) /\ taken \in Nat /\ wire \in Seq(Byte)
  BY Zenon DEF HttpInv
<1>4. is_chunked(head)
  BY <1>1, DecodingInv, Zenon
<1>5. \/ size = NoSize
      \/ size = 0
      \/ size \in Nat /\ size > MaxWire /\ next \in Nat
      \/ size \in Nat \ {0} /\ next \in Nat /\ Len(wire) < next + size + 2
      \/ Reached(w, M, e, next + size + 2, out \o SubSeq(wire, next + 1, next + size))
  BY <1>2, <1>3, Decoding
<1>6. Len(wire) \in Nat /\ Len(wire) <= MaxWire
  <2>1. /\ wire \in Seq(Byte) /\ w \in Seq(Byte) /\ Len(wire) <= Len(w) /\ Len(w) <= MaxWire
    BY <1>2, Zenon DEF Sent, Arrived, Part
  <2>2. Len(wire) \in Nat /\ Len(w) \in Nat
    BY <2>1
  <2> QED
    BY <2>1, <2>2, Sizes
<1>7. size \in Nat /\ next \in Nat => next + size + 2 <= Len(wire)
  <2> SUFFICES ASSUME size \in Nat, next \in Nat PROVE next + size + 2 <= Len(wire)
    OBVIOUS
  <2>1. PICK k : k = next + size + 2
    OBVIOUS
  <2>2. k \in Nat /\ k <= USIZE_MAX
    BY <1>1, <2>1
  <2>3. usize(k) = k
    BY <2>2, NotWrapped
  <2>4. ~(Len(wire) < k)
    BY <1>1, <2>1, <2>3, Zenon DEF TooLong
  <2> QED
    BY <1>6, <2>1, <2>2, <2>4
<1>8. Reached(w, M, e, next + size + 2, out \o SubSeq(wire, next + 1, next + size))
  BY <1>1, <1>5, <1>6, <1>7, Sizes DEF NoSize
<1>9. Reached(w, M, e, pos', out')
  BY <1>1, <1>8, Zenon
<1>10. Sent(w, M, e)' /\ Arrived(w)' /\ Reached(w, M, e, pos, out)'
  BY <1>1, <1>2, <1>9 DEF Sent, Arrived, Reached
<1>11. ChunkedInv'
  BY <1>1, <1>10 DEF ChunkedInv
<1>12. BodyIsWhatWasSent' /\ HonestBodyIsTaken'
  BY <1>1, OnItsWay
<1> QED
  BY <1>1, <1>3, <1>4, <1>11, <1>12 DEF HttpInv

\* The Content-Length that counts is the last.
LEMMA LastLength ==
  ASSUME NEW lines, Len(lines) \in Nat, NEW value,
         value = header_value(lines, "content-length"), value # <<>>, value[1] = "int"
  PROVE  \E i \in 1 .. Len(lines) : StatesLength(lines, i) /\ value = lines[i][2]
<1>1. PICK n, at : /\ n = Len(lines)
                   /\ at = {i \in 1 .. n : lines[i][1] = "content-length"}
  OBVIOUS
<1>2. value = IF at = {} THEN <<>> ELSE lines[CHOOSE i \in at : \A j \in at : j <= i][2]
  BY <1>1 DEF header_value
<1>3. at # {}
  BY <1>2, Zenon
<1>4. n \in Nat /\ \A k \in at : k \in 1 .. n
  BY <1>1
<1>5. PICK i : i = CHOOSE k \in at : \A j \in at : j <= k
  OBVIOUS
<1>6. i \in at /\ \A j \in at : j <= i
  BY <1>3, <1>4, <1>5, LastExists
<1>7. value = lines[i][2]
  BY <1>2, <1>3, <1>5, Zenon
<1>8. i \in 1 .. n /\ lines[i][1] = "content-length"
  BY <1>1, <1>6
<1>9. \A j \in 1 .. n : lines[j][1] = "content-length" => j <= i
  BY <1>1, <1>6
<1> QED
  BY <1>1, <1>7, <1>8, <1>9, Zenon DEF StatesLength

\* A beginning of b as long as b is b.
LEMMA AllOfIt ==
  ASSUME NEW s, NEW b, Part(s, b), Len(s) = Len(b)
  PROVE  s = b
<1>1. s \in Seq(Byte) /\ b \in Seq(Byte) /\ \A i \in 1 .. Len(s) : s[i] = b[i]
  BY Zenon DEF Part
<1> QED
  BY <1>1, SeqEqual

\* Where all of an honest body has been decoded, it is not refused.
LEMMA WholeIsTaken ==
  ASSUME out = body, ~(content_length_holds(head, out) /\ is_json_text(out))
  PROVE  ~HonestHead \/ ~is_json_text(body)
<1> SUFFICES ASSUME HonestHead, is_json_text(body) PROVE FALSE
  OBVIOUS
<1>1. PICK value : value = header_value(head, "content-length")
  OBVIOUS
<1>2. value \in {<<>>, <<"int", Len(body)>>}
  BY <1>1, Zenon DEF HonestHead
<1>3. PICK two : two = <<"int", Len(body)>>
  OBVIOUS
<1>4. two[1] = "int" /\ two[2] = Len(body)
  BY <1>3
<1>5. value # <<>> => value[1] = "int" /\ Len(out) = value[2]
  BY <1>2, <1>3, <1>4, Zenon
<1>6. content_length_holds(head, out)
  BY <1>1, <1>5, Zenon DEF content_length_holds
<1> QED
  BY <1>6, Zenon

\* A body that ends with the connection: a Content-Length keeps it whole, and a
\* JSON value does without one.
LEMMA RawIsRight ==
  ASSUME body \in Bodies, head \in HeadsFor(body), Part(out, body),
         content_length_holds(head, out), is_json_text(out), ~is_chunked(head)
  PROVE  IF Framed THEN out = body ELSE json_value(out) = json_value(body)
<1>1. PICK value : value = header_value(head, "content-length")
  OBVIOUS
<1>2. value # <<>> => value[1] = "int" /\ Len(out) = value[2]
  BY <1>1, Zenon DEF content_length_holds
<1>3. value # <<>> /\ value[1] = "int" => value[2] \in Nat /\ value[2] >= Len(body)
  <2> SUFFICES ASSUME value # <<>>, value[1] = "int"
               PROVE  value[2] \in Nat /\ value[2] >= Len(body)
    OBVIOUS
  <2>1. PICK lines : lines = head
    OBVIOUS
  <2>2. Len(lines) \in Nat /\ value = header_value(lines, "content-length")
    BY <1>1, <2>1, ServerAssumption, Zenon
  <2>3. PICK i \in 1 .. Len(lines) : StatesLength(lines, i) /\ value = lines[i][2]
    BY <2>2, LastLength
  <2>4. lines[i][2][2] \in Nat /\ lines[i][2][2] >= Len(body)
    BY <2>1, <2>3, ServerAssumption, Zenon
  <2> QED
    BY <2>3, <2>4, Zenon
<1>4. out \in Seq(Byte) /\ body \in Seq(Byte) /\ Len(out) <= Len(body)
  BY Zenon DEF Part
<1>5. Len(out) \in Nat /\ Len(body) \in Nat
  BY <1>4
<1>6. ASSUME value # <<>> PROVE out = body
  <2>1. Len(out) >= Len(body)
    BY <1>2, <1>3, <1>6, Zenon
  <2>2. Len(out) = Len(body)
    BY <1>4, <1>5, <2>1
  <2>3. PICK s, b : s = out /\ b = body
    OBVIOUS
  <2>4. Part(s, b) /\ Len(s) = Len(b)
    BY <2>2, <2>3, Zenon
  <2>5. s = b
    BY ONLY <2>4, AllOfIt
  <2> QED
    BY <2>3, <2>5
<1>7. ASSUME value = <<>> PROVE json_value(out) = json_value(body)
  <2>1. PICK s, b, n, p : s = out /\ b = body /\ n = Len(out) /\ p = 0
    OBVIOUS
  <2>2. /\ b \in Seq(Byte) /\ p \in Nat /\ s \in Seq(Byte) /\ n = Len(s)
        /\ p + n <= Len(b) /\ p + 1 = 1 /\ p + n = n /\ n \in 0 .. Len(b)
        /\ \A i \in 1 .. n : p + i = i
    BY <1>4, <1>5, <2>1
  <2>3. \A i \in 1 .. n : s[i] = b[i]
    BY <2>1, Zenon DEF Part
  <2>4. \A i \in 1 .. n : b[p + i] = s[i]
    BY <2>2, <2>3, Zenon
  <2>5. SubSeq(b, p + 1, p + n) = s
    BY ONLY <2>2, <2>4, PieceIs
  <2>6. SubSeq(b, 1, n) = s
    BY <2>2, <2>5, Zenon
  <2>7. is_json_text(SubSeq(b, 1, n))
    BY <2>1, <2>6, Zenon
  <2>8. is_json_text(b)
    BY <2>1, <2>2, <2>7, ServerAssumption, Zenon
  <2>9. Part(s, b) /\ is_json_text(s)
    BY <2>1, Zenon
  <2>10. json_value(s) = json_value(b)
    BY ONLY <2>8, <2>9, SameValue
  <2> QED
    BY <2>1, <2>10, Zenon
<1> QED
  BY <1>1, <1>6, <1>7, Zenon DEF Framed

\* The length and the JSON.
LEMMA CheckBodyInv == ASSUME HttpInv, CheckBody PROVE HttpInv'
<1>1. /\ phase = "checking" /\ body' = body /\ head' = head /\ taken' = taken
      /\ claimed' = claimed /\ wire' = wire /\ whole' = whole /\ out' = out
      /\ phase' = IF content_length_holds(head, out) /\ is_json_text(out)
                  THEN "ok" ELSE "error"
  BY Zenon DEF CheckBody, serverVars, clientVars
<1>2. /\ body \in Bodies /\ head \in HeadsFor(body) /\ taken \in Nat /\ wire \in Seq(Byte)
  BY Zenon DEF HttpInv
<1>3. is_chunked(head) => out = body /\ ~claimed
  BY <1>1, Zenon DEF HttpInv, ChunkedInv
<1>4. ~is_chunked(head) => ~claimed /\ Part(out, body) /\ (whole => Len(out) = Len(body))
  BY <1>1, Zenon DEF HttpInv, RawInv
<1>5. whole => out = body
  <2>1. PICK s, b : s = out /\ b = body
    OBVIOUS
  <2>2. Part(s, b) /\ Len(s) = Len(b) => s = b
    BY ONLY AllOfIt
  <2> QED
    BY <1>3, <1>4, <2>1, <2>2, Zenon
<1>6. CASE content_length_holds(head, out) /\ is_json_text(out)
  <2>1. phase' = "ok"
    BY <1>1, <1>6
  <2>2. IF Framed THEN out = body ELSE json_value(out) = json_value(body)
    <3>1. CASE is_chunked(head)
      BY <1>3, <3>1, Zenon DEF Framed
    <3>2. CASE ~is_chunked(head)
      BY <1>2, <1>4, <1>6, <3>2, RawIsRight, Zenon
    <3> QED
      BY <3>1, <3>2
  <2>3. BodyIsWhatWasSent'
    <3>1. Framed' <=> Framed
      BY <1>1 DEF Framed
    <3> QED
      BY <1>1, <1>3, <1>4, <2>1, <2>2, <3>1 DEF BodyIsWhatWasSent
  <2>4. HonestBodyIsTaken'
    BY <2>1 DEF HonestBodyIsTaken
  <2>5. is_chunked(head') => ChunkedInv'
    BY <2>1 DEF ChunkedInv
  <2>6. ~is_chunked(head') => RawInv'
    BY <1>1, <1>4, <2>1 DEF RawInv
  <2> QED
    BY <1>1, <1>2, <2>1, <2>3, <2>4, <2>5, <2>6 DEF HttpInv
<1>7. CASE ~(content_length_holds(head, out) /\ is_json_text(out))
  <2>1. phase' = "error"
    BY <1>1, <1>7
  <2>2. ~whole \/ ~HonestHead \/ ~is_json_text(body)
    BY <1>5, <1>7, WholeIsTaken, Zenon
  <2>3. Fail
    BY <1>1, <2>1, Zenon DEF Fail, CheckBody
  <2> QED
    BY <2>2, <2>3, Refused
<1> QED
  BY <1>6, <1>7

-----------------------------------------------------------------------------
\* Every step of the server, the connection and the client.
LEMMA NextHttp == HttpInv /\ [Next]_vars => HttpInv'
<1> SUFFICES ASSUME HttpInv, [Next]_vars PROVE HttpInv'
  OBVIOUS
<1>1. CASE SendRaw
  BY <1>1, SendRawInv
<1>2. CASE \E n \in 1 .. Len(body) : SendChunk(n) \/ SendOversize(n)
  BY <1>2, SendChunkInv, SendOversizeInv, Zenon
<1>3. CASE SendLast
  BY <1>3, SendLastInv
<1>4. CASE \E n \in 0 .. Len(wire) : Arrives(n)
  BY <1>4, ArrivesInv, Zenon
<1>5. CASE ArrivesWithoutHead
  BY <1>5, ArrivesWithoutHeadInv
<1>6. CASE HeadFails
  BY <1>6, HeadFailsInv
<1>7. CASE ParseHead
  BY <1>7, ParseHeadInv
<1>8. CASE SizeFails
  BY <1>8, SizeFailsInv
<1>9. CASE LastChunk
  BY <1>9, LastChunkInv
<1>10. CASE ChunkFails
  BY <1>10, ChunkFailsInv
<1>11. CASE ChunkPanics
  BY <1>11, ChunkPanicsInv
<1>12. CASE TakeChunk
  BY <1>12, TakeChunkInv
<1>13. CASE CheckBody
  BY <1>13, CheckBodyInv
<1>14. CASE UNCHANGED vars
  <2>1. /\ body' = body /\ head' = head /\ taken' = taken /\ claimed' = claimed
        /\ wire' = wire /\ whole' = whole /\ phase' = phase /\ pos' = pos /\ out' = out
    BY <1>14, Zenon DEF vars, serverVars, clientVars
  <2> QED
    BY <2>1 DEF HttpInv, ChunkedInv, RawInv, Sent, Arrived, Reached,
                BodyIsWhatWasSent, HonestBodyIsTaken, HonestHead, Framed
<1> QED
  BY <1>1, <1>2, <1>3, <1>4, <1>5, <1>6, <1>7, <1>8, <1>9, <1>10, <1>11, <1>12, <1>13,
     <1>14, Zenon DEF Next

\* What parse_http_response returns is what the server said, wherever the
\* connection ends and however the body is cut into chunks, for every width of a
\* usize; only a size that the response cannot hold panics the thread.
THEOREM ResponsesAreWhatWasSent == Spec => []BodyIsWhatWasSent
<1>1. HttpInv => BodyIsWhatWasSent
  BY Zenon DEF HttpInv
<1> QED
  BY <1>1, InitHttp, NextHttp, PTL DEF Spec

\* A JSON body that arrives whole from a server that frames it rightly is taken,
\* for every body and every way of cutting it.
THEOREM HonestResponsesAreTaken == Spec => []HonestBodyIsTaken
<1>1. HttpInv => HonestBodyIsTaken
  BY Zenon DEF HttpInv
<1> QED
  BY <1>1, InitHttp, NextHttp, PTL DEF Spec
================================================================================

------------------------------ MODULE HttpResponse -----------------------------
(***************************************************************************)
(* How a body travels from Coinbase to the prover: the server frames it    *)
(* (external: the chunked coding, Content-Length, or the end of the        *)
(* connection), the connection may end early, and parse_http_response with *)
(* decode_chunked (src/src/http.rs) takes it apart again.                  *)
(*                                                                         *)
(* Bytes are characters: "SP", "CR" and "LF", a semicolon "SEMI", the      *)
(* braces "OPEN" and "CLOSE", and others, all of them ASCII: that a size   *)
(* line is UTF-8 (from_utf8 in decode_chunked) is true of each.  `pos`     *)
(* counts from 0, as in the code, and the sum pos + size + 2 is a usize,   *)
(* which wraps.                                                            *)
(***************************************************************************)
EXTENDS Integers, Sequences

CONSTANTS
  Byte,         \* what may stand in a response
  USIZE_MAX,    \* 2^64 - 1 in the code
  MAX_HEADERS,  \* 64, the size of the array given to httparse
  Bodies,       \* what the server may have to say
  HeadsFor(_),  \* header lines <<name, value>> it may send with a body
  SizeLines(_), \* ways of writing a chunk's size
  Oversizes,    \* what claims more than is ever sent, or is no number
  MaxChunks,
  MaxWire       \* the length of the longest response

ASSUME HttpAssumption ==
  /\ USIZE_MAX \in Nat
  /\ MAX_HEADERS \in Nat
  /\ MaxChunks \in Nat
  /\ MaxWire \in Nat /\ MaxWire <= USIZE_MAX
  /\ {"0", "+", "SP", "SEMI", "CR", "LF"} \subseteq Byte
  /\ Bodies \subseteq Seq(Byte)
  /\ \A b \in Bodies : Len(b) <= MaxWire

VARIABLES
  body,     \* what the server has to say
  head,     \* the header lines
  taken,    \* how much of body is in the wire
  chunks,
  claimed,  \* a chunk claimed more than is sent
  wire,     \* what follows the head
  whole,    \* all of it arrived
  phase,    \* "sending", "ended"; then the client is "parsing", "decoding" or
            \* "checking", and done with "ok", "error" or "panic"
  pos,
  out       \* body_bytes

serverVars == <<body, head, taken, chunks, claimed>>
clientVars == <<pos, out>>
vars == <<serverVars, wire, whole, phase, clientVars>>

CRLF == <<"CR", "LF">>

-----------------------------------------------------------------------------
\* normalize_headers inserts in order, so the last of equal names stays;
\* <<>> when there is none.
header_value(lines, name) ==
  LET at == {i \in 1 .. Len(lines) : lines[i][1] = name}
  IN IF at = {} THEN <<>> ELSE lines[CHOOSE i \in at : \A j \in at : j <= i][2]

\* The value's text contains "chunked".
is_chunked(lines) == header_value(lines, "transfer-encoding") = <<"chunked">>

\* No Content-Length, or one that parses as a usize and is the body's length.
content_length_holds(lines, bytes) ==
  LET value == header_value(lines, "content-length")
  IN value # <<>> => value[1] = "int" /\ Len(bytes) = value[2]

Whitespace == {"CR", "LF", "SP"}

\* s without what it has of `drop` at both ends.
trim(s, drop) ==
  LET kept == {i \in 1 .. Len(s) : s[i] \notin drop}
  IN IF kept = {} THEN <<>>
     ELSE SubSeq(s, CHOOSE i \in kept : \A j \in kept : i <= j,
                    CHOOSE i \in kept : \A j \in kept : j <= i)

\* serde_json: one value with whitespace around it; of JSON only that a value
\* ends where its bracket closes.
json_value(bytes) == trim(bytes, Whitespace)
is_json_text(bytes) ==
  LET v == json_value(bytes)
  IN /\ Len(v) >= 2 /\ v[1] = "OPEN" /\ v[Len(v)] = "CLOSE"
     /\ \A i \in 2 .. Len(v) - 1 : v[i] \notin {"OPEN", "CLOSE"}

-----------------------------------------------------------------------------
Digits == <<"0", "1", "2", "3", "4", "5", "6", "7", "8", "9",
            "a", "b", "c", "d", "e", "f", "A", "B", "C", "D", "E", "F">>
IsDigit(ch) == \E d \in 1 .. 22 : Digits[d] = ch
DigitValue(ch) ==
  LET d == CHOOSE d \in 1 .. 22 : Digits[d] = ch
  IN IF d <= 16 THEN d - 1 ELSE d - 7

NoSize == -1

\* The number that hexadecimal digits stand for.
HexValue(digits) ==
  LET value[i \in 0 .. Len(digits)] ==
        IF i = 0 THEN 0 ELSE 16 * value[i - 1] + DigitValue(digits[i])
  IN value[Len(digits)]

\* Mutant: digits beyond a usize fall off the top.
from_str_radix_Wrapping(text) ==
  LET digits == IF text # <<>> /\ text[1] = "+" THEN Tail(text) ELSE text
  IN IF digits = <<>> \/ (\E i \in 1 .. Len(digits) : ~IsDigit(digits[i]))
     THEN NoSize
     ELSE HexValue(digits) % (USIZE_MAX + 1)

\* usize::from_str_radix(text, 16)
from_str_radix(text) ==
  LET digits == IF text # <<>> /\ text[1] = "+" THEN Tail(text) ELSE text
  IN IF \/ digits = <<>>
        \/ \E i \in 1 .. Len(digits) : ~IsDigit(digits[i])
        \/ HexValue(digits) > USIZE_MAX
     THEN NoSize
     ELSE HexValue(digits)

\* Mutant: an extension is taken for a part of the number.
size_hex_WithExtension(line) == trim(line, Whitespace)

\* What stands before the first semicolon, trimmed.
size_hex(line) ==
  LET stops == {i \in 1 .. Len(line) : line[i] = "SEMI"} \cup {Len(line) + 1}
      stop == CHOOSE i \in stops : \A j \in stops : i <= j
  IN trim(SubSeq(line, 1, stop - 1), Whitespace)

Crlfs(bytes, start) ==
  {i \in start .. Len(bytes) - 2 : SubSeq(bytes, i + 1, i + 2) = CRLF}

find_crlf(bytes, start) ==
  CHOOSE i \in Crlfs(bytes, start) : \A j \in Crlfs(bytes, start) : i <= j

usize(n) == n % (USIZE_MAX + 1)

\* What a size line reads as.
SizeOf(line) == from_str_radix(size_hex(line))

-----------------------------------------------------------------------------
\* A size line: digits, with a sign, spaces around and an extension behind them.
SizeText(sp) == sp.sign \o sp.digits
SizeLine(sp) == sp.before \o SizeText(sp) \o sp.after \o sp.extension

IsSpelling(sp) ==
  /\ sp.before \in Seq({"SP"}) /\ sp.after \in Seq({"SP"})
  /\ sp.sign \in {<<>>, <<"+">>}
  /\ sp.digits \in Seq(Byte \ (Whitespace \cup {"SEMI", "+"}))
  /\ sp.extension \in Seq(Byte \ {"CR"})
  /\ sp.extension # <<>> => sp.extension[1] = "SEMI"
IsNumber(digits) == digits # <<>> /\ \A i \in 1 .. Len(digits) : IsDigit(digits[i])

\* lines[i] is the last Content-Length, and a number.
StatesLength(lines, i) ==
  /\ lines[i][1] = "content-length" /\ lines[i][2][1] = "int"
  /\ \A j \in 1 .. Len(lines) : lines[j][1] = "content-length" => j <= i

\* The server knows HTTP: it writes sizes in hexadecimal, an oversized one is more
\* than is ever sent, a Content-Length leaves nothing of the body out, and a body
\* is not a JSON value with something else behind it.
ASSUME ServerAssumption ==
  /\ \A b \in Bodies : \A n \in 1 .. Len(b) : \A sp \in SizeLines(n) :
       IsSpelling(sp) /\ IsNumber(sp.digits) /\ HexValue(sp.digits) = n
  /\ \A sp \in Oversizes :
       /\ IsSpelling(sp)
       /\ IsNumber(sp.digits) =>
            HexValue(sp.digits) \in Nat /\ HexValue(sp.digits) > MaxWire
  /\ \A b \in Bodies : \A lines \in HeadsFor(b) :
       /\ Len(lines) \in Nat
       /\ \A i \in 1 .. Len(lines) :
            StatesLength(lines, i) => lines[i][2][2] \in Nat /\ lines[i][2][2] >= Len(b)
  /\ \A b \in Bodies : \A n \in 0 .. Len(b) :
       is_json_text(SubSeq(b, 1, n)) => is_json_text(b)

-----------------------------------------------------------------------------
Init ==
  /\ body \in Bodies
  /\ head \in HeadsFor(body)
  /\ taken = 0 /\ chunks = 0 /\ claimed = FALSE
  /\ wire = <<>> /\ whole = FALSE
  /\ phase = "sending"
  /\ pos = 0 /\ out = <<>>

\* The server's side.  It frames the body as its headers say.
SendRaw ==
  /\ phase = "sending" /\ ~is_chunked(head)
  /\ wire' = body
  /\ taken' = Len(body)
  /\ phase' = "ended"
  /\ UNCHANGED <<body, head, chunks, claimed, whole, clientVars>>

PutChunk(n, line) ==
  /\ phase = "sending" /\ is_chunked(head)
  /\ chunks < MaxChunks
  /\ n \in 1 .. Len(body) - taken
  /\ wire' = wire \o line \o CRLF \o SubSeq(body, taken + 1, taken + n) \o CRLF
  /\ Len(wire') <= MaxWire
  /\ taken' = taken + n
  /\ chunks' = chunks + 1
  /\ UNCHANGED <<body, head, whole, phase, clientVars>>

SendChunk(n) ==
  \E sp \in SizeLines(n) : PutChunk(n, SizeLine(sp)) /\ UNCHANGED claimed

SendOversize(n) ==
  \E sp \in Oversizes : PutChunk(n, SizeLine(sp)) /\ claimed' = TRUE

SendLast ==
  /\ phase = "sending" /\ is_chunked(head)
  /\ taken = Len(body)
  /\ wire' = wire \o <<"0">> \o CRLF \o CRLF
  /\ Len(wire') <= MaxWire
  /\ phase' = "ended"
  /\ UNCHANGED <<serverVars, whole, clientVars>>

\* The connection ends with n bytes delivered after the head, or inside it.
Arrives(n) ==
  /\ phase = "ended"
  /\ wire' = SubSeq(wire, 1, n)
  /\ whole' = (n = Len(wire))
  /\ phase' = "parsing"
  /\ UNCHANGED <<serverVars, clientVars>>

ArrivesWithoutHead ==
  /\ phase = "ended"
  /\ wire' = <<>> /\ whole' = FALSE
  /\ phase' = "error"
  /\ UNCHANGED <<serverVars, clientVars>>

-----------------------------------------------------------------------------
Fail ==
  /\ phase' = "error"
  /\ UNCHANGED <<serverVars, wire, whole, clientVars>>

\* httparse has no room for more headers, or there is a line it cannot read.
HeadFails ==
  /\ phase = "parsing"
  /\ \/ Len(head) > MAX_HEADERS
     \/ \E i \in 1 .. Len(head) : head[i] = <<"garbage">>
  /\ Fail

ParseHead ==
  /\ phase = "parsing"
  /\ Len(head) <= MAX_HEADERS
  /\ \A i \in 1 .. Len(head) : head[i] # <<"garbage">>
  /\ IF is_chunked(head)
     THEN phase' = "decoding" /\ UNCHANGED out
     ELSE phase' = "checking" /\ out' = wire
  /\ UNCHANGED <<serverVars, wire, whole, pos>>

line_end == find_crlf(wire, pos)
size == IF Crlfs(wire, pos) = {} THEN NoSize
        ELSE SizeOf(SubSeq(wire, pos + 1, line_end))
next == line_end + 2
TooLong == Len(wire) < usize(next + size + 2)
Closed == SubSeq(wire, next + size + 1, next + size + 2) = CRLF

SizeFails ==
  /\ phase = "decoding" /\ size = NoSize
  /\ Fail

LastChunk ==
  /\ phase = "decoding" /\ size = 0
  /\ phase' = "checking"
  /\ pos' = next
  /\ UNCHANGED <<serverVars, wire, whole, out>>

ChunkFails ==
  /\ phase = "decoding" /\ size > 0
  /\ \/ TooLong
     \/ next + size + 2 <= USIZE_MAX /\ ~TooLong /\ ~Closed
  /\ Fail

\* The sum has wrapped and passed the check.  The slice [pos .. pos + size] then
\* ends before it starts, or past the end of the response.
ChunkPanics ==
  /\ phase = "decoding" /\ size > 0
  /\ ~TooLong
  /\ next + size + 2 > USIZE_MAX
  /\ phase' = "panic"
  /\ UNCHANGED <<serverVars, wire, whole, clientVars>>

TakeChunk ==
  /\ phase = "decoding" /\ size > 0
  /\ next + size + 2 <= USIZE_MAX /\ ~TooLong /\ Closed
  /\ out' = out \o SubSeq(wire, next + 1, next + size)
  /\ pos' = next + size + 2
  /\ UNCHANGED <<serverVars, wire, whole, phase>>

CheckBody ==
  /\ phase = "checking"
  /\ phase' = IF content_length_holds(head, out) /\ is_json_text(out)
              THEN "ok" ELSE "error"
  /\ UNCHANGED <<serverVars, wire, whole, clientVars>>

-----------------------------------------------------------------------------
Next ==
  \/ SendRaw
  \/ \E n \in 1 .. Len(body) : SendChunk(n) \/ SendOversize(n)
  \/ SendLast
  \/ \E n \in 0 .. Len(wire) : Arrives(n)
  \/ ArrivesWithoutHead
  \/ HeadFails \/ ParseHead
  \/ SizeFails \/ LastChunk \/ ChunkFails \/ ChunkPanics \/ TakeChunk
  \/ CheckBody

Spec == Init /\ [][Next]_vars

-----------------------------------------------------------------------------
\* The body's length is stated by its framing.
Framed == is_chunked(head) \/ header_value(head, "content-length") # <<>>

\* What parse_http_response returns is what the server said, byte for byte
\* where the framing states a length and as a JSON value where the end of the
\* connection ends the body, wherever the connection broke and however the
\* server cut the body up.  A chunk size larger than the response never gives
\* a body, not even when pos + size + 2 wraps; it alone can panic the thread.
BodyIsWhatWasSent ==
  /\ phase = "ok" =>
       /\ ~claimed
       /\ IF Framed THEN out = body ELSE json_value(out) = json_value(body)
  /\ phase = "panic" => claimed

\* The headers tell the truth and fit httparse's array.
HonestHead ==
  /\ Len(head) <= MAX_HEADERS
  /\ \A i \in 1 .. Len(head) : head[i] # <<"garbage">>
  /\ header_value(head, "content-length") \in {<<>>, <<"int", Len(body)>>}

\* Conversely, a JSON body that arrives whole from a server that frames it
\* rightly is never refused: not for an extension, padding or a sign in a size
\* line, nor for a CRLF or a "0" line inside the body.
HonestBodyIsTaken ==
  phase \in {"error", "panic"} =>
    ~whole \/ claimed \/ ~HonestHead \/ ~is_json_text(body)
================================================================================

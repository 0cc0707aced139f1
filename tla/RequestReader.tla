----------------------------- MODULE RequestReader -----------------------------
(***************************************************************************)
(* read_http_request of src/src/bin/enclave-prover.rs: one thread reads a  *)
(* client's request, in pieces that TCP chose, until it has seen the end   *)
(* of the headers, the end of the stream, or too much.                     *)
(*                                                                         *)
(* Bytes are characters, "SP" being a space; "HTTP/" is shortened to       *)
(* <<"H", "/">>.  The byte "?" is one that is never UTF-8; "C3" and "A9"   *)
(* are the two bytes of a character, neither of them UTF-8 by itself.      *)
(***************************************************************************)
EXTENDS Integers, Sequences, FiniteSets

CONSTANTS
  Byte,               \* what may stand in a request
  BUF,                \* 1024, the length of buf
  MAX_REQUEST_BYTES,  \* 16 * 1024
  Requests            \* [method, target, version, rest] a client may send

ASSUME ReaderAssumption ==
  /\ BUF \in Nat \ {0}
  /\ MAX_REQUEST_BYTES \in Nat
  /\ "SP" \in Byte /\ "CR" \in Byte /\ "LF" \in Byte
  /\ \A r \in Requests : /\ r.method \in Seq(Byte) /\ r.target \in Seq(Byte)
                         /\ r.version \in Seq(Byte) /\ r.rest \in Seq(Byte)

VARIABLES
  asked,   \* the client's request
  stream,  \* its bytes
  bytes,   \* what the thread has read
  ended,   \* how the stream ended for the thread: "no", "closed" or "reset"
  phase,   \* "reading", "parsing", "parsed" or "error"
  request  \* the HttpRequest returned

vars == <<asked, stream, bytes, ended, phase, request>>

CRLF == <<"CR", "LF">>

\* How a client writes its request.
Written(r) ==
  r.method \o <<"SP">> \o r.target \o <<"SP">> \o r.version \o CRLF \o r.rest

-----------------------------------------------------------------------------
\* windows(4).any(|window| window == b"\r\n\r\n")
has_header_end(s) == \E i \in 1 .. Len(s) - 3 : SubSeq(s, i, i + 3) = CRLF \o CRLF

\* str::from_utf8 succeeds: a beginning of a UTF-8 text need not be one.
is_utf8(s) ==
  \A i \in 1 .. Len(s) :
    /\ s[i] # "?"
    /\ s[i] = "C3" => i < Len(s) /\ s[i + 1] = "A9"
    /\ s[i] = "A9" => i > 1 /\ s[i - 1] = "C3"

\* text.lines().next()
first_line(s) ==
  LET stops == {i \in 1 .. Len(s) : s[i] = "LF"} \cup {Len(s) + 1}
      stop == CHOOSE i \in stops : \A j \in stops : i <= j
      last == IF stop <= Len(s) /\ stop > 1 /\ s[stop - 1] = "CR" THEN stop - 2 ELSE stop - 1
  IN SubSeq(s, 1, last)

\* split_whitespace: words start after whitespace and run up to the next.
IsSpace(ch) == ch \in {"SP", "CR", "LF"}
WordStarts(s) ==
  {i \in 1 .. Len(s) : ~IsSpace(s[i]) /\ (i = 1 \/ IsSpace(s[i - 1]))}
word(s, k) ==
  LET start == CHOOSE i \in WordStarts(s) : Cardinality({j \in WordStarts(s) : j <= i}) = k
      stops == {j \in start .. Len(s) : IsSpace(s[j])} \cup {Len(s) + 1}
  IN SubSeq(s, start, (CHOOSE i \in stops : \A j \in stops : i <= j) - 1)

\* Mutant: a request line without a version is HTTP/0.9.
parses_AnyVersion(s) ==
  /\ is_utf8(s)
  /\ Cardinality(WordStarts(first_line(s))) >= 2

\* Method, target and version are there, and the version is HTTP/ something.
parses(s) ==
  /\ is_utf8(s)
  /\ Cardinality(WordStarts(first_line(s))) >= 3
  /\ LET version == word(first_line(s), 3)
     IN Len(version) >= 2 /\ SubSeq(version, 1, 2) = <<"H", "/">>

-----------------------------------------------------------------------------
NoRequest == [method |-> <<>>, target |-> <<>>]

Init ==
  /\ asked \in Requests
  /\ stream = Written(asked)
  /\ bytes = <<>>
  /\ ended = "no"
  /\ phase = "reading"
  /\ request = NoRequest

\* Mutant: the size is looked at first.
PhaseAfter_LimitFirst(s) ==
  IF Len(s) > MAX_REQUEST_BYTES THEN "error"
  ELSE IF has_header_end(s) THEN "parsing"
  ELSE "reading"

\* Mutant: no limit.
PhaseAfter_NoLimit(s) == IF has_header_end(s) THEN "parsing" ELSE "reading"

\* The loop's two checks after a read.
PhaseAfter(s) ==
  IF has_header_end(s) THEN "parsing"
  ELSE IF Len(s) > MAX_REQUEST_BYTES THEN "error"
  ELSE "reading"

Read(n) ==
  /\ phase = "reading"
  /\ n \in 1 .. BUF /\ Len(bytes) + n <= Len(stream)
  /\ bytes' = bytes \o SubSeq(stream, Len(bytes) + 1, Len(bytes) + n)
  /\ phase' = PhaseAfter(bytes')
  /\ UNCHANGED <<asked, stream, ended, request>>

\* read() returns 0: the client has closed its side, early perhaps.
EndOfStream ==
  /\ phase = "reading"
  /\ ended' = "closed"
  /\ phase' = "parsing"
  /\ UNCHANGED <<asked, stream, bytes, request>>

ReadError ==
  /\ phase = "reading"
  /\ ended' = "reset"
  /\ phase' = "error"
  /\ UNCHANGED <<asked, stream, bytes, request>>

Parse ==
  /\ phase = "parsing"
  /\ IF parses(bytes)
     THEN /\ phase' = "parsed"
          /\ request' = [method |-> word(first_line(bytes), 1),
                         target |-> word(first_line(bytes), 2)]
     ELSE phase' = "error" /\ UNCHANGED request
  /\ UNCHANGED <<asked, stream, bytes, ended>>

Next == (\E n \in 1 .. BUF : Read(n)) \/ EndOfStream \/ ReadError \/ Parse

Spec == Init /\ [][Next]_vars

-----------------------------------------------------------------------------
\* A request line as HTTP writes it: three words.
IsRequestLine(r) ==
  /\ \A part \in {r.method, r.target, r.version} :
       part # <<>> /\ \A i \in 1 .. Len(part) : ~IsSpace(part[i])
  /\ Len(r.version) >= 2 /\ SubSeq(r.version, 1, 2) = <<"H", "/">>

\* However TCP cut the request up, and wherever the client stopped, the thread
\* acts on the method and the target the client wrote, or on nothing.  A target
\* cut short is not a shorter target: the version behind it would be missing.
ActsOnWhatWasAsked ==
  phase = "parsed" /\ IsRequestLine(asked) =>
    request = [method |-> asked.method, target |-> asked.target]

\* s ends between the two bytes of a character.
EndsInCharacter(s) == Len(s) > 0 /\ s[Len(s)] = "C3"

\* A proper UTF-8 request whose headers end within the limit is taken whichever
\* way it arrives, also when bytes after the headers come with the last read,
\* with one exception: from_utf8 looks at all that was read, so that a read
\* which brings the end of the headers and then a part of a character makes
\* read_http_request refuse the request.
ShortRequestIsTaken ==
  phase = "error" =>
    \/ ended # "no"
    \/ ~IsRequestLine(asked)
    \/ ~is_utf8(stream)
    \/ has_header_end(bytes) /\ EndsInCharacter(bytes)
    \/ \A i \in 1 .. Len(stream) - 3 :
         i + 3 <= MAX_REQUEST_BYTES => SubSeq(stream, i, i + 3) # CRLF \o CRLF

\* The thread never holds more than the limit and one buffer: the limit is
\* looked at once per read, after the bytes were appended.
BufferIsBounded == Len(bytes) <= MAX_REQUEST_BYTES + BUF
================================================================================

----------------------------- MODULE MCHttpResponse ----------------------------
(***************************************************************************)
(* HttpResponse for TLC.  A usize has 8 bits, so two hexadecimal digits    *)
(* reach its end; responses are shorter than half of it.                   *)
(***************************************************************************)
EXTENDS HttpResponse

MC_Byte ==
  {"CR", "LF", "SP", "OPEN", "CLOSE", "x", "SEMI", "+"} \cup {Digits[i] : i \in 1 .. 22}

\* The longer body holds what looks like the last chunk, and ends in a newline.
MC_Bodies ==
  {<<"OPEN", "CLOSE">>,
   <<"OPEN", "0", "CR", "LF", "CLOSE", "LF">>,
   <<"OPEN", "x">>}

Chunked == <<"transfer-encoding", <<"chunked">>>>
Length(n) == <<"content-length", <<"int", n>>>>

MC_HeadsFor(b) ==
  {<<>>,
   <<Chunked>>,
   <<Length(Len(b))>>,
   <<Chunked, Length(Len(b))>>,
   <<Length(0), Length(Len(b))>>,
   <<Length(Len(b)), Length(Len(b) + 1)>>,
   <<Chunked, <<"transfer-encoding", <<"identity">>>>>>,
   <<<<"content-length", <<"text">>>>>>,
   <<<<"garbage">>>>,
   <<Chunked, Chunked, Chunked>>}

Plain(digits) ==
  [before |-> <<>>, sign |-> <<>>, digits |-> digits, after |-> <<>>, extension |-> <<>>]

MC_SizeLines(n) ==
  LET plain == Plain(<<Digits[n + 1]>>)
  IN {plain,
      [plain EXCEPT !.sign = <<"+">>, !.digits = <<"0">> \o @],
      [plain EXCEPT !.before = <<"SP">>, !.after = <<"SP">>,
                    !.extension = <<"SEMI", "x", "SEMI">>]}

\* Larger than the response; the largest that does not wrap and the first that
\* does, in the first chunk and in a second one; not a usize; no number.
MC_Oversizes ==
  {Plain(digits) : digits \in
     {<<"4", "0">>, <<"f", "9">>, <<"f", "A">>, <<"E", "f">>, <<"F", "F">>,
      <<"1", "0", "2">>, <<"x">>, <<>>}}
================================================================================

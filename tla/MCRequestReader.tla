---------------------------- MODULE MCRequestReader ----------------------------
(***************************************************************************)
(* RequestReader for TLC: requests of 7 to 23 bytes around a limit of 14.  *)
(***************************************************************************)
EXTENDS RequestReader

\* The shortest proper request line has 9 bytes with its CRLF; the headers then
\* end at the limit, one before it or after it, with and without bytes to follow.
\* A character of two bytes stands in the target, in a header or behind the
\* headers, where a read may stop inside it.
MC_Requests ==
  [method : {<<"G">>, <<>>},
   target : {<<"/">>, <<"/", "a">>, <<"/", "SP", "a">>, <<"/", "C3", "A9">>},
   version : {<<"H", "/", "1">>, <<"x", "/">>},
   rest : {<<>>, CRLF, CRLF \o <<"b", "b">>, CRLF \o <<"?">>,
           <<"h">> \o CRLF \o CRLF, <<"h">> \o CRLF \o CRLF \o <<"b", "b">>,
           <<"h", "h">> \o CRLF \o CRLF,
           <<"h", "h", "h", "h">> \o CRLF \o CRLF \o <<"b">>,
           <<"h", "?">> \o CRLF \o CRLF, <<"C3", "A9">> \o CRLF \o CRLF,
           CRLF \o <<"C3", "A9">>, CRLF \o <<"b", "C3", "A9", "b">>, CRLF \o <<"A9">>,
           [i \in 1 .. 12 |-> "h"]}]
================================================================================

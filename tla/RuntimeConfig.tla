----------------------------- MODULE RuntimeConfig -----------------------------
(***************************************************************************)
(* How the enclave learns its public name: choracle-runtime-config (src/   *)
(* src/bin/choracle-runtime-config.rs) runs on the parent as serve-fqdn,   *)
(* kept alive by systemd, and inside the enclave as fetch-fqdn, called by  *)
(* deploy/enclave-entrypoint.sh.  Between them is a vsock connection.      *)
(*                                                                         *)
(* Text is a sequence of characters, of which only the kinds matter: "x"   *)
(* for a letter or digit, "-", ".", "LF", and "?" for every other one.     *)
(*                                                                         *)
(* At most one connection is live, that of the enclave that runs; the ones *)
(* that a terminated enclave left behind are gone, but still queued.       *)
(***************************************************************************)
EXTENDS Integers, Sequences

CONSTANTS
  Names,            \* what PROOF_FQDN may be set to on the parent
  MAX_FQDN_BYTES,   \* 253 in the code
  MaxLabelBytes,    \* 63 in the code
  Retries,          \* --retries
  Backlog,          \* 16, the argument of listen()
  MaxDeaths,        \* how often the server dies of itself or is killed
  MaxTerminations   \* how often the enclave is terminated from outside

ASSUME RuntimeConfigAssumption ==
  /\ \A name \in Names : name \in Seq({"x", "-", ".", "LF", "?"})
  /\ MAX_FQDN_BYTES \in Nat /\ MaxLabelBytes \in Nat
  /\ Retries \in Nat /\ Backlog \in Nat
  /\ MaxDeaths \in Nat /\ MaxTerminations \in Nat

VARIABLES
  fqdn,          \* PROOF_FQDN on the parent; never changes
  server,        \* "down", "accepting" or "writing"
  queue,         \* connections not accepted yet, "live" or "gone"
  peer,          \* the accepted one: "none", "live" or "gone"
  left,          \* the buffers still to be written to it
  deaths,
  enclave,       \* "down", "connecting", "reading", "sleeping" or "started"
  tries,         \* failed calls of fetch_fqdn_once
  link,          \* the live connection: "none", "open", "closed" or "reset"
  wire,          \* what was written to it
  proof_fqdn,    \* what fetch-fqdn printed
  terminations

serverVars == <<server, queue, peer, left>>
fetchVars == <<enclave, tries, link, wire, proof_fqdn>>
configVars == <<fqdn, serverVars, deaths, fetchVars, terminations>>

NoName == <<>>

-----------------------------------------------------------------------------
\* Labels are what lies between two neighbouring dots, or a dot and an end.
LabelBounds(value) == {0, Len(value) + 1} \cup {i \in 1 .. Len(value) : value[i] = "."}

\* A URL, a path or a port holds a "?"; so does whitespace or non-ASCII text.
validate_fqdn(value) ==
  /\ value # <<>>
  /\ Len(value) <= MAX_FQDN_BYTES
  /\ \A i \in 1 .. Len(value) : value[i] \in {"x", "-", "."}
  /\ value[Len(value)] # "."
  /\ \E i \in 1 .. Len(value) : value[i] = "."
  /\ \A i, j \in LabelBounds(value) :
       (i < j /\ \A k \in LabelBounds(value) : ~(i < k /\ k < j)) =>
         /\ j - i > 1
         /\ j - i - 1 <= MaxLabelBytes
         /\ value[i + 1] # "-" /\ value[j - 1] # "-"

\* trim_end_matches(['\r', '\n'])
trimmed(bytes) ==
  LET kept == {n \in 1 .. Len(bytes) : bytes[n] # "LF"}
  IN IF kept = {} THEN <<>>
     ELSE SubSeq(bytes, 1, CHOOSE n \in kept : \A m \in kept : m <= n)

\* Mutant: no room for the newline.
fetch_fqdn_once_NoNewline(bytes, end) ==
  /\ end = "closed"
  /\ Len(bytes) <= MAX_FQDN_BYTES
  /\ validate_fqdn(trimmed(bytes))

\* Mutant: the client trusts what the server validated.
fetch_fqdn_once_Trusts(bytes, end) ==
  /\ end = "closed"
  /\ Len(bytes) <= MAX_FQDN_BYTES + 1

\* TRUE when the call returns Ok(trimmed(bytes)), having read bytes up to the
\* end of the connection; a reset is an error of read_to_end.
fetch_fqdn_once(bytes, end) ==
  /\ end = "closed"
  /\ Len(bytes) <= MAX_FQDN_BYTES + 1
  /\ validate_fqdn(trimmed(bytes))

attempts == IF Retries > 1 THEN Retries ELSE 1

-----------------------------------------------------------------------------
ConfigInit ==
  /\ fqdn \in Names
  /\ server = "down" /\ queue = <<>> /\ peer = "none" /\ left = <<>>
  /\ deaths = 0
  /\ enclave = "down" /\ tries = 0 /\ link = "none" /\ wire = <<>>
  /\ proof_fqdn = NoName
  /\ terminations = 0

\* systemd starts serve-fqdn, again whenever it has ended (Restart=always);
\* with a name that is not valid it ends before it binds.
StartServer ==
  /\ server = "down"
  /\ validate_fqdn(fqdn)
  /\ server' = "accepting"
  /\ UNCHANGED <<fqdn, queue, peer, left, deaths, fetchVars, terminations>>

AcceptClient ==
  /\ server = "accepting" /\ queue # <<>>
  /\ server' = "writing"
  /\ peer' = Head(queue)
  /\ queue' = Tail(queue)
  /\ left' = <<fqdn, <<"LF">>>>
  /\ UNCHANGED <<fqdn, deaths, fetchVars, terminations>>

\* One write(2) of write_all, which may take less than it was given.  What is
\* written to a connection that is gone is lost.
WriteBytes(n) ==
  /\ server = "writing" /\ left # <<>>
  /\ n \in 1 .. Len(left[1])
  /\ left' = IF n = Len(left[1])
             THEN Tail(left)
             ELSE <<SubSeq(left[1], n + 1, Len(left[1]))>> \o Tail(left)
  /\ wire' = IF peer = "live" THEN wire \o SubSeq(left[1], 1, n) ELSE wire
  /\ UNCHANGED <<fqdn, server, queue, peer, deaths, enclave, tries, link,
                 proof_fqdn, terminations>>

\* The stream goes out of scope and is closed.
DropClient ==
  /\ server = "writing" /\ left = <<>>
  /\ server' = "accepting"
  /\ peer' = "none"
  /\ link' = IF peer = "live" THEN "closed" ELSE link
  /\ UNCHANGED <<fqdn, queue, left, deaths, enclave, tries, wire, proof_fqdn,
                 terminations>>

\* The process ends, and the kernel closes or resets what it had open.
ServerExits ==
  /\ server' = "down"
  /\ queue' = <<>> /\ peer' = "none" /\ left' = <<>>
  /\ link' \in IF link = "open" THEN {"closed", "reset"} ELSE {link}
  /\ UNCHANGED <<fqdn, enclave, tries, wire, proof_fqdn, terminations>>

\* serve_fqdn returns the error of a write to a client that is gone.
WriteFails ==
  /\ server = "writing" /\ left # <<>> /\ peer = "gone"
  /\ ServerExits
  /\ UNCHANGED deaths

\* accept() fails, or the process is killed.
ServerDies ==
  /\ server # "down"
  /\ deaths < MaxDeaths
  /\ deaths' = deaths + 1
  /\ ServerExits

-----------------------------------------------------------------------------
\* choracle-run-enclave.sh, kept alive by systemd, runs the entrypoint.
StartEnclave ==
  /\ enclave = "down"
  /\ enclave' = "connecting"
  /\ tries' = 0
  /\ UNCHANGED <<fqdn, serverVars, deaths, link, wire, proof_fqdn, terminations>>

Connect ==
  /\ enclave = "connecting"
  /\ server # "down" /\ Len(queue) < Backlog
  /\ enclave' = "reading"
  /\ queue' = Append(queue, "live")
  /\ link' = "open"
  /\ wire' = <<>>
  /\ UNCHANGED <<fqdn, server, peer, left, deaths, tries, proof_fqdn, terminations>>

\* fetch_fqdn_with_retry sleeps after every failed attempt, the last included.
ConnectFails ==
  /\ enclave = "connecting"
  /\ server = "down" \/ Len(queue) >= Backlog
  /\ enclave' = "sleeping"
  /\ tries' = tries + 1
  /\ UNCHANGED <<fqdn, serverVars, deaths, link, wire, proof_fqdn, terminations>>

\* read_to_end has come to the end of the connection.
FetchReturns ==
  /\ enclave = "reading" /\ link # "open"
  /\ IF fetch_fqdn_once(wire, link)
     THEN /\ proof_fqdn' = trimmed(wire)
          /\ enclave' = "started"
          /\ UNCHANGED tries
     ELSE /\ tries' = tries + 1
          /\ enclave' = "sleeping"
          /\ UNCHANGED proof_fqdn
  /\ link' = "none"
  /\ wire' = <<>>
  /\ UNCHANGED <<fqdn, serverVars, deaths, terminations>>

\* Mutant: one attempt too many.
WakeUp_OneMore ==
  /\ enclave = "sleeping"
  /\ enclave' = IF tries <= attempts THEN "connecting" ELSE "down"
  /\ UNCHANGED <<fqdn, serverVars, deaths, tries, link, wire, proof_fqdn,
                 terminations>>

\* With the last attempt gone fetch-fqdn fails, the entrypoint ends (set -e),
\* and with it the enclave.
WakeUp ==
  /\ enclave = "sleeping"
  /\ enclave' = IF tries < attempts THEN "connecting" ELSE "down"
  /\ UNCHANGED <<fqdn, serverVars, deaths, tries, link, wire, proof_fqdn,
                 terminations>>

\* The enclave is terminated; the parent's kernel keeps its connections until
\* the server has looked at them.
TerminateEnclave ==
  /\ enclave # "down"
  /\ terminations < MaxTerminations
  /\ terminations' = terminations + 1
  /\ enclave' = "down"
  /\ queue' = [i \in 1 .. Len(queue) |-> "gone"]
  /\ peer' = IF peer = "live" THEN "gone" ELSE peer
  /\ link' = "none"
  /\ wire' = <<>>
  /\ proof_fqdn' = NoName
  /\ UNCHANGED <<fqdn, server, left, deaths, tries>>

-----------------------------------------------------------------------------
ServerStep ==
  \/ StartServer
  \/ AcceptClient
  \/ \E n \in 1 .. MAX_FQDN_BYTES : WriteBytes(n)
  \/ DropClient

FetchStep ==
  \/ StartEnclave
  \/ Connect \/ ConnectFails
  \/ FetchReturns
  \/ WakeUp

ConfigNext ==
  \/ ServerStep \/ WriteFails \/ ServerDies
  \/ FetchStep
================================================================================

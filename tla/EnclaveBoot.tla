------------------------------ MODULE EnclaveBoot ------------------------------
(***************************************************************************)
(* From the start of the enclave to a public proof service: the entrypoint *)
(* fetches the name (RuntimeConfig), then becomes nitriding, which runs    *)
(* enclave-prover and, told to -wait-for-app, stays closed to the public   *)
(* until the prover has called /enclave/ready: run_http_server,            *)
(* signal_nitriding_ready and send_local_http of enclave-prover.rs.        *)
(*                                                                         *)
(* nitriding is external: its internal server answers the first ready call *)
(* with 200, and a repeated one with a status of RepeatStatuses.           *)
(***************************************************************************)
EXTENDS RuntimeConfig

CONSTANTS
  NITRIDING_READY_RETRIES,  \* 60 in the code
  RepeatStatuses,
  MaxLosses                 \* refused or broken ready calls, per enclave

ASSUME BootAssumption ==
  /\ NITRIDING_READY_RETRIES \in Nat \ {0}
  /\ RepeatStatuses \subseteq Nat
  /\ MaxLosses \in Nat

VARIABLES
  nitriding,  \* "off", "waiting" for the app, or "public"
  prover,     \* "off", "starting", "signalling", "calling", "sleeping",
              \* "serving", "unbound" or "gave_up"
  attempt,    \* of signal_nitriding_ready
  call,       \* "none", "sent", "broken", or the status that was answered
  losses

bootVars == <<nitriding, prover, attempt, call, losses>>
allVars == <<configVars, bootVars>>

BootInit ==
  /\ nitriding = "off" /\ prover = "off"
  /\ attempt = 0 /\ call = <<"none">> /\ losses = 0

\* exec nitriding: its internal web server and the -appcmd process come up, in
\* either order.
StartNitriding ==
  /\ enclave = "started" /\ nitriding = "off"
  /\ nitriding' = "waiting"
  /\ UNCHANGED <<configVars, prover, attempt, call, losses>>

StartApp ==
  /\ enclave = "started" /\ prover = "off"
  /\ prover' = "starting"
  /\ UNCHANGED <<configVars, nitriding, attempt, call, losses>>

Bind ==
  /\ prover = "starting"
  /\ prover' = "signalling"
  /\ attempt' = 1
  /\ UNCHANGED <<configVars, nitriding, call, losses>>

BindFails ==
  /\ prover = "starting"
  /\ prover' = "unbound"
  /\ UNCHANGED <<configVars, nitriding, attempt, call, losses>>

\* Mutant: the last attempt is left out.
CallFails_OneLess ==
  /\ prover' = IF attempt + 1 < NITRIDING_READY_RETRIES THEN "sleeping" ELSE "gave_up"
  /\ call' = <<"none">>

\* Err of send_local_http, the attempts being 1 ..= NITRIDING_READY_RETRIES;
\* with the last one gone main returns and the listener is closed.
CallFails ==
  /\ prover' = IF attempt < NITRIDING_READY_RETRIES THEN "sleeping" ELSE "gave_up"
  /\ call' = <<"none">>

\* Mutant: no connection means that there is no nitriding to wait for.
ConnectRefused_Serves ==
  /\ prover = "signalling"
  /\ nitriding = "off"
  /\ losses < MaxLosses
  /\ losses' = losses + 1
  /\ prover' = "serving"
  /\ UNCHANGED <<configVars, nitriding, attempt, call>>

\* The internal server is not up yet; MaxLosses also bounds how late it may be.
ConnectRefused ==
  /\ prover = "signalling"
  /\ nitriding = "off"
  /\ losses < MaxLosses
  /\ losses' = losses + 1
  /\ CallFails
  /\ UNCHANGED <<configVars, nitriding, attempt>>

SendReady ==
  /\ prover = "signalling"
  /\ nitriding # "off"
  /\ prover' = "calling"
  /\ call' = <<"sent">>
  /\ UNCHANGED <<configVars, nitriding, attempt, losses>>

NitridingAnswers ==
  /\ prover = "calling" /\ call = <<"sent">>
  /\ nitriding' = "public"
  /\ \E status \in IF nitriding = "public" THEN RepeatStatuses ELSE {200} :
       call' = <<"status", status>>
  /\ UNCHANGED <<configVars, prover, attempt, losses>>

\* The connection is lost, before or after nitriding acted on the call, or
\* carries something that is no status line.
CallBreaks ==
  /\ prover = "calling" /\ call # <<"broken">>
  /\ losses < MaxLosses
  /\ losses' = losses + 1
  /\ call' = <<"broken">>
  /\ UNCHANGED <<configVars, nitriding, prover, attempt>>

\* send_local_http reads to the end of the response, without a timeout.
CallReturns ==
  /\ prover = "calling" /\ call # <<"sent">>
  /\ IF call = <<"status", 200>>
     THEN prover' = "serving" /\ call' = <<"none">>
     ELSE CallFails
  /\ UNCHANGED <<configVars, nitriding, attempt, losses>>

SignalAgain ==
  /\ prover = "sleeping"
  /\ prover' = "signalling"
  /\ attempt' = attempt + 1
  /\ UNCHANGED <<configVars, nitriding, call, losses>>

\* The end of the enclave is the end of everything in it.
EndOfEnclave ==
  /\ TerminateEnclave
  /\ nitriding' = "off" /\ prover' = "off"
  /\ attempt' = 0 /\ call' = <<"none">> /\ losses' = 0

-----------------------------------------------------------------------------
NitridingStep == StartNitriding \/ StartApp \/ NitridingAnswers

ProverStep ==
  \/ Bind \/ BindFails
  \/ ConnectRefused \/ SendReady \/ CallReturns \/ SignalAgain

Init == ConfigInit /\ BootInit

Next ==
  \/ ConfigNext /\ UNCHANGED bootVars
  \/ NitridingStep \/ ProverStep \/ CallBreaks
  \/ EndOfEnclave

Spec == Init /\ [][Next]_allVars

\* systemd restarts both services, a sleep ends, and the processes run; faults
\* owe us nothing.
FairSpec ==
  /\ Spec
  /\ WF_allVars(ServerStep /\ UNCHANGED bootVars)
  /\ WF_allVars(FetchStep /\ UNCHANGED bootVars)
  /\ WF_allVars(StartNitriding)
  /\ WF_allVars(StartApp)
  /\ WF_allVars(NitridingAnswers)
  /\ WF_allVars(ProverStep)

-----------------------------------------------------------------------------
IsPrefixOf(s, t) == Len(s) <= Len(t) /\ s = SubSeq(t, 1, Len(s))

\* Types: every variable keeps the values its comment names.
TypeOK ==
  /\ fqdn \in Names
  /\ server \in {"down", "accepting", "writing"}
  /\ queue \in Seq({"live", "gone"}) /\ Len(queue) <= Backlog
  /\ peer \in {"none", "live", "gone"}
  /\ deaths \in 0 .. MaxDeaths
  /\ enclave \in {"down", "connecting", "reading", "sleeping", "started"}
  /\ tries \in 0 .. attempts
  /\ link \in {"none", "open", "closed", "reset"}
  /\ terminations \in 0 .. MaxTerminations
  /\ nitriding \in {"off", "waiting", "public"}
  /\ prover \in {"off", "starting", "signalling", "calling", "sleeping",
                 "serving", "unbound", "gave_up"}
  /\ attempt \in 0 .. NITRIDING_READY_RETRIES
  /\ losses \in 0 .. MaxLosses

\* The name nitriding gets is the parent's name.  Only a server that was killed
\* between two writes leaves less, and that too is a valid name: a connection
\* that ends early is an ordinary end of file to fetch_fqdn_once.
NameIsServed ==
  enclave = "started" =>
    /\ validate_fqdn(proof_fqdn)
    /\ IsPrefixOf(proof_fqdn, fqdn)
    /\ proof_fqdn # fqdn => deaths > 0

\* The public port opens only onto a prover that listens: bind() comes before
\* the signal, and a prover whose signal got through does not give up
\* (run_http_server, signal_nitriding_ready).  The latter rests on
\* MaxLosses < NITRIDING_READY_RETRIES and RepeatStatuses = {200}: a prover that
\* loses every answer, or whose repeated call gets another status, ends with an
\* error and leaves an open port behind it.
PublicMeansListening ==
  nitriding = "public" => prover \in {"calling", "sleeping", "signalling", "serving"}

\* serve-fqdn cannot wedge fetch-fqdn: with a valid name configured every
\* enclave that is left alone gets its name, whatever clients went away and
\* however often the server died.
NameArrives == validate_fqdn(fqdn) => <>[](enclave = "started")

\* With fewer failed calls than retries (MaxLosses < NITRIDING_READY_RETRIES) and
\* repeated calls answered 200 (RepeatStatuses = {200}) the service goes public
\* and serves, unless its port cannot be bound.
ServiceComesUp ==
  validate_fqdn(fqdn) =>
    <>[](prover = "unbound" \/ (prover = "serving" /\ nitriding = "public"))
================================================================================

---------------------------------- MODULE Pki ----------------------------------
(***************************************************************************)
(* Certificates on disk and in memory: the script that makes them          *)
(* (crate_cert/main.py), the tool that verifies them (cert_check), the     *)
(* server that loads them once (ws-rs/src/server.rs) and the client that   *)
(* loads them for each URL and caches the result (ws-rs/src/client.rs).    *)
(*                                                                         *)
(* Every run of the script makes new keys, so what matters of a file is    *)
(* the run that wrote it: a certificate belongs to a key, and is signed by *)
(* a CA, of the same run and of no other.  The CA's key and the requests   *)
(* are files that only the run that writes them reads; they are left out.  *)
(* Steps of different programs interleave between any two files, and the   *)
(* operator may remove any file at any time.  One instance of the script   *)
(* runs at a time.                                                         *)
(***************************************************************************)
EXTENDS Integers, Sequences

CONSTANTS
  Urls,         \* what the client connects to: the keys of its cache
  MaxRetries,   \* max_reconnect_attempts of a client with auto_reconnect
  MaxRuns,      \* bound on the runs of the script that make a PKI
  MaxRemovals   \* bound on the files the operator removes

ASSUME UrlsAssumption == Urls # {}
ASSUME MaxRetriesAssumption == MaxRetries \in Nat
ASSUME MaxRunsAssumption == MaxRuns \in Nat
ASSUME MaxRemovalsAssumption == MaxRemovals \in Nat

VARIABLES
  disk,         \* the run that wrote each file, Absent or Truncated
  runs,         \* how many runs have begun
  caRuns,       \* history: the last run that wrote the CA's certificate
  removals,     \* how many files the operator has removed
  script,       \* the file it is at in WriteOrder (0: none), open or not
  expired,      \* the certificates of the runs up to this one are expired
  server,       \* where WsServer::new stands, what it has loaded and, once up,
                \* whether it demands certificates (client_cert_required)
  client,       \* where connect stands, and what it has loaded
  cache,        \* cert_cache: the configuration kept for each URL
  check,        \* where cert_check stands, the CA it has loaded, its verdict
  established   \* history: the connection that the last connect made, as both
                \* identities and whether the server demanded a certificate

vars == <<disk, runs, caRuns, removals, script, expired, server, client, cache, check,
          established>>

-----------------------------------------------------------------------------
(* Mutant: the keys are stored last.                                       *)
WriteOrderKeysLast == <<"ca_cert", "a_cert", "b_cert", "a_key", "b_key">>

WriteOrder == <<"ca_cert", "a_key", "b_key", "a_cert", "b_cert">>

Files == {"ca_cert", "a_key", "b_key", "a_cert", "b_cert"}

Absent == -1
Truncated == 0     \* opened for writing, nothing in it yet
Runs == 1 .. MaxRuns

(* What one side has loaded of its certificate, its key and the CA.        *)
Identity == [cert : 0 .. MaxRuns, key : 0 .. MaxRuns, ca : 0 .. MaxRuns]
Nothing == [cert |-> 0, key |-> 0, ca |-> 0]
NoConnection == [client |-> Nothing, server |-> Nothing, required |-> FALSE]

TypeOK ==
  /\ disk \in [Files -> Absent .. MaxRuns]
  /\ runs \in 0 .. MaxRuns
  /\ caRuns \in 0 .. MaxRuns
  /\ removals \in 0 .. MaxRemovals
  /\ script \in [at : 0 .. 5, open : BOOLEAN]
  /\ expired \in 0 .. MaxRuns
  /\ server \in [at : {"down", "key", "ca", "up"}, id : Identity,
                 required : BOOLEAN]
  /\ client \in [at : {"idle", "lookup", "cert", "key", "ca", "attempt"},
                 url : Urls, id : Identity, attempts : 0 .. MaxRetries + 1,
                 first : Identity, result : {"none", "ok", "err"}]
  /\ cache \in [Urls -> Identity]
  /\ check \in [at : {"idle", "a", "b"}, ca : 0 .. MaxRuns,
                verdict : {"none", "ok"}]
  /\ established \in [client : Identity, server : Identity, required : BOOLEAN]

Init ==
  /\ disk = [f \in Files |-> Absent]
  /\ runs = 0
  /\ caRuns = 0
  /\ removals = 0
  /\ script = [at |-> 0, open |-> FALSE]
  /\ expired = 0
  /\ server = [at |-> "down", id |-> Nothing, required |-> FALSE]
  /\ client = [at |-> "idle", url |-> CHOOSE u \in Urls : TRUE, id |-> Nothing,
               attempts |-> 0, first |-> Nothing, result |-> "none"]
  /\ cache = [u \in Urls |-> Nothing]
  /\ check = [at |-> "idle", ca |-> 0, verdict |-> "none"]
  /\ established = NoConnection

fileVars == <<disk, runs, caRuns, removals, script, expired>>
clientVars == <<client, cache, established>>
programs == <<server, clientVars, check>>

(* A file that File::open finds and in which a PEM section is found.       *)
Loadable(f) == disk[f] \in Runs

-----------------------------------------------------------------------------
(* crate_cert/main.py.                                                     *)

(* It makes a PKI unless there is a ca_cert.pem; with one it uses the      *)
(* existing files, whatever they are, and changes nothing.                 *)
SetupBegins ==
  /\ script.at = 0
  /\ disk["ca_cert"] = Absent
  /\ runs < MaxRuns
  /\ runs' = runs + 1
  /\ script' = [at |-> 1, open |-> FALSE]
  /\ UNCHANGED <<disk, caRuns, removals, expired, programs>>

(* open(f, "wb") truncates; the contents arrive when the file is closed.   *)
SetupOpens ==
  /\ script.at # 0 /\ ~script.open
  /\ disk' = [disk EXCEPT ![WriteOrder[script.at]] = Truncated]
  /\ script' = [script EXCEPT !.open = TRUE]
  /\ UNCHANGED <<runs, caRuns, removals, expired, programs>>

(* What is written to a file that was removed meanwhile is lost.           *)
SetupWrites ==
  /\ script.open
  /\ disk' = [disk EXCEPT ![WriteOrder[script.at]] = IF @ = Absent THEN @ ELSE runs]
  /\ caRuns' = IF WriteOrder[script.at] = "ca_cert" THEN runs ELSE caRuns
  /\ script' = [at |-> (script.at + 1) % 6, open |-> FALSE]
  /\ UNCHANGED <<runs, removals, expired, programs>>

SetupKilled ==
  /\ script.at # 0
  /\ script' = [at |-> 0, open |-> FALSE]
  /\ UNCHANGED <<disk, runs, caRuns, removals, expired, programs>>

(* What the operator does, file by file, to have new certificates made.    *)
OperatorRemoves(f) ==
  /\ disk[f] # Absent
  /\ removals < MaxRemovals
  /\ disk' = [disk EXCEPT ![f] = Absent]
  /\ removals' = removals + 1
  /\ UNCHANGED <<runs, caRuns, script, expired, programs>>

(* Certificates are valid for 365 days.                                    *)
Expire ==
  /\ expired < runs
  /\ expired' = expired + 1
  /\ UNCHANGED <<disk, runs, caRuns, removals, script, programs>>

-----------------------------------------------------------------------------
(* WsServer::new loads certificate, key and CA, and never again.           *)

Loads(piece, f, id) == [id EXCEPT ![piece] = disk[f]]

ServerHas(at, id) == server' = [server EXCEPT !.at = at, !.id = id]

(* The acceptor is made, of a configuration that demands certificates or   *)
(* of one that does not.                                                   *)
ServerStarts(id) ==
  \E required \in BOOLEAN :
    server' = [at |-> "up", id |-> id, required |-> required]

(* Mutant: the CA is loaded first.                                         *)
ServerLoadsCaFirst ==
  /\ \/ /\ server.at = "down" /\ Loadable("ca_cert")
        /\ ServerHas("key", Loads("ca", "ca_cert", Nothing))
     \/ /\ server.at = "key" /\ Loadable("a_key")
        /\ ServerHas("ca", Loads("key", "a_key", server.id))
     \/ /\ server.at = "ca" /\ Loadable("a_cert") /\ disk["a_cert"] = server.id.key
        /\ ServerStarts(Loads("cert", "a_cert", server.id))
  /\ UNCHANGED <<fileVars, clientVars, check>>

(* The CA is loaded in any configuration; only one that demands            *)
(* certificates makes a verifier of it.                                    *)
ServerLoads ==
  /\ \/ /\ server.at = "down" /\ Loadable("a_cert")
        /\ ServerHas("key", Loads("cert", "a_cert", Nothing))
     \/ /\ server.at = "key" /\ Loadable("a_key")
        /\ ServerHas("ca", Loads("key", "a_key", server.id))
     \/ /\ server.at = "ca" /\ Loadable("ca_cert") /\ server.id.cert = server.id.key
        /\ ServerStarts(Loads("ca", "ca_cert", server.id))
  /\ UNCHANGED <<fileVars, clientVars, check>>

(* A file that cannot be loaded, a key of another certificate, or a        *)
(* running server that is stopped.                                         *)
ServerExits ==
  /\ \/ server.at = "key" /\ ~Loadable("a_key")
     \/ server.at = "ca" /\ ~(Loadable("ca_cert") /\ server.id.cert = server.id.key)
     \/ server.at = "up"
  /\ server' = [at |-> "down", id |-> Nothing, required |-> FALSE]
  /\ UNCHANGED <<fileVars, clientVars, check>>

-----------------------------------------------------------------------------
(* The client: connect, create_tls_config and clear_cert_cache.            *)

Connect(url) ==
  /\ client.at = "idle"
  /\ client' = [at |-> "lookup", url |-> url, id |-> Nothing, attempts |-> 1,
                first |-> Nothing, result |-> "none"]
  /\ established' = NoConnection
  /\ UNCHANGED <<cache, fileVars, server, check>>

(* The configuration for this attempt is there.                            *)
Attempts(id) ==
  client' = [client EXCEPT !.at = "attempt", !.id = id,
               !.first = IF client.attempts = 1 THEN id ELSE @]

Returns(result) ==
  client' = [client EXCEPT !.at = "idle", !.id = Nothing, !.attempts = 0,
                           !.first = Nothing, !.result = result]

Fails == Returns("err")

LooksUp ==
  /\ client.at = "lookup"
  /\ IF cache[client.url] # Nothing THEN Attempts(cache[client.url])
     ELSE client' = [client EXCEPT !.at = "cert"]
  /\ UNCHANGED <<cache, established, fileVars, server, check>>

LoadsCert ==
  /\ client.at = "cert"
  /\ IF Loadable("b_cert")
     THEN client' = [client EXCEPT !.at = "key", !.id = Loads("cert", "b_cert", Nothing)]
     ELSE Fails
  /\ UNCHANGED <<cache, established, fileVars, server, check>>

LoadsKey ==
  /\ client.at = "key"
  /\ IF Loadable("b_key")
     THEN client' = [client EXCEPT !.at = "ca", !.id = Loads("key", "b_key", @)]
     ELSE Fails
  /\ UNCHANGED <<cache, established, fileVars, server, check>>

(* Mutant: the configuration is not kept.                                  *)
LoadsCaUncached ==
  /\ client.at = "ca"
  /\ IF Loadable("ca_cert") /\ client.id.cert = client.id.key
     THEN Attempts(Loads("ca", "ca_cert", client.id))
     ELSE Fails
  /\ UNCHANGED <<cache, established, fileVars, server, check>>

(* The configuration is built, unless the key is not the certificate's,    *)
(* and kept.                                                               *)
LoadsCa ==
  /\ client.at = "ca"
  /\ IF Loadable("ca_cert") /\ client.id.cert = client.id.key
     THEN LET id == Loads("ca", "ca_cert", client.id)
          IN  Attempts(id) /\ cache' = [cache EXCEPT ![client.url] = id]
     ELSE Fails /\ UNCHANGED cache
  /\ UNCHANGED <<established, fileVars, server, check>>

(* A side that verifies the other's certificate looks at its signature,    *)
(* against its own CA, and at its dates; the CA's dates are not looked at. *)
Trusts(ca, cert) == ca = cert /\ expired < cert

(* The client always verifies; the server, if it demands a certificate.    *)
AttemptSucceeds ==
  /\ client.at = "attempt"
  /\ server.at = "up"
  /\ Trusts(client.id.ca, server.id.cert)
  /\ server.required => Trusts(server.id.ca, client.id.cert)
  /\ established' = [client |-> client.id, server |-> server.id,
                     required |-> server.required]
  /\ Returns("ok")
  /\ UNCHANGED <<cache, fileVars, server, check>>

(* Mutant: off by one.                                                     *)
AttemptFailsOnceMore ==
  /\ client.at = "attempt"
  /\ IF client.attempts <= MaxRetries + 1
     THEN client' = [client EXCEPT !.at = "lookup", !.attempts = @ + 1]
     ELSE Fails
  /\ UNCHANGED <<cache, established, fileVars, server, check>>

(* No trust, no server, a network error or a timeout: the next attempt     *)
(* makes its configuration anew, from the cache.                           *)
AttemptFails ==
  /\ client.at = "attempt"
  /\ IF client.attempts <= MaxRetries
     THEN client' = [client EXCEPT !.at = "lookup", !.attempts = @ + 1]
     ELSE Fails
  /\ UNCHANGED <<cache, established, fileVars, server, check>>

(* Mutant: the cache is left as it is.                                     *)
ClearNothing ==
  /\ client.at = "idle"
  /\ UNCHANGED <<client, cache, established, fileVars, server, check>>

(* It takes &self, so it cannot run during connect, which takes &mut self. *)
ClearCertCache ==
  /\ client.at = "idle"
  /\ cache' = [u \in Urls |-> Nothing]
  /\ UNCHANGED <<client, established, fileVars, server, check>>

-----------------------------------------------------------------------------
(* cert_check: it loads the CA, then each certificate, and verifies the    *)
(* signature and the dates of both.                                        *)

Verifies(ca, f) == Loadable(f) /\ disk[f] = ca /\ expired < ca

CheckLoadsCa ==
  /\ check.at = "idle" /\ Loadable("ca_cert")
  /\ check' = [at |-> "a", ca |-> disk["ca_cert"], verdict |-> "none"]
  /\ UNCHANGED <<fileVars, server, clientVars>>

(* Each certificate in turn; the first that fails is the end.              *)
CheckVerifies(at, f, next) ==
  /\ check.at = at
  /\ check' = IF ~Verifies(check.ca, f)
              THEN [at |-> "idle", ca |-> 0, verdict |-> "none"]
              ELSE IF next = "idle" THEN [at |-> "idle", ca |-> 0, verdict |-> "ok"]
              ELSE [check EXCEPT !.at = next]
  /\ UNCHANGED <<fileVars, server, clientVars>>

-----------------------------------------------------------------------------
SetupNext ==
  \/ SetupBegins \/ SetupOpens \/ SetupWrites \/ SetupKilled
  \/ \E f \in Files : OperatorRemoves(f)

ServerNext == ServerLoads \/ ServerExits

ClientNext ==
  \/ \E url \in Urls : Connect(url)
  \/ LooksUp \/ LoadsCert \/ LoadsKey \/ LoadsCa
  \/ AttemptSucceeds \/ AttemptFails \/ ClearCertCache

CheckNext ==
  \/ CheckLoadsCa
  \/ CheckVerifies("a", "a_cert", "b") \/ CheckVerifies("b", "b_cert", "idle")

Next == SetupNext \/ Expire \/ ServerNext \/ ClientNext \/ CheckNext

Safety == Init /\ [][Next]_vars

(* A program that keeps connecting and sometimes clears the cache, on a    *)
(* network on which an attempt that can succeed does so now and then.      *)
Spec ==
  /\ Safety
  /\ \A url \in Urls : SF_vars(Connect(url))
  /\ WF_vars(LooksUp) /\ WF_vars(LoadsCert) /\ WF_vars(LoadsKey) /\ WF_vars(LoadsCa)
  /\ SF_vars(AttemptSucceeds) /\ WF_vars(AttemptFails)
  /\ SF_vars(ClearCertCache)

-----------------------------------------------------------------------------
(* However the loading of the six files, three on each side, interleaves   *)
(* with runs that replace them: a connection only comes about with a       *)
(* server that has the key of its certificate and is of the run of the     *)
(* client's CA, and the client's own certificate and key are of one run,   *)
(* never a later one.  With a server that demands certificates, all six    *)
(* are of one run.  Both sides load the CA after their certificate.        *)
EstablishedFromOneRun ==
  LET c == established.client
      s == established.server
  IN  /\ c.key = c.cert /\ s.key = s.cert
      /\ c.ca = s.cert /\ c.cert <= s.cert
      /\ established.required => s.ca = s.cert /\ c.cert = s.cert

(* All attempts of one connect present the same identity, although each    *)
(* makes its configuration anew and the files change in between.           *)
OneIdentityPerConnect == client.at = "attempt" => client.id = client.first

(* Where cert_check, which does not look at keys, has verified the         *)
(* certificates, a key on disk is the certificate's and complete, unless   *)
(* a later run of the script has begun: wherever runs were killed, and     *)
(* whichever files were removed, before, during and after each of them.    *)
(* A key may be missing: that is the one thing the verdict hides.          *)
VerdictCoversKeys ==
  [][check.verdict = "none" /\ check'.verdict = "ok" /\ runs = check.ca
       => /\ disk["a_key"] \in {check.ca, Absent}
          /\ disk["b_key"] \in {check.ca, Absent}]_vars

(* All files are of run g, which is not expired, and the server has been   *)
(* restarted with them.                                                    *)
Renewed(g) ==
  /\ \A f \in Files : disk[f] = g
  /\ expired < g
  /\ server.at = "up" /\ server.id = [cert |-> g, key |-> g, ca |-> g]

(* "This method can be useful to force reloading of certificates if they   *)
(* have been updated on disk" (client.rs, clear_cert_cache): a program     *)
(* that calls it gets through again after a renewal, whatever              *)
(* configurations, mixed of two runs or expired, it had cached.            *)
RenewalTakesEffect ==
  \A g \in Runs :
    <>[]Renewed(g)
      => []<>(client.result = "ok" /\ established.client.cert = g)
=============================================================================

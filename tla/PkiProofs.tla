------------------------------- MODULE PkiProofs -------------------------------
(***************************************************************************)
(* Proofs about Pki for any number of runs of the script, retries and      *)
(* URLs: its types, EstablishedFromOneRun, OneIdentityPerConnect and       *)
(* VerdictCoversKeys.                                                      *)
(***************************************************************************)
EXTENDS Pki, TLAPS

(* What the order of the script says of the files: certificates and keys   *)
(* are never newer than the CA that has been written last, the CA on disk  *)
(* is that one, and where a run has come to b_cert each key is its own or  *)
(* has been removed.                                                       *)
DiskInv ==
  /\ caRuns <= runs
  /\ \A f \in Files : disk[f] <= caRuns
  /\ disk["ca_cert"] \in {Absent, Truncated, caRuns}
  /\ script.open => script.at # 0
  /\ script.at = 1 => caRuns < runs
  /\ script.at # 0 => runs > 0 /\ disk["b_cert"] # runs
  /\ script.at >= 2 => caRuns = runs
  /\ script.at >= 3 => disk["a_key"] \in {runs, Absent}
  /\ script.at >= 4 => disk["b_key"] \in {runs, Absent}
  /\ disk["b_cert"] = runs /\ runs > 0
       => disk["a_key"] \in {runs, Absent} /\ disk["b_key"] \in {runs, Absent}

(* An identity that a TLS configuration is built from: its key is the      *)
(* certificate's and its CA, loaded last, is not older.                    *)
Sound(id) == id.key = id.cert /\ id.cert <= id.ca

ServerInv ==
  /\ server.at \in {"key", "ca"} => server.id.cert <= caRuns
  /\ server.at = "up" => Sound(server.id)

ClientInv ==
  /\ client.at \in {"key", "ca"} => client.id.cert <= caRuns
  /\ client.at = "attempt" => Sound(client.id)
  /\ \A u \in Urls : Sound(cache[u])

(* Only the first attempt of a connect can miss the cache.                 *)
AttemptInv ==
  /\ client.at # "idle" => client.attempts >= 1
  /\ client.at \in {"cert", "key", "ca"} => client.attempts = 1
  /\ client.at = "lookup" /\ client.attempts > 1
       => cache[client.url] = client.first /\ client.first # Nothing
  /\ client.at = "attempt"
       => /\ client.id = client.first /\ client.first # Nothing
          /\ cache[client.url] = client.first

IInv ==
  /\ TypeOK
  /\ DiskInv
  /\ ServerInv
  /\ ClientInv
  /\ AttemptInv
  /\ EstablishedFromOneRun

(***************************************************************************)
(* The initial states.                                                     *)
(***************************************************************************)

LEMMA InitIInv == Init => IInv
<1> SUFFICES ASSUME Init PROVE IInv
  OBVIOUS
<1> USE MaxRetriesAssumption, MaxRunsAssumption, MaxRemovalsAssumption
<1>1. TypeOK
  BY UrlsAssumption DEF Init, TypeOK, Files, Absent, Identity, Nothing, NoConnection
<1>2. DiskInv
  BY DEF Init, DiskInv, Files, Absent
<1>3. ServerInv /\ ClientInv /\ AttemptInv
  BY DEF Init, ServerInv, ClientInv, AttemptInv, Sound, Nothing
<1>4. EstablishedFromOneRun
  BY DEF Init, EstablishedFromOneRun, Nothing, NoConnection
<1> QED BY <1>1, <1>2, <1>3, <1>4 DEF IInv

(***************************************************************************)
(* The script.                                                             *)
(***************************************************************************)

(* What the programs have loaded stays right while the CA gets newer.      *)
LEMMA ProgramsKeep ==
  ASSUME IInv, UNCHANGED programs, caRuns' \in Nat, caRuns <= caRuns'
  PROVE  ServerInv' /\ ClientInv' /\ AttemptInv' /\ EstablishedFromOneRun'
<1> USE DEF IInv, TypeOK, programs, clientVars
<1>1. ServerInv'
  BY MaxRunsAssumption DEF ServerInv, Sound, Identity
<1>2. ClientInv'
  BY MaxRunsAssumption DEF ClientInv, Sound, Identity
<1>3. AttemptInv' /\ EstablishedFromOneRun'
  BY DEF AttemptInv, EstablishedFromOneRun
<1> QED BY <1>1, <1>2, <1>3

LEMMA SetupBeginsIInv == ASSUME IInv, SetupBegins PROVE IInv'
<1> USE MaxRunsAssumption DEF SetupBegins
<1>1. TypeOK'
  BY DEF IInv, TypeOK, programs, clientVars
<1>2. DiskInv'
  BY DEF IInv, TypeOK, DiskInv, Files
<1>3. ServerInv' /\ ClientInv' /\ AttemptInv' /\ EstablishedFromOneRun'
  BY ProgramsKeep DEF IInv, TypeOK
<1> QED BY <1>1, <1>2, <1>3 DEF IInv

(* The file the script is at.                                              *)
LEMMA FileAt ==
  ASSUME NEW k \in 1 .. 5
  PROVE  /\ WriteOrder[k] \in Files
         /\ WriteOrder[k] = "ca_cert" <=> k = 1
         /\ WriteOrder[k] = "a_key" <=> k = 2
         /\ WriteOrder[k] = "b_key" <=> k = 3
         /\ WriteOrder[k] = "b_cert" <=> k = 5
<1>1. k \in {1, 2, 3, 4, 5}
  OBVIOUS
<1> QED BY <1>1 DEF WriteOrder, Files

LEMMA SetupOpensIInv == ASSUME IInv, SetupOpens PROVE IInv'
<1> USE MaxRunsAssumption DEF SetupOpens
<1> DEFINE f == WriteOrder[script.at]
<1>0. script.at \in 1 .. 5
  BY DEF IInv, TypeOK
<1>f. /\ f \in Files
      /\ f = "ca_cert" <=> script.at = 1
      /\ f = "a_key" <=> script.at = 2
      /\ f = "b_key" <=> script.at = 3
      /\ f = "b_cert" <=> script.at = 5
  BY <1>0, FileAt
<1>d. disk' = [disk EXCEPT ![f] = Truncated]
  OBVIOUS
<1> HIDE DEF f
<1>1. TypeOK'
  <2>0. Truncated \in Absent .. MaxRuns
    BY DEF Absent, Truncated
  <2>1. disk' \in [Files -> Absent .. MaxRuns]
    BY <1>d, <2>0 DEF IInv, TypeOK
  <2>2. script' \in [at : 0 .. 5, open : BOOLEAN]
    BY DEF IInv, TypeOK
  <2> QED BY <2>1, <2>2 DEF IInv, TypeOK, programs, clientVars
<1>2. DiskInv'
  <2>1. \A g \in Files : disk'[g] = IF g = f THEN Truncated ELSE disk[g]
    BY <1>d DEF IInv, TypeOK
  <2>2. script'.at = script.at /\ script'.open
    BY DEF IInv, TypeOK
  <2> QED BY <1>0, <1>f, <2>1, <2>2 DEF IInv, TypeOK, DiskInv, Files, Absent, Truncated
<1>3. ServerInv' /\ ClientInv' /\ AttemptInv' /\ EstablishedFromOneRun'
  BY ProgramsKeep DEF IInv, TypeOK
<1> QED BY <1>1, <1>2, <1>3 DEF IInv

LEMMA SetupWritesIInv == ASSUME IInv, SetupWrites PROVE IInv'
<1> USE MaxRunsAssumption DEF SetupWrites
<1> DEFINE f == WriteOrder[script.at]
<1>0. script.at \in 1 .. 5
  BY DEF IInv, TypeOK, DiskInv
<1>f. /\ f \in Files
      /\ f = "ca_cert" <=> script.at = 1
      /\ f = "a_key" <=> script.at = 2
      /\ f = "b_key" <=> script.at = 3
      /\ f = "b_cert" <=> script.at = 5
  BY <1>0, FileAt
<1>d. /\ disk' = [disk EXCEPT ![f] = IF @ = Absent THEN @ ELSE runs]
      /\ caRuns' = IF f = "ca_cert" THEN runs ELSE caRuns
  OBVIOUS
<1> HIDE DEF f
<1>s. script' = [at |-> IF script.at = 5 THEN 0 ELSE script.at + 1, open |-> FALSE]
  <2>1. script.at \in {1, 2, 3, 4, 5}
    BY <1>0
  <2>2. (script.at + 1) % 6 = IF script.at = 5 THEN 0 ELSE script.at + 1
    BY <2>1
  <2> QED BY <2>2
<1>1. TypeOK'
  <2>0. runs \in Absent .. MaxRuns
    BY DEF IInv, TypeOK, Absent
  <2>1. disk' \in [Files -> Absent .. MaxRuns]
    BY <1>f, <1>d, <2>0 DEF IInv, TypeOK
  <2>2. script' \in [at : 0 .. 5, open : BOOLEAN]
    BY <1>0, <1>s
  <2>3. caRuns' \in 0 .. MaxRuns
    BY <1>d DEF IInv, TypeOK
  <2> QED BY <2>1, <2>2, <2>3 DEF IInv, TypeOK, programs, clientVars
<1>2. DiskInv'
  <2>1. \A g \in Files :
          disk'[g] = IF g = f /\ disk[g] # Absent THEN runs ELSE disk[g]
    BY <1>d DEF IInv, TypeOK
  <2> QED BY <1>0, <1>f, <1>d, <1>s, <2>1 DEF IInv, TypeOK, DiskInv, Files, Absent, Truncated
<1>3. ServerInv' /\ ClientInv' /\ AttemptInv' /\ EstablishedFromOneRun'
  BY <1>d, ProgramsKeep DEF IInv, TypeOK, DiskInv
<1> QED BY <1>1, <1>2, <1>3 DEF IInv

LEMMA SetupKilledIInv == ASSUME IInv, SetupKilled PROVE IInv'
<1> USE MaxRunsAssumption DEF SetupKilled
<1>1. TypeOK'
  BY DEF IInv, TypeOK, programs, clientVars
<1>2. DiskInv'
  BY DEF IInv, TypeOK, DiskInv
<1>3. ServerInv' /\ ClientInv' /\ AttemptInv' /\ EstablishedFromOneRun'
  BY ProgramsKeep DEF IInv, TypeOK
<1> QED BY <1>1, <1>2, <1>3 DEF IInv

(* The operator removes a file: what is said of a file holds of no file.   *)
LEMMA OperatorRemovesIInv ==
  ASSUME IInv, NEW f \in Files, OperatorRemoves(f)
  PROVE  IInv'
<1> USE MaxRunsAssumption DEF OperatorRemoves
<1>1. TypeOK'
  BY MaxRemovalsAssumption DEF IInv, TypeOK, programs, clientVars, Absent
<1>2. DiskInv'
  <2>1. \A g \in Files : disk'[g] = IF g = f THEN Absent ELSE disk[g]
    BY DEF IInv, TypeOK
  <2> QED BY <2>1 DEF IInv, TypeOK, DiskInv, Files, Absent
<1>3. ServerInv' /\ ClientInv' /\ AttemptInv' /\ EstablishedFromOneRun'
  BY ProgramsKeep DEF IInv, TypeOK
<1> QED BY <1>1, <1>2, <1>3 DEF IInv

LEMMA ExpireIInv == ASSUME IInv, Expire PROVE IInv'
<1> USE MaxRunsAssumption DEF Expire
<1>1. TypeOK'
  BY DEF IInv, TypeOK, programs, clientVars
<1>2. DiskInv'
  BY DEF IInv, TypeOK, DiskInv
<1>3. ServerInv' /\ ClientInv' /\ AttemptInv' /\ EstablishedFromOneRun'
  BY ProgramsKeep DEF IInv, TypeOK
<1> QED BY <1>1, <1>2, <1>3 DEF IInv

(***************************************************************************)
(* The server and the client.                                              *)
(***************************************************************************)

LEMMA DiskKeeps == ASSUME DiskInv, UNCHANGED fileVars PROVE DiskInv'
  BY DEF DiskInv, fileVars

(* Loading a piece of an identity.                                         *)
LEMMA LoadsType ==
  ASSUME IInv, NEW f \in Files, Loadable(f), NEW id \in Identity,
         NEW piece \in {"cert", "key", "ca"}
  PROVE  /\ Loads(piece, f, id) \in Identity
         /\ disk[f] \in 1 .. MaxRuns
         /\ Loads(piece, f, id) = [id EXCEPT ![piece] = disk[f]]
         /\ disk[f] <= caRuns
         /\ f = "ca_cert" => disk[f] = caRuns
<1>1. disk[f] \in 1 .. MaxRuns
  BY DEF Loadable, Runs
<1>2. [id EXCEPT ![piece] = disk[f]] \in Identity
  BY <1>1 DEF Identity
<1>3. disk[f] <= caRuns /\ (f = "ca_cert" => disk[f] = caRuns)
  BY <1>1 DEF IInv, DiskInv, Absent, Truncated
<1> QED BY <1>1, <1>2, <1>3 DEF Loads

LEMMA ServerLoadsIInv == ASSUME IInv, ServerLoads PROVE IInv'
<1> USE MaxRunsAssumption DEF ServerLoads, ServerHas, ServerStarts
<1>0. /\ server \in [at : {"down", "key", "ca", "up"}, id : Identity,
                  required : BOOLEAN]
      /\ Nothing \in Identity
      /\ caRuns \in Nat
  BY DEF IInv, TypeOK, Identity, Nothing
<1>1. /\ server' \in [at : {"down", "key", "ca", "up"}, id : Identity,
                   required : BOOLEAN]
      /\ ServerInv'
  <2>1. CASE /\ server.at = "down" /\ Loadable("a_cert")
             /\ ServerHas("key", Loads("cert", "a_cert", Nothing))
    <3>1. /\ Loads("cert", "a_cert", Nothing) \in Identity
          /\ Loads("cert", "a_cert", Nothing) = [Nothing EXCEPT !["cert"] = disk["a_cert"]]
          /\ disk["a_cert"] <= caRuns
      BY <1>0, <2>1, LoadsType DEF Files
    <3>2. Loads("cert", "a_cert", Nothing).cert <= caRuns
      BY <3>1 DEF Nothing
    <3> QED BY <1>0, <2>1, <3>1, <3>2 DEF ServerInv, fileVars
  <2>2. CASE /\ server.at = "key" /\ Loadable("a_key")
             /\ ServerHas("ca", Loads("key", "a_key", server.id))
    <3>1. /\ Loads("key", "a_key", server.id) \in Identity
          /\ Loads("key", "a_key", server.id) = [server.id EXCEPT !["key"] = disk["a_key"]]
      BY <1>0, <2>2, LoadsType DEF Files
    <3>2. Loads("key", "a_key", server.id).cert <= caRuns
      BY <1>0, <2>2, <3>1 DEF IInv, ServerInv, Identity
    <3> QED BY <1>0, <2>2, <3>1, <3>2 DEF ServerInv, fileVars
  <2>3. CASE /\ server.at = "ca" /\ Loadable("ca_cert") /\ server.id.cert = server.id.key
             /\ ServerStarts(Loads("ca", "ca_cert", server.id))
    <3>1. /\ Loads("ca", "ca_cert", server.id) \in Identity
          /\ Loads("ca", "ca_cert", server.id) = [server.id EXCEPT !["ca"] = disk["ca_cert"]]
          /\ disk["ca_cert"] = caRuns
      BY <1>0, <2>3, LoadsType DEF Files
    <3>2. Sound(Loads("ca", "ca_cert", server.id))
      BY <1>0, <2>3, <3>1 DEF IInv, ServerInv, Identity, Sound
    <3> QED BY <2>3, <3>1, <3>2 DEF ServerInv, fileVars
  <2> QED BY <2>1, <2>2, <2>3
<1>2. TypeOK'
  BY <1>1 DEF IInv, TypeOK, fileVars, clientVars
<1>4. DiskInv'
  BY DiskKeeps DEF IInv
<1>5. ClientInv' /\ AttemptInv' /\ EstablishedFromOneRun'
  BY DEF IInv, ClientInv, AttemptInv, EstablishedFromOneRun, fileVars, clientVars
<1> QED BY <1>1, <1>2, <1>4, <1>5 DEF IInv

LEMMA ServerExitsIInv == ASSUME IInv, ServerExits PROVE IInv'
<1> USE MaxRunsAssumption DEF ServerExits
<1>1. server' = [at |-> "down", id |-> Nothing, required |-> FALSE]
  OBVIOUS
<1>2. TypeOK' /\ ServerInv'
  BY <1>1 DEF IInv, TypeOK, ServerInv, fileVars, clientVars, Identity, Nothing
<1>3. DiskInv'
  BY DiskKeeps DEF IInv
<1>4. ClientInv' /\ AttemptInv' /\ EstablishedFromOneRun'
  BY DEF IInv, ClientInv, AttemptInv, EstablishedFromOneRun, fileVars, clientVars
<1> QED BY <1>2, <1>3, <1>4 DEF IInv

(* A step of the client leaves the files, the server and cert_check alone. *)
LEMMA ClientKeeps ==
  ASSUME IInv, UNCHANGED <<fileVars, server, check>>,
         client' \in [at : {"idle", "lookup", "cert", "key", "ca", "attempt"},
                      url : Urls, id : Identity, attempts : 0 .. MaxRetries + 1,
                      first : Identity, result : {"none", "ok", "err"}],
         cache' \in [Urls -> Identity],
         established' \in [client : Identity, server : Identity, required : BOOLEAN]
  PROVE  TypeOK' /\ DiskInv' /\ ServerInv'
<1>1. TypeOK'
  BY DEF IInv, TypeOK, fileVars
<1>2. DiskInv'
  BY DiskKeeps DEF IInv
<1>3. ServerInv'
  BY DEF IInv, ServerInv, fileVars
<1> QED BY <1>1, <1>2, <1>3

(* The client's record.                                                    *)
LEMMA ClientType ==
  ASSUME IInv
  PROVE  /\ client \in [at : {"idle", "lookup", "cert", "key", "ca", "attempt"},
                        url : Urls, id : Identity, attempts : 0 .. MaxRetries + 1,
                        first : Identity, result : {"none", "ok", "err"}]
         /\ cache \in [Urls -> Identity]
         /\ established \in [client : Identity, server : Identity, required : BOOLEAN]
         /\ disk \in [Files -> Absent .. MaxRuns]
         /\ Nothing \in Identity
  BY MaxRunsAssumption DEF IInv, TypeOK, Identity, Nothing

LEMMA ConnectIInv == ASSUME IInv, NEW url \in Urls, Connect(url) PROVE IInv'
<1> USE MaxRetriesAssumption, ClientType DEF Connect
<1>0. NoConnection \in [client : Identity, server : Identity, required : BOOLEAN]
  BY DEF NoConnection
<1>1. TypeOK' /\ DiskInv' /\ ServerInv'
  BY <1>0, ClientKeeps
<1>2. ClientInv' /\ AttemptInv'
  BY DEF IInv, ClientInv, AttemptInv, fileVars
<1>3. EstablishedFromOneRun'
  BY DEF EstablishedFromOneRun, NoConnection, Nothing
<1> QED BY <1>1, <1>2, <1>3 DEF IInv

(* The client is idle again.                                               *)
LEMMA ReturnsKeep ==
  ASSUME IInv, NEW result \in {"none", "ok", "err"}, Returns(result),
         UNCHANGED <<cache, fileVars, server, check>>,
         established' \in [client : Identity, server : Identity, required : BOOLEAN]
  PROVE  TypeOK' /\ DiskInv' /\ ServerInv' /\ ClientInv' /\ AttemptInv'
<1> USE ClientType, MaxRetriesAssumption DEF Returns
<1>0. 0 \in 0 .. MaxRetries + 1
  OBVIOUS
<1>a. client' \in [at : {"idle", "lookup", "cert", "key", "ca", "attempt"},
                   url : Urls, id : Identity, attempts : 0 .. MaxRetries + 1,
                   first : Identity, result : {"none", "ok", "err"}]
  BY <1>0
<1>1. TypeOK' /\ DiskInv' /\ ServerInv'
  BY <1>a, ClientKeeps
<1>2. ClientInv' /\ AttemptInv'
  BY DEF IInv, ClientInv, AttemptInv, fileVars
<1> QED BY <1>1, <1>2

LEMMA FailsIInv ==
  ASSUME IInv, Fails, UNCHANGED <<cache, established, fileVars, server, check>>
  PROVE  IInv'
<1>1. TypeOK' /\ DiskInv' /\ ServerInv' /\ ClientInv' /\ AttemptInv'
  BY ClientType, ReturnsKeep DEF Fails
<1>2. EstablishedFromOneRun'
  BY DEF IInv, EstablishedFromOneRun
<1> QED BY <1>1, <1>2 DEF IInv

LEMMA LooksUpIInv == ASSUME IInv, LooksUp PROVE IInv'
<1> USE ClientType DEF LooksUp
<1>1. CASE cache[client.url] # Nothing
  <2> DEFINE id == cache[client.url]
  <2>0. client' = [client EXCEPT !.at = "attempt", !.id = id,
                     !.first = IF client.attempts = 1 THEN id ELSE @]
    BY <1>1 DEF Attempts
  <2>1. id \in Identity /\ id # Nothing /\ Sound(id)
    BY <1>1 DEF IInv, ClientInv
  <2> HIDE DEF id
  <2>2. TypeOK' /\ DiskInv' /\ ServerInv'
    BY <2>0, <2>1, ClientKeeps
  <2>3. ClientInv'
    BY <2>0, <2>1 DEF IInv, ClientInv, fileVars
  <2>4. client.attempts >= 1 /\ (client.attempts > 1 => id = client.first)
    BY DEF IInv, AttemptInv, id
  <2>5. AttemptInv'
    BY <2>0, <2>1, <2>4 DEF AttemptInv, id
  <2>6. EstablishedFromOneRun'
    BY DEF IInv, EstablishedFromOneRun
  <2> QED BY <2>2, <2>3, <2>5, <2>6 DEF IInv
<1>2. CASE cache[client.url] = Nothing
  <2>0. client' = [client EXCEPT !.at = "cert"]
    BY <1>2
  <2>1. TypeOK' /\ DiskInv' /\ ServerInv'
    BY <2>0, ClientKeeps
  <2>2. ClientInv'
    BY <2>0 DEF IInv, ClientInv, fileVars
  <2>3. AttemptInv'
    BY <1>2, <2>0 DEF IInv, AttemptInv
  <2>4. EstablishedFromOneRun'
    BY DEF IInv, EstablishedFromOneRun
  <2> QED BY <2>1, <2>2, <2>3, <2>4 DEF IInv
<1> QED BY <1>1, <1>2

LEMMA LoadsCertIInv == ASSUME IInv, LoadsCert PROVE IInv'
<1> USE DEF LoadsCert
<1>1. CASE Loadable("b_cert")
  <2> DEFINE id == Loads("cert", "b_cert", Nothing)
  <2>0. client' = [client EXCEPT !.at = "key", !.id = id]
    BY <1>1
  <2>1. /\ id \in Identity
        /\ id = [Nothing EXCEPT !["cert"] = disk["b_cert"]]
        /\ disk["b_cert"] <= caRuns
    BY <1>1, ClientType, LoadsType DEF Files
  <2>2. id.cert <= caRuns
    BY <2>1 DEF Nothing
  <2> HIDE DEF id
  <2>3. TypeOK' /\ DiskInv' /\ ServerInv'
    BY <2>0, <2>1, ClientKeeps, ClientType
  <2>4. ClientInv' /\ AttemptInv'
    BY <2>0, <2>2, ClientType DEF IInv, ClientInv, AttemptInv, fileVars
  <2>5. EstablishedFromOneRun'
    BY DEF IInv, EstablishedFromOneRun
  <2> QED BY <2>3, <2>4, <2>5 DEF IInv
<1>2. CASE ~Loadable("b_cert")
  BY <1>2, FailsIInv
<1> QED BY <1>1, <1>2

LEMMA LoadsKeyIInv == ASSUME IInv, LoadsKey PROVE IInv'
<1> USE DEF LoadsKey
<1>1. CASE Loadable("b_key")
  <2> DEFINE id == Loads("key", "b_key", client.id)
  <2>0. client' = [client EXCEPT !.at = "ca", !.id = id]
    BY <1>1, ClientType
  <2>1. /\ id \in Identity
        /\ id = [client.id EXCEPT !["key"] = disk["b_key"]]
    BY <1>1, ClientType, LoadsType DEF Files
  <2>2. id.cert <= caRuns
    BY <2>1, ClientType DEF IInv, ClientInv, Identity
  <2> HIDE DEF id
  <2>3. TypeOK' /\ DiskInv' /\ ServerInv'
    BY <2>0, <2>1, ClientKeeps, ClientType
  <2>4. ClientInv' /\ AttemptInv'
    BY <2>0, <2>2, ClientType DEF IInv, ClientInv, AttemptInv, fileVars
  <2>5. EstablishedFromOneRun'
    BY DEF IInv, EstablishedFromOneRun
  <2> QED BY <2>3, <2>4, <2>5 DEF IInv
<1>2. CASE ~Loadable("b_key")
  BY <1>2, FailsIInv
<1> QED BY <1>1, <1>2

LEMMA LoadsCaIInv == ASSUME IInv, LoadsCa PROVE IInv'
<1> USE DEF LoadsCa
<1>1. CASE Loadable("ca_cert") /\ client.id.cert = client.id.key
  <2> DEFINE id == Loads("ca", "ca_cert", client.id)
  <2>0. /\ client' = [client EXCEPT !.at = "attempt", !.id = id,
                       !.first = IF client.attempts = 1 THEN id ELSE @]
        /\ cache' = [cache EXCEPT ![client.url] = id]
    BY <1>1 DEF Attempts
  <2>1. /\ id \in Identity
        /\ id = [client.id EXCEPT !["ca"] = disk["ca_cert"]]
        /\ disk["ca_cert"] = caRuns
        /\ disk["ca_cert"] \in 1 .. MaxRuns
    BY <1>1, ClientType, LoadsType DEF Files
  <2>2. Sound(id) /\ id # Nothing
    BY <1>1, <2>1, ClientType DEF IInv, ClientInv, Identity, Sound, Nothing
  <2>3. client.attempts = 1
    BY DEF IInv, AttemptInv
  <2> HIDE DEF id
  <2>4. TypeOK' /\ DiskInv' /\ ServerInv'
    BY <2>0, <2>1, ClientKeeps, ClientType
  <2>5. ClientInv'
    BY <2>0, <2>2, ClientType DEF IInv, ClientInv, fileVars
  <2>6. AttemptInv'
    BY <2>0, <2>2, <2>3, ClientType DEF AttemptInv
  <2>7. EstablishedFromOneRun'
    BY DEF IInv, EstablishedFromOneRun
  <2> QED BY <2>4, <2>5, <2>6, <2>7 DEF IInv
<1>2. CASE ~(Loadable("ca_cert") /\ client.id.cert = client.id.key)
  BY <1>2, FailsIInv
<1> QED BY <1>1, <1>2

(* The client's CA is the server's certificate, and no certificate is      *)
(* newer than the CA loaded with it; with the server's CA the client's     *)
(* certificate, all four are one.                                          *)
LEMMA AttemptSucceedsIInv == ASSUME IInv, AttemptSucceeds PROVE IInv'
<1> USE ClientType DEF AttemptSucceeds
<1>0. server.id \in Identity /\ server.required \in BOOLEAN
  BY DEF IInv, TypeOK
<1>1. /\ established'.client = client.id /\ established'.server = server.id
      /\ established'.required = server.required
      /\ established' \in [client : Identity, server : Identity, required : BOOLEAN]
  BY <1>0
<1>2. TypeOK' /\ DiskInv' /\ ServerInv' /\ ClientInv' /\ AttemptInv'
  BY <1>1, ReturnsKeep
<1>3. EstablishedFromOneRun'
  <2>1. /\ client.id.ca = server.id.cert
        /\ server.required => server.id.ca = client.id.cert
        /\ Sound(client.id) /\ Sound(server.id)
    BY DEF IInv, ClientInv, ServerInv, Trusts
  <2>2. /\ client.id.cert <= server.id.cert
        /\ server.required
             => server.id.ca = server.id.cert /\ client.id.cert = server.id.cert
    BY <1>0, <2>1 DEF Sound, Identity
  <2> QED BY <1>1, <2>1, <2>2 DEF EstablishedFromOneRun, Sound
<1> QED BY <1>2, <1>3 DEF IInv

LEMMA AttemptFailsIInv == ASSUME IInv, AttemptFails PROVE IInv'
<1> USE ClientType, MaxRetriesAssumption DEF AttemptFails
<1>1. CASE client.attempts <= MaxRetries
  <2>0. client' = [client EXCEPT !.at = "lookup", !.attempts = @ + 1]
    BY <1>1
  <2>a. client.attempts + 1 \in 0 .. MaxRetries + 1
    BY <1>1
  <2>1. TypeOK' /\ DiskInv' /\ ServerInv'
    BY <2>0, <2>a, ClientKeeps
  <2>2. ClientInv' /\ AttemptInv'
    BY <2>0 DEF IInv, ClientInv, AttemptInv, fileVars
  <2>3. EstablishedFromOneRun'
    BY DEF IInv, EstablishedFromOneRun
  <2> QED BY <2>1, <2>2, <2>3 DEF IInv
<1>2. CASE ~(client.attempts <= MaxRetries)
  BY <1>2, FailsIInv
<1> QED BY <1>1, <1>2

LEMMA ClearCertCacheIInv == ASSUME IInv, ClearCertCache PROVE IInv'
<1> USE ClientType DEF ClearCertCache
<1>1. TypeOK' /\ DiskInv' /\ ServerInv'
  BY ClientKeeps
<1>2. ClientInv' /\ AttemptInv'
  BY DEF IInv, ClientInv, AttemptInv, fileVars, Sound, Nothing
<1>3. EstablishedFromOneRun'
  BY DEF IInv, EstablishedFromOneRun
<1> QED BY <1>1, <1>2, <1>3 DEF IInv

(***************************************************************************)
(* cert_check, and the theorems.                                           *)
(***************************************************************************)

LEMMA CheckIInv == ASSUME IInv, CheckNext PROVE IInv'
<1>1. UNCHANGED <<fileVars, server, clientVars>>
  BY DEF CheckNext, CheckLoadsCa, CheckVerifies
<1>2. check' \in [at : {"idle", "a", "b"}, ca : 0 .. MaxRuns,
                 verdict : {"none", "ok"}]
  <2>0. check \in [at : {"idle", "a", "b"}, ca : 0 .. MaxRuns,
                  verdict : {"none", "ok"}]
    BY DEF IInv, TypeOK
  <2>1. CASE CheckLoadsCa
    BY <2>0, <2>1, MaxRunsAssumption DEF CheckLoadsCa, Loadable, Runs
  <2>2. CASE CheckVerifies("a", "a_cert", "b")
    BY <2>0, <2>2, MaxRunsAssumption DEF CheckVerifies
  <2>3. CASE CheckVerifies("b", "b_cert", "idle")
    BY <2>0, <2>3, MaxRunsAssumption DEF CheckVerifies
  <2> QED BY <2>1, <2>2, <2>3 DEF CheckNext
<1>3. TypeOK'
  BY <1>1, <1>2 DEF IInv, TypeOK, fileVars, clientVars
<1>4. DiskInv' /\ ServerInv' /\ ClientInv' /\ AttemptInv' /\ EstablishedFromOneRun'
  BY <1>1 DEF IInv, DiskInv, ServerInv, ClientInv, AttemptInv, EstablishedFromOneRun,
              fileVars, clientVars
<1> QED BY <1>3, <1>4 DEF IInv

LEMMA NextIInv == IInv /\ [Next]_vars => IInv'
<1> SUFFICES ASSUME IInv, [Next]_vars PROVE IInv'
  OBVIOUS
<1>1. CASE SetupNext
  BY <1>1, SetupBeginsIInv, SetupOpensIInv, SetupWritesIInv, SetupKilledIInv,
     OperatorRemovesIInv DEF SetupNext
<1>2. CASE Expire
  BY <1>2, ExpireIInv
<1>3. CASE ServerNext
  BY <1>3, ServerLoadsIInv, ServerExitsIInv DEF ServerNext
<1>4. CASE ClientNext
  BY <1>4, ConnectIInv, LooksUpIInv, LoadsCertIInv, LoadsKeyIInv, LoadsCaIInv,
     AttemptSucceedsIInv, AttemptFailsIInv, ClearCertCacheIInv DEF ClientNext
<1>5. CASE CheckNext
  BY <1>5, CheckIInv
<1>6. CASE UNCHANGED vars
  BY <1>6 DEF vars, IInv, TypeOK, DiskInv, ServerInv, ClientInv, AttemptInv,
              EstablishedFromOneRun
<1> QED BY <1>1, <1>2, <1>3, <1>4, <1>5, <1>6 DEF Next

(* The invariant holds in every behaviour.                                 *)
THEOREM PkiInvariant == Safety => []IInv
  BY InitIInv, NextIInv, PTL DEF Safety

(* The variables keep their types.                                         *)
THEOREM PkiTypeOK == Safety => []TypeOK
<1>1. IInv => TypeOK
  BY DEF IInv
<1> QED BY <1>1, PkiInvariant, PTL

(* A connection only comes about with a server of the run of the client's  *)
(* CA, and between identities of one run where the server demands          *)
(* certificates, however loading, removing and renewing interleave         *)
(* (create_tls_config and create_tls_acceptor load the CA last).           *)
THEOREM PkiEstablishedFromOneRun == Safety => []EstablishedFromOneRun
<1>1. IInv => EstablishedFromOneRun
  BY DEF IInv
<1> QED BY <1>1, PkiInvariant, PTL

(* All attempts of one connect present the identity of the first.          *)
THEOREM PkiOneIdentityPerConnect == Safety => []OneIdentityPerConnect
<1>1. IInv => OneIdentityPerConnect
  BY DEF IInv, AttemptInv, OneIdentityPerConnect
<1> QED BY <1>1, PkiInvariant, PTL

(* Beside certificates that cert_check verifies, with no later run begun,  *)
(* a key is the certificate's or is missing, whichever files are removed   *)
(* when, although cert_check looks at no key.                              *)
THEOREM PkiVerdictCoversKeys == Safety => VerdictCoversKeys
<1>1. ASSUME IInv, Next, check.verdict = "none", check'.verdict = "ok", runs = check.ca
      PROVE  /\ disk["a_key"] \in {check.ca, Absent}
             /\ disk["b_key"] \in {check.ca, Absent}
  <2>1. check' # check
    BY <1>1
  <2>2. CheckNext
    BY <1>1, <2>1
       DEF Next, SetupNext, SetupBegins, SetupOpens, SetupWrites, SetupKilled,
           OperatorRemoves, Expire, ServerNext, ServerLoads, ServerExits, ClientNext,
           Connect, LooksUp, LoadsCert, LoadsKey, LoadsCa, AttemptSucceeds,
           AttemptFails, ClearCertCache, programs
  <2>3. CheckVerifies("b", "b_cert", "idle") /\ Verifies(check.ca, "b_cert")
    <3>0. check \in [at : {"idle", "a", "b"}, ca : 0 .. MaxRuns,
                    verdict : {"none", "ok"}]
      BY <1>1 DEF IInv, TypeOK
    <3>1. ~CheckLoadsCa
      BY <1>1 DEF CheckLoadsCa
    <3>2. ~CheckVerifies("a", "a_cert", "b")
      BY <1>1, <3>0 DEF CheckVerifies
    <3>3. CheckVerifies("b", "b_cert", "idle")
      BY <2>2, <3>1, <3>2 DEF CheckNext
    <3> QED BY <1>1, <3>0, <3>3 DEF CheckVerifies
  <2>4. disk["b_cert"] = runs /\ runs > 0
    BY <1>1, <2>3 DEF Verifies, Loadable, Runs
  <2> QED BY <1>1, <2>4 DEF IInv, DiskInv
<1>2. IInv /\ [Next]_vars
        => [check.verdict = "none" /\ check'.verdict = "ok" /\ runs = check.ca
              => /\ disk["a_key"] \in {check.ca, Absent}
                 /\ disk["b_key"] \in {check.ca, Absent}]_vars
  BY <1>1
<1> QED BY <1>2, PkiInvariant, PTL DEF Safety, VerdictCoversKeys
=============================================================================

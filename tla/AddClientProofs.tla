-------------------------- MODULE AddClientProofs --------------------------
(***************************************************************************)
(* Proofs about AddClient, for any clients and passwords, any killed runs  *)
(* and dry runs, as long as there is one run at a time.                    *)
(***************************************************************************)
EXTENDS AddClient, TLAPS

\* Where a run has not got to the append of a resource yet.
AtStart == {"ask", "bins", "client"}
BeforeConsole == AtStart \cup {"installer", "bconsole", "console"}
Ahead == [Client  |-> AtStart,
          Console |-> BeforeConsole,
          Job     |-> BeforeConsole \cup {"job"},
          Copy    |-> BeforeConsole \cup {"job", "copy"}]

\* Until it appends a resource, what the run has parsed about it is true.
SeesRight ==
  \A r \in Runner, k \in Kind :
    pc[r] \in Ahead[k] => (k \in seen[r] <=> conf[fd_fqdn[r]][k] > 0)

\* The client's bconsole.conf is written when the Console resource is appended.
ConsoleReady ==
  \A r \in Runner :
    pc[r] = "console" => /\ Lacking(r, "Console")
                         /\ filepw[fd_fqdn[r]]["Console"] = pw[r]

\* From the client's resource on there is one, unless it is a dry run's.
ClientThere ==
  \A r \in Runner :
    pc[r] \in Window \cup {"reload"} =>
      (conf[fd_fqdn[r]]["Client"] > 0 <=> ~ (Lacking(r, "Client") /\ dry[r]))

\* A run makes files for a new client only, with the password it has appended.
FilesFollow ==
  \A r \in Runner :
    /\ pc[r] \in {"keys", "fd"} => Lacking(r, "Client")
    /\ pc[r] = "fd" => "keys" \in kit[fd_fqdn[r]]
    /\ Halfway(r) => confpw[fd_fqdn[r]]["Client"] = pw[r]

IInv ==
  /\ AddTypeOK
  /\ SeesRight /\ ConsoleReady /\ ClientThere /\ FilesFollow
  /\ NoResourceTwice /\ ConsolesAgree /\ JobsHaveClients /\ ClientsComplete
-----------------------------------------------------------------------------
LEMMA InitTypes == AddInit => AddTypeOK
BY ClientAssumption DEF AddInit, AddTypeOK, NoSecrets, NoClient, NoPw, PC, Ended, Wish

LEMMA PasswordGenerated ==
  Password \ InUse # {} => generate_password \in Password
BY DEF generate_password

LEMMA AppendTypes ==
  ASSUME AddTypeOK, NEW r \in Runner, NEW k \in Kind, AppendTo(r, k) \/ KeepConf
  PROVE  /\ conf' \in [Client -> [Kind -> Nat]]
         /\ confpw' \in [Client -> [Secret -> Password \cup {NoPw}]]
<1>1. CASE AppendTo(r, k)
  <2> DEFINE c == fd_fqdn[r]
  <2>1. c \in Client /\ conf[c] \in [Kind -> Nat] /\ conf[c][k] \in Nat
    BY DEF AddTypeOK
  <2>2. conf' = [conf EXCEPT ![c] = [conf[c] EXCEPT ![k] = conf[c][k] + 1]]
    BY <1>1 DEF AppendTo
  <2>3. [conf[c] EXCEPT ![k] = conf[c][k] + 1] \in [Kind -> Nat]
    BY <2>1
  <2>4. conf' \in [Client -> [Kind -> Nat]]
    BY <2>1, <2>2, <2>3 DEF AddTypeOK
  <2>5. confpw' \in [Client -> [Secret -> Password \cup {NoPw}]]
    BY <1>1 DEF AppendTo, AddTypeOK
  <2> QED
    BY <2>4, <2>5
<1>2. CASE KeepConf
  BY <1>2 DEF KeepConf, AddTypeOK
<1> QED
  BY <1>1, <1>2

\* The variables of a run that goes on, or is over.
LEMMA ForgetTypes ==
  ASSUME AddTypeOK, NEW r \in Runner, NEW over \in PC, Forget(r, over)
  PROVE  /\ pc' \in [Runner -> PC] /\ dry' \in [Runner -> BOOLEAN]
         /\ fd_fqdn' \in [Runner -> Client] /\ wish' \in [Runner -> Wish]
         /\ seen' \in [Runner -> SUBSET Kind] /\ pw' \in [Runner -> Password \cup {NoPw}]
BY ClientAssumption DEF AddTypeOK, Forget, GoTo, NoClient, Wish

LEMMA GoTypes ==
  ASSUME AddTypeOK, NEW r \in Runner, NEW there \in PC, GoTo(r, there)
  PROVE  pc' \in [Runner -> PC]
BY DEF AddTypeOK, GoTo

LEMMA StepTypes ==
  ASSUME AddTypeOK, [AddNext]_addVars
  PROVE  AddTypeOK'
<1> USE DEF PC, Ended
<1>1. ASSUME NEW r \in Runner, NEW c \in Client, NEW d \in DryRuns, Start(r, c, d)
      PROVE  AddTypeOK'
  BY <1>1, GoTypes, ClientAssumption DEF AddTypeOK, Start, files, Defined
<1>2. ASSUME NEW r \in Runner, user_input(r) PROVE AddTypeOK'
  BY <1>2, GoTypes DEF AddTypeOK, user_input, files
<1>3. ASSUME NEW r \in Runner, Download(r) PROVE AddTypeOK'
  BY <1>3, GoTypes, PasswordGenerated DEF AddTypeOK, Download, files
<1>4. ASSUME NEW r \in Runner, NoDownload(r) PROVE AddTypeOK'
  BY <1>4, ForgetTypes DEF AddTypeOK, NoDownload, files
<1>5. ASSUME NEW r \in Runner, write_client_resource(r) PROVE AddTypeOK'
  <2>1. AppendTo(r, "Client") \/ KeepConf
    BY <1>5 DEF write_client_resource
  <2> QED
    BY <1>5, <2>1, AppendTypes, GoTypes DEF AddTypeOK, write_client_resource, run, Kind
<1>6. ASSUME NEW r \in Runner, create_windows_bat(r) PROVE AddTypeOK'
  BY <1>6, GoTypes DEF AddTypeOK, create_windows_bat, run
<1>7. ASSUME NEW r \in Runner, create_bconsole_conf(r) PROVE AddTypeOK'
  <2>1. pc' \in [Runner -> PC]
    BY <1>7, GoTypes DEF create_bconsole_conf
  <2>2. filepw' \in [Client -> [Secret -> Password \cup {NoPw}]]
    <3>1. CASE filepw' = filepw
      BY <3>1 DEF AddTypeOK
    <3>2. CASE filepw' = [filepw EXCEPT ![fd_fqdn[r]]["Console"] = pw[r]]
      BY <3>2 DEF AddTypeOK
    <3> QED
      BY <1>7, <3>1, <3>2 DEF create_bconsole_conf
  <2> QED
    BY <1>7, <2>1, <2>2 DEF AddTypeOK, create_bconsole_conf, run
<1>8. ASSUME NEW r \in Runner, AppendConsole(r) PROVE AddTypeOK'
  <2>1. AppendTo(r, "Console") \/ KeepConf
    BY <1>8 DEF AppendConsole
  <2> QED
    BY <1>8, <2>1, AppendTypes, GoTypes DEF AddTypeOK, AppendConsole, run, Kind
<1>9. ASSUME NEW r \in Runner, write_job(r) PROVE AddTypeOK'
  <2>1. AppendTo(r, "Job") \/ KeepConf
    BY <1>9 DEF write_job
  <2> QED
    BY <1>9, <2>1, AppendTypes, GoTypes DEF AddTypeOK, write_job, run, Kind
<1>10. ASSUME NEW r \in Runner, write_copy_job(r) PROVE AddTypeOK'
  <2>1. AppendTo(r, "Copy") \/ KeepConf
    BY <1>10 DEF write_copy_job
  <2> QED
    BY <1>10, <2>1, AppendTypes, GoTypes DEF AddTypeOK, write_copy_job, run, Kind
<1>11. ASSUME NEW r \in Runner, create_keys(r) PROVE AddTypeOK'
  BY <1>11, GoTypes DEF AddTypeOK, create_keys, run
<1>12. ASSUME NEW r \in Runner, create_filedaemon_files(r) PROVE AddTypeOK'
  BY <1>12, GoTypes DEF AddTypeOK, create_filedaemon_files, run
<1>13. ASSUME NEW r \in Runner, reload_director(r) PROVE AddTypeOK'
  BY <1>13, ForgetTypes DEF AddTypeOK, reload_director, Defined
<1>14. ASSUME NEW r \in Runner, KillRun(r) PROVE AddTypeOK'
  BY <1>14, ForgetTypes DEF AddTypeOK, KillRun, files
<1>15. ASSUME UNCHANGED addVars PROVE AddTypeOK'
  BY <1>15 DEF AddTypeOK, addVars, files, run
<1> QED
  BY <1>1, <1>2, <1>3, <1>4, <1>5, <1>6, <1>7, <1>8, <1>9, <1>10, <1>11, <1>12, <1>13,
     <1>14, <1>15 DEF AddNext, Run, Step

\* Every variable keeps its type, for any clients, runs and faults.
THEOREM AddTypeCorrect == AddSpec => []AddTypeOK
<1>1. AddInit => AddTypeOK
  BY InitTypes
<1>2. AddTypeOK /\ [AddNext]_addVars => AddTypeOK'
  BY StepTypes
<1> QED
  BY <1>1, <1>2, PTL DEF AddSpec

-----------------------------------------------------------------------------
(***************************************************************************)
(* One run at a time.                                                      *)
(***************************************************************************)
LEMMA InitInv == AddInit => IInv
BY InitTypes DEF AddInit, IInv, Ended, SeesRight, ConsoleReady, ClientThere, FilesFollow, Halfway,
   Window, Ahead, AtStart, BeforeConsole, NoResourceTwice, Valid, ConsolesAgree,
   JobsHaveClients, ClientsComplete, Kind

\* What an append changes, and what it leaves alone.
LEMMA AppendEffect ==
  ASSUME AddTypeOK, NEW r \in Runner, NEW k \in Kind, AppendTo(r, k)
  PROVE  /\ \A c \in Client, l \in Kind :
              conf'[c][l] = IF c = fd_fqdn[r] /\ l = k THEN conf[c][l] + 1 ELSE conf[c][l]
         /\ \A c \in Client, l \in Secret :
              confpw'[c][l] = IF c = fd_fqdn[r] /\ l = k THEN pw[r] ELSE confpw[c][l]
<1>1. fd_fqdn[r] \in Client /\ Secret \subseteq Kind
  BY DEF AddTypeOK, Secret, Kind
<1>2. \A c \in Client, l \in Kind :
        conf'[c][l] = IF c = fd_fqdn[r] /\ l = k THEN conf[c][l] + 1 ELSE conf[c][l]
  BY <1>1 DEF AddTypeOK, AppendTo
<1>3. \A c \in Client, l \in Secret :
        confpw'[c][l] = IF c = fd_fqdn[r] /\ l = k THEN pw[r] ELSE confpw[c][l]
  BY <1>1 DEF AddTypeOK, AppendTo
<1> QED
  BY <1>2, <1>3

LEMMA StepInv ==
  ASSUME Alone, IInv, AddTypeOK', [AddNext]_addVars
  PROVE  IInv'
<1> USE DEF GoTo, At, Lacking, Kind, Secret, Window, Halfway, Ahead, AtStart, BeforeConsole,
            NoResourceTwice, Valid, files, run
<1> DEFINE Parts == /\ SeesRight /\ ConsoleReady /\ ClientThere /\ FilesFollow
                    /\ NoResourceTwice /\ ConsolesAgree /\ JobsHaveClients
                    /\ ClientsComplete
<1> SUFFICES Parts'
  BY DEF IInv
<1>0. Parts /\ AddTypeOK
  BY DEF IInv
<1> HIDE DEF Parts
<1>1. ASSUME NEW r \in Runner, NEW c \in Client, NEW d \in DryRuns, Start(r, c, d)
      PROVE  Parts'
  <2>0. /\ \A x \in Runner : x = r
        /\ fd_fqdn[r] \in Client
    BY <1>0 DEF Alone, AddTypeOK
  <2>1. SeesRight'
    BY <1>0, <1>1, <2>0 DEF Parts, AddTypeOK, Start, Ended, Defined, SeesRight
  <2>2. ConsoleReady'
    BY <1>0, <1>1, <2>0 DEF Parts, AddTypeOK, Start, Ended, Defined, ConsoleReady
  <2>3. ClientThere'
    BY <1>0, <1>1, <2>0 DEF Parts, AddTypeOK, Start, Ended, Defined, ClientThere
  <2>4. FilesFollow'
    BY <1>0, <1>1, <2>0 DEF Parts, AddTypeOK, Start, Ended, Defined, FilesFollow
  <2>5. NoResourceTwice'
    BY <1>0, <1>1, <2>0 DEF Parts, AddTypeOK, Start, Ended, Defined
  <2>6. ConsolesAgree'
    BY <1>0, <1>1, <2>0 DEF Parts, AddTypeOK, Start, Ended, Defined, ConsolesAgree
  <2>7. JobsHaveClients'
    BY <1>0, <1>1, <2>0 DEF Parts, AddTypeOK, Start, Ended, Defined, JobsHaveClients
  <2>8. ClientsComplete'
    BY <1>0, <1>1, <2>0 DEF Parts, AddTypeOK, Start, Ended, Defined, ClientsComplete
  <2> QED
    BY <2>1, <2>2, <2>3, <2>4, <2>5, <2>6, <2>7, <2>8 DEF Parts
<1>2. ASSUME NEW r \in Runner, user_input(r) PROVE Parts'
  BY <1>0, <1>2 DEF Parts, Alone, AddTypeOK, user_input, SeesRight, ConsoleReady,
     ClientThere, FilesFollow, ConsolesAgree, JobsHaveClients, ClientsComplete
<1>3. ASSUME NEW r \in Runner, Download(r) PROVE Parts'
  BY <1>0, <1>3 DEF Parts, Alone, AddTypeOK, Download, SeesRight, ConsoleReady,
     ClientThere, FilesFollow, ConsolesAgree, JobsHaveClients, ClientsComplete
<1>4. ASSUME NEW r \in Runner, NoDownload(r) PROVE Parts'
  BY <1>0, <1>4 DEF Parts, Alone, AddTypeOK, NoDownload, Forget, SeesRight, ConsoleReady,
     ClientThere, FilesFollow, ConsolesAgree, JobsHaveClients, ClientsComplete
<1>5. ASSUME NEW r \in Runner, write_client_resource(r) PROVE Parts'
  <2>1. /\ \A x \in Runner : x = r
        /\ fd_fqdn[r] \in Client
        /\ \A c \in Client, l \in Kind : conf[c][l] \in Nat
    BY <1>0 DEF Alone, AddTypeOK
  <2>2. /\ pc[r] = "client" /\ pc'[r] = "installer"
        /\ UNCHANGED <<loaded, filepw, kit, dry, fd_fqdn, wish, seen, pw, torn>>
    BY <1>0, <1>5 DEF AddTypeOK, write_client_resource
  <2>3. CASE Lacking(r, "Client") /\ ~ dry[r]
    <3>0. /\ \A c \in Client, l \in Kind :
               conf'[c][l] = IF c = fd_fqdn[r] /\ l = "Client" THEN conf[c][l] + 1
                                                             ELSE conf[c][l]
          /\ \A c \in Client, l \in Secret :
               confpw'[c][l] = IF c = fd_fqdn[r] /\ l = "Client" THEN pw[r] ELSE confpw[c][l]
      BY <1>0, <1>5, <2>3, AppendEffect DEF write_client_resource
    <3>1. SeesRight'
      BY <1>0, <2>1, <2>2, <2>3, <3>0 DEF Parts, SeesRight
    <3>2. ConsoleReady'
      BY <1>0, <2>1, <2>2, <2>3, <3>0 DEF Parts, ConsoleReady
    <3>3. ClientThere'
      BY <1>0, <2>1, <2>2, <2>3, <3>0 DEF Parts, ClientThere
    <3>4. FilesFollow'
      BY <1>0, <2>1, <2>2, <2>3, <3>0 DEF Parts, FilesFollow
    <3>5. NoResourceTwice'
      <4>1. conf[fd_fqdn[r]]["Client"] = 0
        BY <1>0, <2>1, <2>2, <2>3 DEF Parts, SeesRight
      <4> QED
        BY <1>0, <2>1, <3>0, <4>1 DEF Parts
    <3>6. ConsolesAgree'
      BY <1>0, <2>1, <2>2, <2>3, <3>0 DEF Parts, ConsolesAgree
    <3>7. JobsHaveClients'
      BY <1>0, <2>1, <2>2, <2>3, <3>0 DEF Parts, JobsHaveClients
    <3>8. ClientsComplete'
      BY <1>0, <2>1, <2>2, <2>3, <3>0 DEF Parts, ClientsComplete
    <3> QED
      BY <3>1, <3>2, <3>3, <3>4, <3>5, <3>6, <3>7, <3>8 DEF Parts
  <2>4. CASE ~ (Lacking(r, "Client") /\ ~ dry[r])
    <3>0. UNCHANGED <<conf, confpw>>
      BY <1>5, <2>4 DEF write_client_resource, KeepConf
    <3> QED
      BY <1>0, <2>1, <2>2, <2>4, <3>0 DEF Parts, SeesRight, ConsoleReady, ClientThere, FilesFollow,
         ConsolesAgree, JobsHaveClients, ClientsComplete
  <2> QED
    BY <2>3, <2>4
<1>6. ASSUME NEW r \in Runner, create_windows_bat(r) PROVE Parts'
  BY <1>0, <1>6 DEF Parts, Alone, AddTypeOK, create_windows_bat, SeesRight, ConsoleReady,
     ClientThere, FilesFollow, ConsolesAgree, JobsHaveClients, ClientsComplete
<1>7. ASSUME NEW r \in Runner, create_bconsole_conf(r) PROVE Parts'
  <2>1. /\ \A x \in Runner : x = r
        /\ fd_fqdn[r] \in Client
    BY <1>0 DEF Alone, AddTypeOK
  <2>2. /\ pc[r] = "bconsole"
        /\ UNCHANGED <<conf, loaded, confpw, kit, dry, fd_fqdn, wish, seen, pw, torn>>
    BY <1>7 DEF create_bconsole_conf
  <2>3. CASE WantsConsole(r)
    <3>0. /\ pc'[r] = "console"
          /\ \A c \in Client : filepw'[c]["Client"] = filepw[c]["Client"]
          /\ \A c \in Client : filepw'[c]["Console"] = IF c = fd_fqdn[r] THEN pw[r]
                                                       ELSE filepw[c]["Console"]
      <4>1. /\ pc'[r] = "console"
            /\ filepw' = [filepw EXCEPT ![fd_fqdn[r]]["Console"] = pw[r]]
        BY <1>0, <1>7, <2>3 DEF AddTypeOK, create_bconsole_conf
      <4>2. filepw \in [Client -> [Secret -> Password \cup {NoPw}]]
        BY <1>0 DEF AddTypeOK
      <4>3. \A c \in Client :
              filepw'[c] = IF c = fd_fqdn[r] THEN [filepw[c] EXCEPT !["Console"] = pw[r]]
                           ELSE filepw[c]
        BY <2>1, <4>1, <4>2
      <4> QED
        BY <2>1, <4>1, <4>2, <4>3
    <3>1. SeesRight'
      BY <1>0, <2>1, <2>2, <2>3, <3>0 DEF Parts, WantsConsole, SeesRight
    <3>2. ConsoleReady'
      BY <1>0, <2>1, <2>2, <2>3, <3>0 DEF Parts, WantsConsole, ConsoleReady
    <3>3. ClientThere'
      BY <1>0, <2>1, <2>2, <2>3, <3>0 DEF Parts, WantsConsole, ClientThere
    <3>4. FilesFollow'
      BY <1>0, <2>1, <2>2, <2>3, <3>0 DEF Parts, WantsConsole, FilesFollow
    <3>5. NoResourceTwice'
      BY <1>0, <2>1, <2>2, <2>3, <3>0 DEF Parts
    <3>6. ConsolesAgree'
      BY <1>0, <2>1, <2>2, <2>3, <3>0 DEF Parts, WantsConsole, SeesRight, ConsolesAgree
    <3>7. JobsHaveClients'
      BY <1>0, <2>1, <2>2, <2>3, <3>0 DEF Parts, WantsConsole, JobsHaveClients
    <3>8. ClientsComplete'
      BY <1>0, <2>1, <2>2, <2>3, <3>0 DEF Parts, WantsConsole, ClientsComplete
    <3> QED
      BY <3>1, <3>2, <3>3, <3>4, <3>5, <3>6, <3>7, <3>8 DEF Parts
  <2>4. CASE ~ WantsConsole(r)
    <3>0. pc'[r] = "job" /\ UNCHANGED filepw
      BY <1>0, <1>7, <2>4 DEF AddTypeOK, create_bconsole_conf
    <3>1. SeesRight'
      BY <1>0, <2>1, <2>2, <3>0 DEF Parts, SeesRight
    <3>2. ConsoleReady'
      BY <1>0, <2>1, <2>2, <3>0 DEF Parts, ConsoleReady
    <3>3. ClientThere'
      BY <1>0, <2>1, <2>2, <3>0 DEF Parts, ClientThere
    <3>4. FilesFollow'
      BY <1>0, <2>1, <2>2, <3>0 DEF Parts, FilesFollow
    <3>5. NoResourceTwice'
      BY <1>0, <2>1, <2>2, <3>0 DEF Parts
    <3>6. ConsolesAgree'
      BY <1>0, <2>1, <2>2, <3>0 DEF Parts, ConsolesAgree
    <3>7. JobsHaveClients'
      BY <1>0, <2>1, <2>2, <3>0 DEF Parts, JobsHaveClients
    <3>8. ClientsComplete'
      BY <1>0, <2>1, <2>2, <3>0 DEF Parts, ClientsComplete
    <3> QED
      BY <3>1, <3>2, <3>3, <3>4, <3>5, <3>6, <3>7, <3>8 DEF Parts
  <2> QED
    BY <2>3, <2>4
<1>8. ASSUME NEW r \in Runner, AppendConsole(r) PROVE Parts'
  <2>1. /\ \A x \in Runner : x = r
        /\ fd_fqdn[r] \in Client
        /\ \A c \in Client, l \in Kind : conf[c][l] \in Nat
    BY <1>0 DEF Alone, AddTypeOK
  <2>2. /\ pc[r] = "console" /\ pc'[r] = "job"
        /\ UNCHANGED <<loaded, filepw, kit, dry, fd_fqdn, wish, seen, pw, torn>>
    BY <1>0, <1>8 DEF AddTypeOK, AppendConsole
  <2>3. CASE Lacking(r, "Console")
    <3>0. /\ \A c \in Client, l \in Kind :
               conf'[c][l] = IF c = fd_fqdn[r] /\ l = "Console" THEN conf[c][l] + 1
                                                             ELSE conf[c][l]
          /\ \A c \in Client, l \in Secret :
               confpw'[c][l] = IF c = fd_fqdn[r] /\ l = "Console" THEN pw[r] ELSE confpw[c][l]
      BY <1>0, <1>8, <2>3, AppendEffect DEF AppendConsole
    <3>1. SeesRight'
      BY <1>0, <2>1, <2>2, <2>3, <3>0 DEF Parts, SeesRight
    <3>2. ConsoleReady'
      BY <1>0, <2>1, <2>2, <2>3, <3>0 DEF Parts, ConsoleReady
    <3>3. ClientThere'
      BY <1>0, <2>1, <2>2, <2>3, <3>0 DEF Parts, ClientThere
    <3>4. FilesFollow'
      BY <1>0, <2>1, <2>2, <2>3, <3>0 DEF Parts, FilesFollow
    <3>5. NoResourceTwice'
      <4>1. conf[fd_fqdn[r]]["Console"] = 0
        BY <1>0, <2>1, <2>2, <2>3 DEF Parts, SeesRight
      <4> QED
        BY <1>0, <2>1, <3>0, <4>1 DEF Parts
    <3>6. ConsolesAgree'
      BY <1>0, <2>1, <2>2, <2>3, <3>0 DEF Parts, ConsoleReady, ConsolesAgree
    <3>7. JobsHaveClients'
      BY <1>0, <2>1, <2>2, <2>3, <3>0 DEF Parts, JobsHaveClients
    <3>8. ClientsComplete'
      BY <1>0, <2>1, <2>2, <2>3, <3>0 DEF Parts, ClientsComplete
    <3> QED
      BY <3>1, <3>2, <3>3, <3>4, <3>5, <3>6, <3>7, <3>8 DEF Parts
  <2>4. CASE ~ (Lacking(r, "Console"))
    <3>0. UNCHANGED <<conf, confpw>>
      BY <1>8, <2>4 DEF AppendConsole, KeepConf
    <3> QED
      BY <1>0, <2>1, <2>2, <2>4, <3>0 DEF Parts, SeesRight, ConsoleReady, ClientThere, FilesFollow,
         ConsolesAgree, JobsHaveClients, ClientsComplete
  <2> QED
    BY <2>3, <2>4
<1>9. ASSUME NEW r \in Runner, write_job(r) PROVE Parts'
  <2>1. /\ \A x \in Runner : x = r
        /\ fd_fqdn[r] \in Client
        /\ \A c \in Client, l \in Kind : conf[c][l] \in Nat
    BY <1>0 DEF Alone, AddTypeOK
  <2>2. /\ pc[r] = "job" /\ pc'[r] = "copy"
        /\ UNCHANGED <<loaded, filepw, kit, dry, fd_fqdn, wish, seen, pw, torn>>
    BY <1>0, <1>9 DEF AddTypeOK, write_job
  <2>3. CASE WantsJob(r, "Job")
    <3>0. /\ \A c \in Client, l \in Kind :
               conf'[c][l] = IF c = fd_fqdn[r] /\ l = "Job" THEN conf[c][l] + 1
                                                             ELSE conf[c][l]
          /\ \A c \in Client, l \in Secret :
               confpw'[c][l] = IF c = fd_fqdn[r] /\ l = "Job" THEN pw[r] ELSE confpw[c][l]
      BY <1>0, <1>9, <2>3, AppendEffect DEF write_job
    <3>1. SeesRight'
      BY <1>0, <2>1, <2>2, <2>3, <3>0 DEF WantsJob, Parts, SeesRight
    <3>2. ConsoleReady'
      BY <1>0, <2>1, <2>2, <2>3, <3>0 DEF WantsJob, Parts, ConsoleReady
    <3>3. ClientThere'
      BY <1>0, <2>1, <2>2, <2>3, <3>0 DEF WantsJob, Parts, ClientThere
    <3>4. FilesFollow'
      BY <1>0, <2>1, <2>2, <2>3, <3>0 DEF WantsJob, Parts, FilesFollow
    <3>5. NoResourceTwice'
      <4>1. conf[fd_fqdn[r]]["Job"] = 0
        BY <1>0, <2>1, <2>2, <2>3 DEF WantsJob, Parts, SeesRight
      <4> QED
        BY <1>0, <2>1, <3>0, <4>1 DEF Parts
    <3>6. ConsolesAgree'
      BY <1>0, <2>1, <2>2, <2>3, <3>0 DEF WantsJob, Parts, ConsolesAgree
    <3>7. JobsHaveClients'
      BY <1>0, <2>1, <2>2, <2>3, <3>0 DEF WantsJob, Parts, ClientThere, JobsHaveClients
    <3>8. ClientsComplete'
      BY <1>0, <2>1, <2>2, <2>3, <3>0 DEF WantsJob, Parts, ClientsComplete
    <3> QED
      BY <3>1, <3>2, <3>3, <3>4, <3>5, <3>6, <3>7, <3>8 DEF Parts
  <2>4. CASE ~ (WantsJob(r, "Job"))
    <3>0. UNCHANGED <<conf, confpw>>
      BY <1>9, <2>4 DEF write_job, KeepConf
    <3> QED
      BY <1>0, <2>1, <2>2, <2>4, <3>0 DEF Parts, SeesRight, ConsoleReady, ClientThere, FilesFollow,
         ConsolesAgree, JobsHaveClients, ClientsComplete
  <2> QED
    BY <2>3, <2>4
<1>10. ASSUME NEW r \in Runner, write_copy_job(r) PROVE Parts'
  <2>1. /\ \A x \in Runner : x = r
        /\ fd_fqdn[r] \in Client
        /\ \A c \in Client, l \in Kind : conf[c][l] \in Nat
    BY <1>0 DEF Alone, AddTypeOK
  <2>2. /\ pc[r] = "copy" /\ pc'[r] = (IF Lacking(r, "Client") THEN "keys" ELSE "reload")
        /\ UNCHANGED <<loaded, filepw, kit, dry, fd_fqdn, wish, seen, pw, torn>>
    BY <1>0, <1>10 DEF AddTypeOK, write_copy_job
  <2>3. CASE WantsJob(r, "Copy")
    <3>0. /\ \A c \in Client, l \in Kind :
               conf'[c][l] = IF c = fd_fqdn[r] /\ l = "Copy" THEN conf[c][l] + 1
                                                             ELSE conf[c][l]
          /\ \A c \in Client, l \in Secret :
               confpw'[c][l] = IF c = fd_fqdn[r] /\ l = "Copy" THEN pw[r] ELSE confpw[c][l]
      BY <1>0, <1>10, <2>3, AppendEffect DEF write_copy_job
    <3>1. SeesRight'
      BY <1>0, <2>1, <2>2, <2>3, <3>0 DEF WantsJob, Parts, SeesRight
    <3>2. ConsoleReady'
      BY <1>0, <2>1, <2>2, <2>3, <3>0 DEF WantsJob, Parts, ConsoleReady
    <3>3. ClientThere'
      BY <1>0, <2>1, <2>2, <2>3, <3>0 DEF WantsJob, Parts, ClientThere
    <3>4. FilesFollow'
      BY <1>0, <2>1, <2>2, <2>3, <3>0 DEF WantsJob, Parts, FilesFollow
    <3>5. NoResourceTwice'
      <4>1. conf[fd_fqdn[r]]["Copy"] = 0
        BY <1>0, <2>1, <2>2, <2>3 DEF WantsJob, Parts, SeesRight
      <4> QED
        BY <1>0, <2>1, <3>0, <4>1 DEF Parts
    <3>6. ConsolesAgree'
      BY <1>0, <2>1, <2>2, <2>3, <3>0 DEF WantsJob, Parts, ConsolesAgree
    <3>7. JobsHaveClients'
      BY <1>0, <2>1, <2>2, <2>3, <3>0 DEF WantsJob, Parts, ClientThere, JobsHaveClients
    <3>8. ClientsComplete'
      BY <1>0, <2>1, <2>2, <2>3, <3>0 DEF WantsJob, Parts, ClientsComplete
    <3> QED
      BY <3>1, <3>2, <3>3, <3>4, <3>5, <3>6, <3>7, <3>8 DEF Parts
  <2>4. CASE ~ (WantsJob(r, "Copy"))
    <3>0. UNCHANGED <<conf, confpw>>
      BY <1>10, <2>4 DEF write_copy_job, KeepConf
    <3> QED
      BY <1>0, <2>1, <2>2, <2>4, <3>0 DEF Parts, SeesRight, ConsoleReady, ClientThere, FilesFollow,
         ConsolesAgree, JobsHaveClients, ClientsComplete
  <2> QED
    BY <2>3, <2>4
<1>11. ASSUME NEW r \in Runner, create_keys(r) PROVE Parts'
  BY <1>0, <1>11 DEF Parts, Alone, AddTypeOK, create_keys, SeesRight, ConsoleReady,
     ClientThere, FilesFollow, ConsolesAgree, JobsHaveClients, ClientsComplete
<1>12. ASSUME NEW r \in Runner, create_filedaemon_files(r) PROVE Parts'
  BY <1>0, <1>12 DEF Parts, Alone, AddTypeOK, create_filedaemon_files, SeesRight, ConsoleReady,
     ClientThere, FilesFollow, ConsolesAgree, JobsHaveClients, ClientsComplete
<1>13. ASSUME NEW r \in Runner, reload_director(r) PROVE Parts'
  BY <1>0, <1>13 DEF Parts, Alone, AddTypeOK, reload_director, Forget, SeesRight, ConsoleReady,
     ClientThere, FilesFollow, ConsolesAgree, JobsHaveClients, ClientsComplete
<1>14. ASSUME NEW r \in Runner, KillRun(r) PROVE Parts'
  BY <1>0, <1>14 DEF Parts, Alone, AddTypeOK, KillRun, Forget, SeesRight, ConsoleReady,
     ClientThere, FilesFollow, ConsolesAgree, JobsHaveClients, ClientsComplete
<1>15. ASSUME UNCHANGED addVars PROVE Parts'
  BY <1>0, <1>15 DEF Parts, addVars, SeesRight, ConsoleReady,
     ClientThere, FilesFollow, ConsolesAgree, JobsHaveClients, ClientsComplete
<1> QED
  BY <1>1, <1>2, <1>3, <1>4, <1>5, <1>6, <1>7, <1>8, <1>9, <1>10, <1>11, <1>12, <1>13,
     <1>14, <1>15 DEF AddNext, Run, Step

\* The inductive invariant holds as long as runs are made one at a time.
THEOREM AddInvariant ==
  ASSUME Alone
  PROVE  AddSpec => []IInv
<1>1. AddInit => IInv
  BY InitInv
<1>2. IInv /\ [AddNext]_addVars => IInv'
  <2> SUFFICES ASSUME IInv, [AddNext]_addVars PROVE IInv'
    OBVIOUS
  <2>1. AddTypeOK'
    BY StepTypes DEF IInv
  <2> QED
    BY <2>1, StepInv
<1> QED
  BY <1>1, <1>2, PTL DEF AddSpec

\* However often runs are killed and started again, no resource of any client is
\* defined twice.
THEOREM NoResourceTwiceEver ==
  ASSUME Alone
  PROVE  AddSpec => []NoResourceTwice
<1>1. IInv => NoResourceTwice
  BY DEF IInv
<1> QED
  BY <1>1, AddInvariant, PTL

\* A client's console has the password the director expects of it, whichever run
\* wrote the one and whichever the other.
THEOREM ConsolesAgreeAlways ==
  ASSUME Alone
  PROVE  AddSpec => []ConsolesAgree
<1>1. IInv => ConsolesAgree
  BY DEF IInv
<1> QED
  BY <1>1, AddInvariant, PTL

\* No kill leaves the director with a job whose client it does not have.
THEOREM JobsHaveClientsAlways ==
  ASSUME Alone
  PROVE  AddSpec => []JobsHaveClients
<1>1. IInv => JobsHaveClients
  BY DEF IInv
<1> QED
  BY <1>1, AddInvariant, PTL

\* The keys and the file daemon's password of a client the director knows fit its
\* resource, but for the clients at which a run was killed half way.
THEOREM ClientsSound ==
  ASSUME Alone
  PROVE  AddSpec => []ClientsComplete
<1>1. IInv => ClientsComplete
  BY DEF IInv
<1> QED
  BY <1>1, AddInvariant, PTL
=============================================================================

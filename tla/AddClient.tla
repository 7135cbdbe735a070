----------------------------- MODULE AddClient -----------------------------
(***************************************************************************)
(* bacula_add_client.py: add a client to the director's configuration and  *)
(* make the files the client is to be set up with.  A run parses the       *)
(* configuration once, asks the administrator, and then appends resources  *)
(* to up to four files and writes up to two sets of client files, one      *)
(* after another; it may be killed between any two, and started again.     *)
(*                                                                         *)
(* Jobs are those of one file set: another one has jobs of another name.   *)
(* A password stands for the two that one run generates, the file daemon's *)
(* and the console's: passwords are only compared, and never with one of   *)
(* the other sort.                                                         *)
(***************************************************************************)
EXTENDS Integers, FiniteSets

CONSTANTS
  Client,       \* The clients' names, fd_fqdn.
  Runner,       \* Runs that may be in progress at once.
  DryRuns,      \* The values of -dry_run the runs are started with.
  MaxPassword,  \* Bound: the passwords in use at one time.
  AddFaults     \* "crash": a run is killed; "download": there is no network.

ASSUME ClientAssumption ==
  /\ Client # {}
  /\ DryRuns \subseteq BOOLEAN
  /\ MaxPassword \in Nat
  /\ AddFaults \subseteq {"crash", "download"}

Kind == {"Client", "Console", "Job", "Copy"}
Wish == SUBSET {"Console", "Job", "Copy"}
NoPw == 0
Password == 1..MaxPassword

VARIABLES
  conf,     \* How many resources of a kind the files define for a client.
  loaded,   \* The resources the director works with.
  confpw,   \* The passwords in the client's Client and Console resources.
  filepw,   \* Those in the files for the client: bareos-dir.conf of its file
            \* daemon ("Client") and bconsole.conf ("Console").
  kit,      \* What else the client's directory holds.
  pc, dry, fd_fqdn, wish, seen, pw,  \* The runs.
  torn      \* History: the clients at whose resource a run was killed before it
            \* had made their files.

files == <<conf, loaded, confpw, filepw, kit>>
run == <<dry, fd_fqdn, wish, seen, pw>>
addVars == <<files, pc, run, torn>>

\* Where a run is: at its next piece of work, or over, of itself or because it was
\* killed.
Ended == {"idle", "killed"}
PC == Ended \cup {"ask", "bins", "client", "installer", "bconsole", "console", "job",
       "copy", "keys", "fd", "reload"}

Secret == {"Client", "Console"}

AddTypeOK ==
  /\ conf \in [Client -> [Kind -> Nat]]
  /\ loaded \in [Client -> SUBSET Kind]
  /\ confpw \in [Client -> [Secret -> Password \cup {NoPw}]]
  /\ filepw \in [Client -> [Secret -> Password \cup {NoPw}]]
  /\ kit \in [Client -> SUBSET {"installer", "keys"}]
  /\ pc \in [Runner -> PC]
  /\ dry \in [Runner -> BOOLEAN]
  /\ fd_fqdn \in [Runner -> Client]
  /\ wish \in [Runner -> Wish]
  /\ seen \in [Runner -> SUBSET Kind]
  /\ pw \in [Runner -> Password \cup {NoPw}]
  /\ torn \subseteq Client

NoClient == CHOOSE c \in Client : TRUE
NoSecrets == [k \in Secret |-> NoPw]

AddInit ==
  /\ conf = [c \in Client |-> [k \in Kind |-> 0]]
  /\ loaded = [c \in Client |-> {}]
  /\ confpw = [c \in Client |-> NoSecrets]
  /\ filepw = [c \in Client |-> NoSecrets]
  /\ kit = [c \in Client |-> {}]
  /\ pc = [r \in Runner |-> "idle"]
  /\ dry = [r \in Runner |-> FALSE]
  /\ fd_fqdn = [r \in Runner |-> NoClient]
  /\ wish = [r \in Runner |-> {}]
  /\ seen = [r \in Runner |-> {}]
  /\ pw = [r \in Runner |-> NoPw]
  /\ torn = {}

Defined(c) == {k \in Kind : conf[c][k] > 0}

\* The director refuses a configuration that defines a resource twice, and
\* `bareos-dir -xc` fails on it: bacula_parse returns None and a run ends of an
\* AttributeError before it has written anything.
Valid == \A c \in Client, k \in Kind : conf[c][k] <= 1

At(r, here) == pc[r] = here
GoTo(r, there) == pc' = [pc EXCEPT ![r] = there]

-----------------------------------------------------------------------------
(***************************************************************************)
(* A run.                                                                  *)
(***************************************************************************)
Start(r, c, d) ==
  /\ pc[r] \in Ended
  /\ Valid
  /\ GoTo(r, "ask")
  /\ dry' = [dry EXCEPT ![r] = d]
  /\ fd_fqdn' = [fd_fqdn EXCEPT ![r] = c]
  /\ seen' = [seen EXCEPT ![r] = Defined(c)]
  /\ UNCHANGED <<files, wish, pw, torn>>

\* The administrator takes his time.
user_input(r) ==
  /\ At(r, "ask")
  /\ \E w \in Wish : wish' = [wish EXCEPT ![r] = w]
  /\ GoTo(r, "bins")
  /\ UNCHANGED <<files, dry, fd_fqdn, seen, pw, torn>>

InUse ==
  {pw[r] : r \in Runner}
    \cup UNION {{confpw[c][k], filepw[c][k]} : c \in Client, k \in Secret}

\* Variant: re.escape and the decoding leave nothing of it but a number of bytes.
generate_passwordBytes == MaxPassword + 1
generate_password == CHOOSE p \in Password \ InUse : TRUE

\* The binaries are there or can be downloaded.
Download(r) ==
  /\ At(r, "bins")
  /\ Password \ InUse # {}
  /\ pw' = [pw EXCEPT ![r] = generate_password]
  /\ GoTo(r, "client")
  /\ UNCHANGED <<files, dry, fd_fqdn, wish, seen, torn>>

\* The locals of a run that is over.
Forget(r, over) ==
  /\ GoTo(r, over)
  /\ dry' = [dry EXCEPT ![r] = FALSE]
  /\ fd_fqdn' = [fd_fqdn EXCEPT ![r] = NoClient]
  /\ wish' = [wish EXCEPT ![r] = {}]
  /\ seen' = [seen EXCEPT ![r] = {}]
  /\ pw' = [pw EXCEPT ![r] = NoPw]

NoDownload(r) ==
  /\ "download" \in AddFaults
  /\ At(r, "bins")
  /\ Forget(r, "idle")
  /\ UNCHANGED <<files, torn>>

\* A file is opened with "a" and a resource appended to it.
AppendTo(r, k) ==
  LET c == fd_fqdn[r] IN
  /\ conf' = [conf EXCEPT ![c][k] = @ + 1]
  /\ confpw' = IF k \in Secret THEN [confpw EXCEPT ![c][k] = pw[r]] ELSE confpw

\* Variant: the look at the configuration is forgotten.
LackingAlways(r, k) == TRUE
Lacking(r, k) == k \notin seen[r]

KeepConf == UNCHANGED <<conf, confpw>>

write_client_resource(r) ==
  /\ At(r, "client")
  /\ IF Lacking(r, "Client") /\ ~ dry[r] THEN AppendTo(r, "Client") ELSE KeepConf
  /\ GoTo(r, "installer")
  /\ UNCHANGED <<loaded, filepw, kit, run, torn>>

create_windows_bat(r) ==
  /\ At(r, "installer")
  /\ kit' = [kit EXCEPT ![fd_fqdn[r]] = @ \cup {"installer"}]
  /\ GoTo(r, "bconsole")
  /\ UNCHANGED <<conf, loaded, confpw, filepw, run, torn>>

\* Variant: bconsole.conf is written before the configuration is looked at.
WantsConsoleAlways(r) == "Console" \in wish[r]
WantsConsole(r) == "Console" \in wish[r] /\ Lacking(r, "Console")

\* The client's bconsole.conf, and then the director's Console resource, in a dry
\* run as well.
create_bconsole_conf(r) ==
  /\ At(r, "bconsole")
  /\ IF WantsConsole(r)
     THEN /\ filepw' = [filepw EXCEPT ![fd_fqdn[r]]["Console"] = pw[r]]
          /\ GoTo(r, "console")
     ELSE filepw' = filepw /\ GoTo(r, "job")
  /\ UNCHANGED <<conf, loaded, confpw, kit, run, torn>>

AppendConsole(r) ==
  /\ At(r, "console")
  /\ IF Lacking(r, "Console") THEN AppendTo(r, "Console") ELSE KeepConf
  /\ GoTo(r, "job")
  /\ UNCHANGED <<loaded, filepw, kit, run, torn>>

\* Variant: DRY_RUN is not looked at.
WantsJobDry(r, k) == k \in wish[r] /\ Lacking(r, k)
WantsJob(r, k) == k \in wish[r] /\ Lacking(r, k) /\ ~ dry[r]

write_job(r) ==
  /\ At(r, "job")
  /\ IF WantsJob(r, "Job") THEN AppendTo(r, "Job") ELSE KeepConf
  /\ GoTo(r, "copy")
  /\ UNCHANGED <<loaded, filepw, kit, run, torn>>

\* Then the client's keys and configuration, unless the client existed.
write_copy_job(r) ==
  /\ At(r, "copy")
  /\ IF WantsJob(r, "Copy") THEN AppendTo(r, "Copy") ELSE KeepConf
  /\ GoTo(r, IF Lacking(r, "Client") THEN "keys" ELSE "reload")
  /\ UNCHANGED <<loaded, filepw, kit, run, torn>>

\* Keys, certificates and the storage's directory, ...
create_keys(r) ==
  /\ At(r, "keys")
  /\ kit' = [kit EXCEPT ![fd_fqdn[r]] = @ \cup {"keys"}]
  /\ GoTo(r, "fd")
  /\ UNCHANGED <<conf, loaded, confpw, filepw, run, torn>>

\* ... and the file daemon's configuration with the password.
create_filedaemon_filesOnce(r) ==  \* Variant: files that are there are kept.
  /\ At(r, "fd")
  /\ filepw' = [filepw EXCEPT ![fd_fqdn[r]]["Client"] = IF @ = NoPw THEN pw[r] ELSE @]
  /\ GoTo(r, "reload")
  /\ UNCHANGED <<conf, loaded, confpw, kit, run, torn>>
create_filedaemon_files(r) ==
  /\ At(r, "fd")
  /\ filepw' = [filepw EXCEPT ![fd_fqdn[r]]["Client"] = pw[r]]
  /\ GoTo(r, "reload")
  /\ UNCHANGED <<conf, loaded, confpw, kit, run, torn>>

reload_directorNew(r) ==  \* Variant: only when the client is a new one.
  /\ At(r, "reload")
  /\ loaded' = IF Valid /\ Lacking(r, "Client") THEN [c \in Client |-> Defined(c)]
               ELSE loaded
  /\ Forget(r, "idle")
  /\ UNCHANGED <<conf, confpw, filepw, kit, torn>>
reload_director(r) ==
  /\ At(r, "reload")
  /\ loaded' = IF Valid THEN [c \in Client |-> Defined(c)] ELSE loaded
  /\ Forget(r, "idle")
  /\ UNCHANGED <<conf, confpw, filepw, kit, torn>>

\* Between a new client's resource and its files.
Window == {"installer", "bconsole", "console", "job", "copy", "keys", "fd"}
Halfway(r) == pc[r] \in Window /\ Lacking(r, "Client") /\ ~ dry[r]

KillRun(r) ==
  /\ "crash" \in AddFaults
  /\ pc[r] \notin Ended
  /\ Forget(r, "killed")
  /\ torn' = IF Halfway(r) THEN torn \cup {fd_fqdn[r]} ELSE torn
  /\ UNCHANGED files

Step(r) ==
  \/ user_input(r) \/ Download(r) \/ NoDownload(r)
  \/ write_client_resource(r) \/ create_windows_bat(r)
  \/ create_bconsole_conf(r) \/ AppendConsole(r)
  \/ write_job(r) \/ write_copy_job(r)
  \/ create_keys(r) \/ create_filedaemon_files(r)
  \/ reload_director(r)

Run(r) == (\E c \in Client, d \in DryRuns : Start(r, c, d)) \/ Step(r)

AddNext == \E r \in Runner : Run(r) \/ KillRun(r)

AddSpec == AddInit /\ [][AddNext]_addVars

-----------------------------------------------------------------------------
(***************************************************************************)
(* Safety.  One administrator at a time: nothing guards the files against  *)
(* two runs that have parsed the same configuration.                       *)
(***************************************************************************)
Alone == \A r, s \in Runner : r = s

\* "Return None if client exists in the config" (l.113), and so for the other
\* resources: however often runs are killed and started again, no resource is
\* defined twice, which would end the director's next start.
NoResourceTwice == Valid

\* A console resource and the client's bconsole.conf have the same password,
\* although each run generates a new one and may be killed between the two.
ConsolesAgree ==
  \A c \in Client : conf[c]["Console"] > 0 =>
                      confpw[c]["Console"] = filepw[c]["Console"]

\* The director never has a job of a client that it does not have.
JobsHaveClients ==
  \A c \in Client : (conf[c]["Job"] > 0 \/ conf[c]["Copy"] > 0) => conf[c]["Client"] > 0

\* "The script configures on the client's fd-daemon the Client resource [...] and
\* creates the key and cert needed for it" (l.13-15): a client the director
\* knows has keys, and a file daemon with the director's password, unless a run
\* is at work on it or was killed there.  What a dry run leaves is replaced.
ClientsComplete ==
  \A c \in Client :
    (/\ conf[c]["Client"] > 0
     /\ c \notin torn
     /\ \A r \in Runner : Halfway(r) => fd_fqdn[r] # c)
    => "keys" \in kit[c] /\ confpw[c]["Client"] = filepw[c]["Client"]

(***************************************************************************)
(* Liveness.  The administrator uses the script again and again, its       *)
(* download succeeds again and again, and some day no run is killed any    *)
(* more.                                                                   *)
(***************************************************************************)
AddFairness ==
  /\ \A r \in Runner : WF_addVars(Run(r)) /\ SF_addVars(Download(r))
  /\ <>[][~ \E r \in Runner : KillRun(r)]_addVars

\* What a killed run has appended is loaded by a later run, of whatever client:
\* what the files define for good, the director works with again and again.
AppendedLoaded ==
  AddFairness =>
    \A c \in Client : []<>(Defined(c) \subseteq loaded[c])
=============================================================================

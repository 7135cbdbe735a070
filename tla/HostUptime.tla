----------------------------- MODULE HostUptime -----------------------------
(***************************************************************************)
(* host_uptime_server.py and host_uptime_client.py: every director echoes  *)
(* the age of its last backups to a server, which mails when a host has    *)
(* been silent for too long or its backups are too old.                    *)
(*                                                                         *)
(* The server is one asyncio loop with two kinds of tasks: a handler for   *)
(* each connection and one evaluator, which looks at all hosts once a      *)
(* second.  A handler awaits nothing but its message, before it touches    *)
(* the state, and the evaluator nothing but its sleep: each is one step.   *)
(*                                                                         *)
(* Points in time are modelled by their age, counted in passes of the      *)
(* evaluator and no further than the code can tell apart.                  *)
(***************************************************************************)
EXTENDS Integers, Sequences

CONSTANTS
  Host,                  \* Directors that send echoes.
  HostList,              \* HOST_LIST, in its order.
  Jobs,                  \* The backup jobs of each host.
  MonitorJobs,           \* MONITOR_JOBS in each host's client configuration.
  DOWNTIME,
  DELAY_NOTIFY,
  LAST_BACKUP_MAX_DAYS,  \* Compared with seconds, as in the code.
  Faults,                \* "restart": the server is restarted;
                         \* "nojob": a job has not succeeded yet.
  None

Listed == {HostList[i] : i \in DOMAIN HostList}

ASSUME HostAssumption ==
  /\ HostList \in Seq(Host)
  /\ \A i, k \in DOMAIN HostList : HostList[i] = HostList[k] => i = k
  /\ \A h \in Host : MonitorJobs[h] \subseteq Jobs[h] /\ "down" \notin Jobs[h]
  /\ DOWNTIME \in Nat /\ DELAY_NOTIFY \in Nat /\ LAST_BACKUP_MAX_DAYS \in Nat
  /\ Faults \subseteq {"restart", "nojob"}
  /\ None \notin Int

VARIABLES
  alive,         \* The evaluator's task has not died of an exception.
  hosts,         \* The keys of self.hosts in the order of their insertion.
  notified,      \* data["notified"], data["uptime"], ... of every host; None
  uptime,        \* where the key is missing or its value is falsy.
  last_backup,
  monitor_jobs,
  ran,           \* The directors: age of each job's last success.
  mails,         \* What the last step mailed: pairs of a host and a subject.
  silent,        \* History: age of a host's last echo, or of the server.
  heard,         \* History: the hosts that have echoed since the server's start.
  told           \* History: age of the last mail that said the host is down.

data == <<notified, uptime, last_backup, monitor_jobs>>
vars == <<alive, hosts, data, ran, mails, silent, heard, told>>

\* How long a silent host may go unreported: another mail may just have been
\* sent when it counts as down; a host the server has never heard of counts as
\* heard of DOWNTIME + 1 after the evaluator's first look.
Grace(h) == IF h \in heard THEN DOWNTIME + DELAY_NOTIFY ELSE 2 * DOWNTIME + 2

\* Bounds of the ages.
TopNotified == DELAY_NOTIFY + 1
TopUptime == DOWNTIME + 1
TopBackup == LAST_BACKUP_MAX_DAYS + 1
TopSilent == 1 + IF DELAY_NOTIFY > DOWNTIME + 2 THEN DOWNTIME + DELAY_NOTIFY
                 ELSE 2 * DOWNTIME + 2

Aged(age, top) == IF age = None \/ age >= top THEN age ELSE age + 1

NoJobs == [j \in {} |-> None]
BackupAge == 0..TopBackup \cup {None}
Subject(h) == {"down", "backup"} \cup Jobs[h]

TypeOK ==
  /\ alive \in BOOLEAN
  /\ hosts \in Seq(Host)
  /\ \A i, k \in DOMAIN hosts : hosts[i] = hosts[k] => i = k
  /\ notified \in [Host -> 0..TopNotified \cup {None}]
  /\ uptime \in [Host -> -(DOWNTIME + 1)..TopUptime \cup {None}]
  /\ last_backup \in [Host -> BackupAge]
  /\ DOMAIN monitor_jobs = Host /\ DOMAIN ran = Host
  /\ \A h \in Host : /\ monitor_jobs[h] \in [MonitorJobs[h] -> BackupAge] \cup {NoJobs}
                     /\ ran[h] \in [Jobs[h] -> BackupAge]
                     /\ \A m \in mails : m[1] = h => m[2] \in Subject(h)
  /\ silent \in [Host -> 0..TopSilent]
  /\ heard \subseteq Host
  /\ told \in [Host -> 0..TopNotified]

\* The state __init__ builds: hosts[host]["notified"] = 0, which is falsy.
Started ==
  /\ alive' = TRUE
  /\ hosts' = HostList
  /\ notified' = [h \in Host |-> None]
  /\ uptime' = [h \in Host |-> None]
  /\ last_backup' = [h \in Host |-> None]
  /\ monitor_jobs' = [h \in Host |-> NoJobs]

Init ==
  /\ alive = TRUE
  /\ hosts = HostList
  /\ notified = [h \in Host |-> None]
  /\ uptime = [h \in Host |-> None]
  /\ last_backup = [h \in Host |-> None]
  /\ monitor_jobs = [h \in Host |-> NoJobs]
  /\ ran = [h \in Host |-> [j \in Jobs[h] |-> IF "nojob" \in Faults THEN None ELSE 0]]
  /\ mails = {}
  /\ silent = [h \in Host |-> 0]
  /\ heard = {}
  /\ told = [h \in Host |-> TopNotified]

-----------------------------------------------------------------------------
(***************************************************************************)
(* The client and the handler.                                             *)
(***************************************************************************)
\* A backup job of the director succeeds.
Backup(h, j) ==
  /\ ran' = [ran EXCEPT ![h][j] = 0]
  /\ mails' = {}
  /\ UNCHANGED <<alive, hosts, data, silent, heard, told>>

\* last_backup() without a job name: the newest success of any job.
Newest(h) ==
  LET ages == {ran[h][j] : j \in Jobs[h]} \ {None} IN
  IF ages = {} THEN None ELSE CHOOSE a \in ages : \A b \in ages : a <= b

\* Variant: the hosts are a list that every echo is appended to.
RecordedAgain(h) == Append(hosts, h)
Recorded(h) == IF \E i \in DOMAIN hosts : hosts[i] = h THEN hosts ELSE Append(hosts, h)

\* The client runs and its echo is handled.  A client that cannot reach its
\* database or the server, and a host that is down, send none.  A host missing
\* in HOST_LIST has its connection closed and is recorded all the same.
Echo(h) ==
  /\ hosts' = Recorded(h)
  /\ uptime' = [uptime EXCEPT ![h] = 0]
  /\ last_backup' = [last_backup EXCEPT ![h] = Newest(h)]
  /\ monitor_jobs' = [monitor_jobs EXCEPT ![h] = [j \in MonitorJobs[h] |-> ran[h][j]]]
  /\ silent' = [silent EXCEPT ![h] = 0]
  /\ heard' = heard \cup {h}
  /\ mails' = {}
  /\ UNCHANGED <<alive, notified, ran, told>>

-----------------------------------------------------------------------------
(***************************************************************************)
(* The evaluator.  The operators look at a host as the pass finds it, one  *)
(* unit of time later than the last one.                                   *)
(***************************************************************************)
Notified(h) == IF notified[h] = None THEN TopNotified ELSE Aged(notified[h], TopNotified)

\* Variant of Uptime: a host never heard of counts as silent since time zero.
UptimeZero(h) == IF uptime[h] = None THEN TopUptime ELSE Aged(uptime[h], TopUptime)

Uptime(h) == IF uptime[h] = None THEN -(DOWNTIME + 1) ELSE Aged(uptime[h], TopUptime)

GateEarly(h) == Notified(h) >= DELAY_NOTIFY  \* Variant of Gate: off by one.
Gate(h) == Notified(h) > DELAY_NOTIFY
Down(h) == Uptime(h) > DOWNTIME
TooOld(age) == age # None /\ age > LAST_BACKUP_MAX_DAYS

\* Variant of DownMail: a mail about the backup will do.
DownMailElse(h) == IF Down(h) /\ ~ TooOld(last_backup[h]) THEN {"down"} ELSE {}
DownMail(h) == IF Down(h) THEN {"down"} ELSE {}
\* Variant of BackupMail: not for a host that is down.
BackupMailElse(h) == IF TooOld(last_backup[h]) /\ ~ Down(h) THEN {"backup"} ELSE {}
BackupMail(h) == IF TooOld(last_backup[h]) THEN {"backup"} ELSE {}
JobMails(h) == {j \in DOMAIN monitor_jobs[h] : TooOld(monitor_jobs[h][j])}

Mail(h) ==
  IF Gate(h) THEN DownMail(h) \cup BackupMail(h) \cup JobMails(h) ELSE {}

Known == {hosts[i] : i \in DOMAIN hosts}

\* `None > 5` raises a TypeError.
Fatal(h) == Gate(h) /\ \E j \in DOMAIN monitor_jobs[h] : monitor_jobs[h][j] = None

TimePasses ==
  /\ ran' = [h \in Host |-> [j \in Jobs[h] |-> Aged(ran[h][j], TopBackup)]]
  /\ silent' = [h \in Host |-> Aged(silent[h], TopSilent)]
  /\ told' = [h \in Host |-> IF <<h, "down">> \in mails' THEN 0
                             ELSE Aged(told[h], TopNotified)]
  /\ UNCHANGED heard

NotifiedAfter(h) == IF Mail(h) # {} THEN 0 ELSE Notified(h)

Pass ==
  /\ alive
  /\ \A h \in Known : ~ Fatal(h)
  /\ mails' = UNION {{h} \X Mail(h) : h \in Known}
  /\ notified' = [h \in Host |-> IF h \in Known THEN NotifiedAfter(h) ELSE None]
  /\ uptime' = [h \in Host |-> IF h \in Known THEN Uptime(h) ELSE None]
  /\ TimePasses
  /\ UNCHANGED <<alive, hosts, last_backup, monitor_jobs>>

\* The pass stops at the first fatal host, between two of its jobs.  Nobody
\* awaits the task, so the exception is never seen, and nobody looks at the
\* hosts' data again.
Die ==
  /\ alive
  /\ \E i \in DOMAIN hosts : \E jobmails \in SUBSET JobMails(hosts[i]) :
       /\ Fatal(hosts[i])
       /\ \A k \in 1..i - 1 : ~ Fatal(hosts[k])
       /\ mails' = (UNION {{hosts[k]} \X Mail(hosts[k]) : k \in 1..i - 1})
            \cup {hosts[i]} \X (DownMail(hosts[i]) \cup BackupMail(hosts[i]) \cup jobmails)
  /\ alive' = FALSE
  /\ TimePasses
  /\ UNCHANGED <<hosts, data>>

\* The evaluator's step.
Eval == Pass \/ Die

\* The handlers go on without the evaluator.
Wait ==
  /\ ~ alive
  /\ mails' = {}
  /\ TimePasses
  /\ UNCHANGED <<alive, hosts, data>>

\* All the server knows is in memory.
Restart ==
  /\ "restart" \in Faults
  /\ Started
  /\ silent' = [h \in Host |-> 0]
  /\ heard' = {}
  /\ told' = [h \in Host |-> TopNotified]
  /\ mails' = {}
  /\ UNCHANGED ran

Next ==
  \/ \E h \in Host : Echo(h) \/ \E j \in Jobs[h] : Backup(h, j)
  \/ Eval
  \/ Wait
  \/ Restart

Spec == Init /\ [][Next]_vars

-----------------------------------------------------------------------------
(***************************************************************************)
(* Safety.                                                                 *)
(***************************************************************************)
\* "Time after a host is considered down" (host_uptime_server_conf.py): nobody
\* is told of a host that it is down within DOWNTIME of its last echo, nor of
\* the server's start, and nobody of a host that has not been silent at all.
NoFalseAlarm ==
  \A h \in Host : <<h, "down">> \in mails => silent[h] > DOWNTIME

\* "Delay between host downtime notifications": as long as the server is not
\* restarted, two mails that a host is down are DELAY_NOTIFY apart.
MailsSpaced ==
  [][\A h \in Host : <<h, "down">> \in mails' => told[h] >= DELAY_NOTIFY]_vars

\* "Send an email notification, if the host's last uptime echo [...] is too long
\* ago" (docstring, l.7-8): a listed host that stays silent is reported within
\* Grace, and again and again, whatever else is mailed about it or the others.
Reported(h) == silent[h] > Grace(h) => told[h] <= DELAY_NOTIFY
DownReported == \A h \in Listed : Reported(h)

\* The same for as long as the evaluator lives: a monitored job that has never
\* succeeded ends it.
DownReportedAlive == alive => DownReported

\* Why the first two hold: a host is never taken to be silent for longer than it
\* has been, and the gate never opens earlier after a mail than it should.
AgesInv ==
  \A h \in Host :
    /\ h \notin Known => notified[h] = None
    /\ uptime[h] # None => uptime[h] <= silent[h]
    /\ alive => IF notified[h] = None THEN told[h] = TopNotified
                ELSE notified[h] <= told[h]

AlarmInv == NoFalseAlarm /\ AgesInv

(***************************************************************************)
(* Liveness.  The event loop wakes the evaluator every second.             *)
(***************************************************************************)
FairSpec == Spec /\ WF_vars(Eval)

\* "... or performed backup is too long ago": while the last echo of a host says
\* that its backup is too old, that is mailed again and again, even if the host
\* is down by now.  Restarts forget what the echo said, and the evaluator may
\* die.
OldBackupReported ==
  \A h \in Host :
    <>[](alive /\ TooOld(last_backup[h])) => []<>(<<h, "backup">> \in mails)
=============================================================================

-------------------------- MODULE HostUptimeProofs --------------------------
(***************************************************************************)
(* Proofs about HostUptime, for any hosts, jobs and delays.                *)
(***************************************************************************)
EXTENDS HostUptime, TLAPS

LEMMA TopsType ==
  /\ TopNotified \in Nat /\ TopUptime \in Nat /\ TopBackup \in Nat /\ TopSilent \in Nat
  /\ TopNotified = DELAY_NOTIFY + 1 /\ TopUptime = DOWNTIME + 1 /\ TopSilent > DOWNTIME + 1
  /\ TopBackup = LAST_BACKUP_MAX_DAYS + 1
BY HostAssumption DEF HostAssumption, TopNotified, TopUptime, TopBackup, TopSilent

LEMMA AgedType ==
  ASSUME NEW top \in Nat, NEW low \in Int, low <= 0, NEW age \in low..top \cup {None}
  PROVE  /\ Aged(age, top) \in low..top \cup {None}
         /\ age # None => Aged(age, top) \in low..top
         /\ age # None => Aged(age, top) >= age /\ Aged(age, top) <= age + 1
BY HostAssumption DEF HostAssumption, Aged

LEMMA RecordedType ==
  ASSUME hosts \in Seq(Host), NEW h \in Host,
         \A i, k \in DOMAIN hosts : hosts[i] = hosts[k] => i = k
  PROVE  LET r == Recorded(h)
         IN  r \in Seq(Host) /\ \A i, k \in DOMAIN r : r[i] = r[k] => i = k
BY DEF Recorded

\* The ages a pass finds, and what it mails.
LEMMA PassTypes ==
  ASSUME TypeOK, NEW h \in Host
  PROVE  /\ Notified(h) \in 0..TopNotified
         /\ Uptime(h) \in -(DOWNTIME + 1)..TopUptime
         /\ NotifiedAfter(h) \in 0..TopNotified
         /\ DownMail(h) \cup BackupMail(h) \cup JobMails(h) \subseteq Subject(h)
         /\ Mail(h) \subseteq Subject(h)
<1>1. Notified(h) \in 0..TopNotified
  BY TopsType, AgedType DEF TypeOK, Notified
<1>2. Uptime(h) \in -(DOWNTIME + 1)..TopUptime
  <2>1. DOWNTIME \in Nat
    BY HostAssumption DEF HostAssumption
  <2>2. CASE uptime[h] = None
    BY <2>1, <2>2, TopsType DEF Uptime
  <2>3. CASE uptime[h] # None
    <3>1. Aged(uptime[h], TopUptime) \in -(DOWNTIME + 1)..TopUptime
      BY <2>1, <2>3, TopsType, AgedType DEF TypeOK
    <3> QED
      BY <2>3, <3>1 DEF Uptime
  <2> QED
    BY <2>2, <2>3
<1>3. NotifiedAfter(h) \in 0..TopNotified
  BY <1>1, TopsType DEF NotifiedAfter
<1>4. DOMAIN monitor_jobs[h] \subseteq Jobs[h]
  <2>1. MonitorJobs[h] \subseteq Jobs[h]
    BY HostAssumption DEF HostAssumption
  <2>2. monitor_jobs[h] \in [MonitorJobs[h] -> BackupAge] \cup {NoJobs}
    BY DEF TypeOK
  <2> QED
    BY <2>1, <2>2 DEF NoJobs
<1>5. DownMail(h) \cup BackupMail(h) \cup JobMails(h) \subseteq Subject(h)
  BY <1>4 DEF DownMail, BackupMail, JobMails, Subject
<1> QED
  BY <1>1, <1>2, <1>3, <1>5 DEF Mail

LEMMA TimeType ==
  ASSUME TypeOK, TimePasses
  PROVE  /\ silent' \in [Host -> 0..TopSilent] /\ told' \in [Host -> 0..TopNotified]
         /\ heard' \subseteq Host
         /\ DOMAIN ran' = Host /\ \A h \in Host : ran'[h] \in [Jobs[h] -> BackupAge]
         /\ \A h \in Host : silent'[h] = Aged(silent[h], TopSilent)
<1>1. ASSUME NEW h \in Host
      PROVE  /\ Aged(silent[h], TopSilent) \in 0..TopSilent
             /\ Aged(told[h], TopNotified) \in 0..TopNotified
  <2>1. /\ silent[h] \in 0..TopSilent \cup {None} /\ silent[h] # None
        /\ told[h] \in 0..TopNotified \cup {None} /\ told[h] # None
    BY TopsType, HostAssumption DEF TypeOK, HostAssumption
  <2> QED
    BY <2>1, TopsType, AgedType
<1>2. ASSUME NEW h \in Host, NEW j \in Jobs[h]
      PROVE  Aged(ran[h][j], TopBackup) \in BackupAge
  <2>1. ran[h][j] \in 0..TopBackup \cup {None}
    BY DEF TypeOK, BackupAge
  <2> QED
    BY <2>1, TopsType, AgedType DEF BackupAge
<1> QED
  BY <1>1, <1>2, TopsType DEF TimePasses, TypeOK

\* The variables of the server, and the directors' ages, keep their types.
THEOREM UptimeTypeCorrect == Spec => []TypeOK
<1>1. Init => TypeOK
  <2> SUFFICES ASSUME Init PROVE TypeOK
    OBVIOUS
  <2>1. \A i, k \in DOMAIN hosts : hosts[i] = hosts[k] => i = k
    BY HostAssumption DEF Init, HostAssumption
  <2>2. \A h \in Host : ran[h] \in [Jobs[h] -> BackupAge]
    <3>1. 0 \in BackupAge /\ None \in BackupAge
      BY TopsType DEF BackupAge
    <3> QED
      BY <3>1 DEF Init
  <2> QED
    BY <2>1, <2>2, TopsType, HostAssumption DEF Init, HostAssumption, TypeOK, BackupAge
<1>2. TypeOK /\ [Next]_vars => TypeOK'
  <2> SUFFICES ASSUME TypeOK, [Next]_vars PROVE TypeOK'
    OBVIOUS
  <2>1. ASSUME NEW h \in Host, Echo(h) PROVE TypeOK'
    <3>1. hosts' \in Seq(Host) /\ \A i, k \in DOMAIN hosts' : hosts'[i] = hosts'[k] => i = k
      BY <2>1, RecordedType DEF Echo, TypeOK
    <3>2. Newest(h) \in BackupAge
      BY DEF Newest, TypeOK, BackupAge
    <3>3. [j \in MonitorJobs[h] |-> ran[h][j]] \in [MonitorJobs[h] -> BackupAge]
      <4>1. MonitorJobs[h] \subseteq Jobs[h]
        BY HostAssumption DEF HostAssumption
      <4>2. ran[h] \in [Jobs[h] -> BackupAge]
        BY DEF TypeOK
      <4> QED
        BY <4>1, <4>2
    <3>4. /\ DOMAIN monitor_jobs' = Host
          /\ \A g \in Host : monitor_jobs'[g] \in [MonitorJobs[g] -> BackupAge] \cup {NoJobs}
      BY <2>1, <3>3 DEF Echo, TypeOK
    <3>5. uptime' \in [Host -> -(DOWNTIME + 1)..TopUptime \cup {None}]
      BY <2>1, TopsType, HostAssumption DEF Echo, TypeOK, HostAssumption
    <3>6. silent' \in [Host -> 0..TopSilent] /\ last_backup' \in [Host -> BackupAge]
      BY <2>1, <3>2, TopsType DEF Echo, TypeOK
    <3> QED
      BY <2>1, <3>1, <3>4, <3>5, <3>6 DEF Echo, TypeOK
  <2>2. ASSUME NEW h \in Host, NEW j \in Jobs[h], Backup(h, j) PROVE TypeOK'
    <3>1. \A g \in Host : ran'[g] \in [Jobs[g] -> BackupAge]
      <4>1. 0 \in BackupAge
        BY TopsType DEF BackupAge
      <4>2. \A g \in Host : ran[g] \in [Jobs[g] -> BackupAge]
        BY DEF TypeOK
      <4>3. DOMAIN ran = Host /\ ran' = [ran EXCEPT ![h][j] = 0]
        BY <2>2 DEF Backup, TypeOK
      <4> QED
        BY <2>2, <4>1, <4>2, <4>3
    <3> QED
      BY <2>2, <3>1 DEF Backup, TypeOK, data
  <2>3. CASE Pass
    <3>1. \A h \in Host : \A m \in mails' : m[1] = h => m[2] \in Subject(h)
      BY <2>3, PassTypes DEF Pass, Known, TypeOK
    <3>2. notified' \in [Host -> 0..TopNotified \cup {None}]
      BY <2>3, PassTypes DEF Pass
    <3>3. uptime' \in [Host -> -(DOWNTIME + 1)..TopUptime \cup {None}]
      BY <2>3, PassTypes DEF Pass
    <3> QED
      BY <2>3, <3>1, <3>2, <3>3, TimeType DEF Pass, TypeOK
  <2>4. CASE Die
    <3>1. \A h \in Host : \A m \in mails' : m[1] = h => m[2] \in Subject(h)
      <4> DEFINE Before(i) == UNION {{hosts[k]} \X Mail(hosts[k]) : k \in 1..i - 1}
                 Last(i, jobs) == {hosts[i]}
                                    \X (DownMail(hosts[i]) \cup BackupMail(hosts[i]) \cup jobs)
      <4>1. PICK i \in DOMAIN hosts : \E jobs \in SUBSET JobMails(hosts[i]) :
              mails' = Before(i) \cup Last(i, jobs)
        BY <2>4 DEF Die
      <4>2. PICK jobs \in SUBSET JobMails(hosts[i]) : mails' = Before(i) \cup Last(i, jobs)
        BY <4>1
      <4>3. i \in Nat /\ \A k \in 1..i : hosts[k] \in Host
        BY DEF TypeOK
      <4>4. ASSUME NEW m, m \in Before(i) PROVE m \in {m[1]} \X Subject(m[1])
        <5>1. PICK k \in 1..i - 1 : m \in {hosts[k]} \X Mail(hosts[k])
          BY <4>4
        <5>2. hosts[k] \in Host
          BY <4>3
        <5> QED
          BY <5>1, <5>2, PassTypes
      <4>5. ASSUME NEW m, m \in Last(i, jobs) PROVE m \in {m[1]} \X Subject(m[1])
        <5>1. hosts[i] \in Host
          BY DEF TypeOK
        <5>2. DownMail(hosts[i]) \cup BackupMail(hosts[i]) \cup jobs \subseteq Subject(hosts[i])
          BY <5>1, PassTypes
        <5> QED
          BY <4>5, <5>2
      <4> HIDE DEF Before, Last
      <4>6. \A m \in mails' : m \in {m[1]} \X Subject(m[1])
        BY <4>2, <4>4, <4>5
      <4> QED
        BY <4>6
    <3> QED
      BY <2>4, <3>1, TimeType DEF Die, TypeOK, data
  <2>5. CASE Wait
    BY <2>5, TimeType DEF Wait, TypeOK, data
  <2>6. CASE Restart
    BY <2>6, TopsType, HostAssumption
    DEF HostAssumption, Restart, Started, TypeOK, BackupAge
  <2>7. CASE UNCHANGED vars
    BY <2>7 DEF vars, data, TypeOK
  <2> QED
    BY <2>1, <2>2, <2>3, <2>4, <2>5, <2>6, <2>7 DEF Next, Eval
<1> QED
  BY <1>1, <1>2, PTL DEF Spec

-----------------------------------------------------------------------------
(***************************************************************************)
(* No false alarms, and mails spaced.                                      *)
(***************************************************************************)
\* A later age, or a higher bound, ages to a later age.
LEMMA AgedMonotone ==
  ASSUME NEW low \in Int, NEW top \in Nat, NEW high \in Nat, top <= high,
         NEW a \in low..top, NEW b \in 0..high, a <= b
  PROVE  Aged(a, top) <= Aged(b, high) /\ (a >= top - 1 => Aged(a, top) = top)
BY HostAssumption DEF HostAssumption, Aged

\* A mail that a host is down is sent for that reason and through the gate.
LEMMA DownMailed ==
  ASSUME TypeOK, Eval, NEW h \in Host, <<h, "down">> \in mails'
  PROVE  alive /\ h \in Known /\ Gate(h) /\ Down(h)
<1>1. "down" \notin BackupMail(h)
  BY DEF BackupMail
<1>2. "down" \notin JobMails(h)
  <2>1. MonitorJobs[h] \subseteq Jobs[h] /\ "down" \notin Jobs[h]
    BY HostAssumption DEF HostAssumption
  <2>2. monitor_jobs[h] \in [MonitorJobs[h] -> BackupAge] \cup {NoJobs}
    BY DEF TypeOK
  <2> QED
    BY <2>1, <2>2 DEF JobMails, NoJobs
<1>3. ASSUME "down" \in Mail(h) PROVE Gate(h) /\ Down(h)
  BY <1>1, <1>2, <1>3 DEF Mail, DownMail
<1>4. CASE Pass
  <2>1. h \in Known /\ "down" \in Mail(h)
    BY <1>4 DEF Pass
  <2> QED
    BY <1>3, <1>4, <2>1 DEF Pass
<1>5. CASE Die
  <2> DEFINE Before(i) == UNION {{hosts[k]} \X Mail(hosts[k]) : k \in 1..i - 1}
             Last(i, jobs) == {hosts[i]}
                                \X (DownMail(hosts[i]) \cup BackupMail(hosts[i]) \cup jobs)
  <2>1. PICK i \in DOMAIN hosts : /\ Fatal(hosts[i])
                                  /\ \E jobs \in SUBSET JobMails(hosts[i]) :
                                       mails' = Before(i) \cup Last(i, jobs)
    BY <1>5 DEF Die
  <2>2. PICK jobs \in SUBSET JobMails(hosts[i]) : mails' = Before(i) \cup Last(i, jobs)
    BY <2>1
  <2>3. i \in Nat /\ 1..i \subseteq DOMAIN hosts
    BY DEF TypeOK
  <2>4. CASE <<h, "down">> \in Before(i)
    <3>1. PICK k \in 1..i - 1 : h = hosts[k] /\ "down" \in Mail(hosts[k])
      BY <2>4
    <3> QED
      BY <1>3, <1>5, <2>3, <3>1 DEF Die, Known
  <2>5. CASE <<h, "down">> \in Last(i, jobs)
    <3>1. h = hosts[i] /\ "down" \in DownMail(h) \cup BackupMail(h) \cup jobs
      BY <2>5
    <3>2. "down" \in DownMail(h) /\ Gate(h)
      BY <1>1, <1>2, <2>1, <3>1 DEF Fatal
    <3> QED
      BY <1>5, <3>1, <3>2 DEF Die, Known, DownMail
  <2> HIDE DEF Before, Last
  <2> QED
    BY <2>2, <2>4, <2>5
<1> QED
  BY <1>4, <1>5 DEF Eval

\* A host that is down for the evaluator has been silent for that long, and when
\* the gate is open the last such mail is long enough ago.
LEMMA DownIsSilent ==
  ASSUME TypeOK, AgesInv, TimePasses, NEW h \in Host
  PROVE  /\ Down(h) => silent'[h] > DOWNTIME
         /\ Uptime(h) <= silent'[h]
         /\ uptime[h] # None => uptime[h] <= silent'[h]
         /\ alive /\ Gate(h) => told[h] >= DELAY_NOTIFY
<1>1. /\ DOWNTIME \in Nat /\ DELAY_NOTIFY \in Nat /\ None \notin Int
      /\ silent[h] \in 0..TopSilent /\ told[h] \in 0..TopNotified
      /\ uptime[h] \in -(DOWNTIME + 1)..TopUptime \cup {None}
      /\ notified[h] \in 0..TopNotified \cup {None}
  BY HostAssumption DEF HostAssumption, TypeOK
<1>2. silent'[h] = Aged(silent[h], TopSilent)
  BY TimeType
<1>3. silent'[h] \in 0..TopSilent /\ silent'[h] >= silent[h]
  BY <1>1, <1>2, TopsType DEF Aged
<1>4. ASSUME uptime[h] # None
      PROVE  /\ uptime[h] \in -(DOWNTIME + 1)..TopUptime /\ uptime[h] <= silent[h]
             /\ Uptime(h) = Aged(uptime[h], TopUptime)
             /\ Uptime(h) <= silent'[h]
  BY <1>1, <1>2, <1>4, TopsType, AgedMonotone DEF AgesInv, Uptime
<1>5. ASSUME Down(h) PROVE silent'[h] > DOWNTIME
  <2>1. CASE uptime[h] = None
    BY <1>1, <1>5, <2>1 DEF Down, Uptime
  <2>2. CASE uptime[h] # None
    <3>1. Uptime(h) \in Int /\ Uptime(h) > DOWNTIME /\ Uptime(h) <= silent'[h]
      BY <1>4, <1>5, <2>2, PassTypes DEF Down
    <3> QED
      BY <1>1, <1>3, <3>1, TopsType
  <2> QED
    BY <2>1, <2>2
<1>6. Uptime(h) <= silent'[h]
  BY <1>1, <1>3, <1>4, TopsType DEF Uptime
<1>7. ASSUME alive, Gate(h) PROVE told[h] >= DELAY_NOTIFY
  <2>1. CASE notified[h] = None
    BY <1>1, <1>7, <2>1, TopsType DEF AgesInv
  <2>2. CASE notified[h] # None
    <3>1. Aged(notified[h], TopNotified) > DELAY_NOTIFY
      BY <1>7, <2>2 DEF Gate, Notified
    <3>2. notified[h] >= DELAY_NOTIFY
      BY <1>1, <2>2, <3>1, TopsType DEF Aged
    <3> QED
      BY <1>1, <1>7, <2>2, <3>2, TopsType DEF AgesInv
  <2> QED
    BY <2>1, <2>2
<1> QED
  BY <1>1, <1>3, <1>4, <1>5, <1>6, <1>7, TopsType

\* A step that passes time and leaves uptime as it is, or sets it as a pass does.
LEMMA EvalAlarm ==
  ASSUME TypeOK, AlarmInv, Eval
  PROVE  AlarmInv'
<1>1. TimePasses
  BY DEF Eval, Pass, Die
<1>2. NoFalseAlarm'
  BY <1>1, DownMailed, DownIsSilent DEF AlarmInv, NoFalseAlarm
<1>3. CASE Pass
  <2>1. ASSUME NEW h \in Host PROVE uptime'[h] # None => uptime'[h] <= silent'[h]
    BY <1>1, <1>3, DownIsSilent DEF AlarmInv, Pass
  <2>2. ASSUME NEW h \in Host
        PROVE  /\ h \notin Known' => notified'[h] = None
               /\ IF notified'[h] = None THEN told'[h] = TopNotified
                  ELSE notified'[h] <= told'[h]
    <3>1. /\ None \notin Int /\ DELAY_NOTIFY \in Nat /\ told[h] \in 0..TopNotified
          /\ notified[h] \in 0..TopNotified \cup {None}
          /\ NotifiedAfter(h) \in 0..TopNotified
          /\ told'[h] \in 0..TopNotified /\ alive /\ Known' = Known
      BY <1>1, <1>3, PassTypes, TimeType, HostAssumption
      DEF TypeOK, Pass, Known, HostAssumption
    <3>2. told'[h] = IF <<h, "down">> \in mails' THEN 0 ELSE Aged(told[h], TopNotified)
      BY <1>1 DEF TimePasses
    <3>3. <<h, "down">> \in mails' => h \in Known /\ Mail(h) # {}
      BY <1>3 DEF Pass
    <3>4. notified'[h] = IF h \in Known THEN NotifiedAfter(h) ELSE None
      BY <1>3 DEF Pass
    <3>5. CASE h \notin Known
      BY <3>1, <3>2, <3>3, <3>4, <3>5, TopsType DEF AlarmInv, AgesInv, Aged
    <3>6. CASE h \in Known /\ Mail(h) # {}
      BY <3>1, <3>4, <3>6, TopsType DEF NotifiedAfter
    <3>7. CASE h \in Known /\ Mail(h) = {}
      <4>1. told'[h] = Aged(told[h], TopNotified) /\ notified'[h] = Notified(h)
        BY <3>2, <3>3, <3>4, <3>7 DEF NotifiedAfter
      <4>2. CASE notified[h] = None
        BY <3>1, <3>7, <4>1, <4>2, TopsType DEF AlarmInv, AgesInv, Notified, Aged
      <4>3. CASE notified[h] # None
        <5>1. notified[h] \in 0..TopNotified /\ notified[h] <= told[h]
          BY <3>1, <4>3 DEF AlarmInv, AgesInv
        <5>2. Aged(notified[h], TopNotified) <= Aged(told[h], TopNotified)
          BY <3>1, <5>1, TopsType, AgedMonotone
        <5>3. Aged(notified[h], TopNotified) # None
          BY <3>1, <5>1, TopsType DEF Aged
        <5>4. Notified(h) = Aged(notified[h], TopNotified)
          BY <4>3 DEF Notified
        <5> QED
          BY <3>1, <3>7, <4>1, <5>2, <5>3, <5>4
      <4> QED
        BY <4>2, <4>3
    <3> QED
      BY <3>5, <3>6, <3>7
  <2> QED
    BY <1>2, <2>1, <2>2 DEF AlarmInv, AgesInv
<1>4. CASE Die
  <2>1. UNCHANGED <<hosts, uptime, notified>> /\ ~ alive'
    BY <1>4 DEF Die, data
  <2> QED
    BY <1>1, <1>2, <2>1, DownIsSilent DEF AlarmInv, AgesInv, Known
<1> QED
  BY <1>3, <1>4 DEF Eval

\* The server's clock readings agree with the time that really passed: no host
\* is taken to be silent for longer than it has been.
THEOREM AlarmInvariant == Spec => []AlarmInv
<1>1. Init => AlarmInv
  BY HostAssumption DEF Init, HostAssumption, AlarmInv, AgesInv, NoFalseAlarm
<1>2. TypeOK /\ AlarmInv /\ [Next]_vars => AlarmInv'
  <2> SUFFICES ASSUME TypeOK, AlarmInv, [Next]_vars PROVE AlarmInv'
    OBVIOUS
  <2>1. ASSUME NEW h \in Host, Echo(h) PROVE AlarmInv'
    <3>1. Known \subseteq Known'
      <4>1. hosts \in Seq(Host)
        BY DEF TypeOK
      <4>2. hosts' = hosts \/ hosts' = Append(hosts, h)
        BY <2>1 DEF Echo, Recorded
      <4>3. \A i \in DOMAIN hosts : i \in DOMAIN hosts' /\ hosts'[i] = hosts[i]
        BY <4>1, <4>2
      <4> QED
        BY <4>3 DEF Known
    <3>2. uptime' = [uptime EXCEPT ![h] = 0] /\ silent' = [silent EXCEPT ![h] = 0]
      BY <2>1 DEF Echo
    <3>3. \A g \in Host : uptime'[g] # None => uptime'[g] <= silent'[g]
      BY <3>2 DEF AlarmInv, AgesInv, TypeOK
    <3> QED
      BY <2>1, <3>1, <3>3 DEF Echo, AlarmInv, AgesInv, NoFalseAlarm
  <2>2. ASSUME NEW h \in Host, NEW j \in Jobs[h], Backup(h, j) PROVE AlarmInv'
    BY <2>2 DEF Backup, data, AlarmInv, AgesInv, NoFalseAlarm, Known
  <2>3. CASE Eval
    BY <2>3, EvalAlarm
  <2>4. CASE Wait
    <3>1. /\ UNCHANGED <<hosts, uptime, notified>> /\ ~ alive' /\ mails' = {} /\ TimePasses
      BY <2>4 DEF Wait, data
    <3> QED
      BY <3>1, DownIsSilent DEF AlarmInv, AgesInv, NoFalseAlarm, Known
  <2>5. CASE Restart
    BY <2>5 DEF Restart, Started, AlarmInv, AgesInv, NoFalseAlarm
  <2>6. CASE UNCHANGED vars
    BY <2>6 DEF vars, data, AlarmInv, AgesInv, NoFalseAlarm, Known
  <2> QED
    BY <2>1, <2>2, <2>3, <2>4, <2>5, <2>6 DEF Next
<1> QED
  BY <1>1, <1>2, UptimeTypeCorrect, PTL DEF Spec

\* Nobody is told that a host is down within DOWNTIME of its last echo or of the
\* server's start, for any hosts and delays.
THEOREM NoFalseAlarms == Spec => []NoFalseAlarm
<1>1. AlarmInv => NoFalseAlarm
  BY DEF AlarmInv
<1> QED
  BY <1>1, AlarmInvariant, PTL

\* Two mails that the same host is down are at least DELAY_NOTIFY apart.
THEOREM MailsAreSpaced == Spec => MailsSpaced
<1>1. TypeOK /\ AlarmInv /\ [Next]_vars
        => [\A h \in Host : <<h, "down">> \in mails' => told[h] >= DELAY_NOTIFY]_vars
  <2> SUFFICES ASSUME TypeOK, AlarmInv, Next, NEW h \in Host, <<h, "down">> \in mails'
               PROVE  told[h] >= DELAY_NOTIFY
    OBVIOUS
  <2>1. CASE Eval
    <3>1. TimePasses
      BY <2>1 DEF Eval, Pass, Die
    <3> QED
      BY <2>1, <3>1, DownMailed, DownIsSilent DEF AlarmInv
  <2>2. CASE ~ Eval
    <3>1. mails' = {}
      BY <2>2 DEF Next, Echo, Backup, Wait, Restart
    <3> QED
      BY <3>1
  <2> QED
    BY <2>1, <2>2
<1> QED
  BY <1>1, AlarmInvariant, UptimeTypeCorrect, PTL DEF Spec, MailsSpaced

-----------------------------------------------------------------------------
(***************************************************************************)
(* Silent hosts are reported.  A host that is down has been mailed about   *)
(* within DELAY_NOTIFY, since the gate does not stay shut for longer: and  *)
(* either that mail, or a later one, said that it is down, or it was sent  *)
(* before the host counted as down.  A host never heard of gets no mail    *)
(* but that one.                                                           *)
(***************************************************************************)
HeardInv(h) ==
  h \in heard =>
    /\ uptime[h] = (IF silent[h] > DOWNTIME THEN TopUptime ELSE silent[h])
    /\ silent[h] > DOWNTIME =>
         /\ notified[h] \in 0..DELAY_NOTIFY
         /\ told[h] <= notified[h] \/ silent[h] - DOWNTIME <= notified[h]

UnheardInv(h) ==
  h \notin heard =>
    /\ last_backup[h] = None /\ monitor_jobs[h] = NoJobs
    /\ uptime[h] = (IF silent[h] = 0 THEN None
                    ELSE IF silent[h] > 2 * DOWNTIME + 2 THEN TopUptime
                    ELSE silent[h] - DOWNTIME - 2)
    /\ IF silent[h] > 2 * DOWNTIME + 2
       THEN notified[h] \in 0..DELAY_NOTIFY /\ told[h] <= notified[h]
       ELSE notified[h] \in {None, TopNotified}

ReportInv == alive => \A h \in Listed : h \in Known /\ HeardInv(h) /\ UnheardInv(h)

\* A pass over a host that leaves it down: the gate is shut or a mail says so.
LEMMA DownPass ==
  ASSUME TypeOK, Pass, NEW h \in Host, h \in Known, Down(h)
  PROVE  \/ notified'[h] = 0 /\ told'[h] = 0
         \/ /\ notified[h] \in 0..DELAY_NOTIFY - 1 /\ notified'[h] = notified[h] + 1
            /\ told'[h] = Aged(told[h], TopNotified)
<1>1. /\ DELAY_NOTIFY \in Nat /\ None \notin Int /\ notified[h] \in 0..TopNotified \cup {None}
      /\ TopNotified = DELAY_NOTIFY + 1
  BY TopsType, HostAssumption DEF HostAssumption, TypeOK
<1>2. /\ notified'[h] = NotifiedAfter(h)
      /\ <<h, "down">> \in mails' <=> "down" \in Mail(h)
      /\ told'[h] = IF <<h, "down">> \in mails' THEN 0 ELSE Aged(told[h], TopNotified)
  BY DEF Pass, TimePasses
<1>3. CASE Gate(h)
  <2>1. "down" \in Mail(h)
    BY <1>3 DEF Mail, DownMail
  <2> QED
    BY <1>2, <2>1 DEF NotifiedAfter
<1>4. CASE ~ Gate(h)
  <2>1. Mail(h) = {} /\ notified'[h] = Notified(h)
    BY <1>2, <1>4 DEF Mail, NotifiedAfter
  <2>2. notified[h] \in 0..DELAY_NOTIFY - 1 /\ Notified(h) = notified[h] + 1
    <3>1. Notified(h) <= DELAY_NOTIFY /\ Notified(h) \in 0..TopNotified
      BY <1>1, <1>4, PassTypes DEF Gate
    <3>2. notified[h] # None
      BY <1>1, <3>1 DEF Notified
    <3> QED
      BY <1>1, <3>1, <3>2 DEF Notified, Aged
  <2> QED
    BY <1>2, <2>1, <2>2
<1> QED
  BY <1>3, <1>4

LEMMA HeardPass ==
  ASSUME TypeOK, Pass, NEW h \in Host, h \in Known, h \in heard, HeardInv(h)
  PROVE  HeardInv(h)'
<1>1. /\ DOWNTIME \in Nat /\ DELAY_NOTIFY \in Nat /\ None \notin Int
      /\ silent[h] \in 0..TopSilent /\ told[h] \in 0..TopNotified
      /\ TopNotified = DELAY_NOTIFY + 1 /\ TopUptime = DOWNTIME + 1
      /\ TopSilent \in Nat /\ TopSilent > DOWNTIME + 1
  BY TopsType, HostAssumption DEF HostAssumption, TypeOK
<1>2. silent'[h] = Aged(silent[h], TopSilent) /\ uptime'[h] = Uptime(h) /\ heard' = heard
  BY TimeType DEF Pass, TimePasses
<1>3. uptime'[h] = Aged(uptime[h], TopUptime) /\ uptime[h] # None
  BY <1>1, <1>2 DEF HeardInv, Uptime
<1>4. uptime'[h] = (IF silent'[h] > DOWNTIME THEN TopUptime ELSE silent'[h])
  BY <1>1, <1>2, <1>3 DEF HeardInv, Aged
<1>5. ASSUME silent'[h] > DOWNTIME
      PROVE  /\ notified'[h] \in 0..DELAY_NOTIFY
             /\ told'[h] <= notified'[h] \/ silent'[h] - DOWNTIME <= notified'[h]
  <2>1. Down(h)
    BY <1>1, <1>2, <1>4, <1>5 DEF Down
  <2>2. CASE notified'[h] = 0 /\ told'[h] = 0
    BY <1>1, <2>2
  <2>3. CASE /\ notified[h] \in 0..DELAY_NOTIFY - 1 /\ notified'[h] = notified[h] + 1
             /\ told'[h] = Aged(told[h], TopNotified)
    <3>1. silent'[h] <= silent[h] + 1 /\ silent'[h] \in Int /\ silent[h] \in Int
      BY <1>1, <1>2 DEF Aged
    <3>2. told'[h] <= told[h] + 1 /\ told'[h] \in Int /\ told[h] \in Int
      BY <1>1, <2>3 DEF Aged
    <3>3. CASE silent[h] > DOWNTIME
      <4>1. told[h] <= notified[h] \/ silent[h] - DOWNTIME <= notified[h]
        BY <3>3 DEF HeardInv
      <4> QED
        BY <1>1, <2>3, <3>1, <3>2, <4>1
    <3>4. CASE ~ (silent[h] > DOWNTIME)
      BY <1>1, <2>3, <3>1, <3>4
    <3> QED
      BY <3>3, <3>4
  <2> QED
    BY <2>1, <2>2, <2>3, DownPass
<1> QED
  BY <1>4, <1>5 DEF HeardInv

LEMMA UnheardPass ==
  ASSUME TypeOK, Pass, NEW h \in Host, h \in Known, h \notin heard, UnheardInv(h)
  PROVE  UnheardInv(h)'
<1>1. /\ DOWNTIME \in Nat /\ DELAY_NOTIFY \in Nat /\ None \notin Int
      /\ silent[h] \in 0..TopSilent /\ told[h] \in 0..TopNotified
      /\ TopNotified = DELAY_NOTIFY + 1 /\ TopUptime = DOWNTIME + 1
      /\ TopSilent \in Nat /\ TopSilent > 2 * DOWNTIME + 2
  BY TopsType, HostAssumption DEF HostAssumption, TypeOK, TopSilent
<1>2. /\ silent'[h] = Aged(silent[h], TopSilent) /\ uptime'[h] = Uptime(h) /\ heard' = heard
      /\ notified'[h] = NotifiedAfter(h)
      /\ UNCHANGED <<last_backup, monitor_jobs>>
  BY TimeType DEF Pass, TimePasses
<1>3. silent'[h] # 0 /\ silent'[h] \in Int
      /\ uptime'[h] = (IF silent'[h] > 2 * DOWNTIME + 2 THEN TopUptime
                       ELSE silent'[h] - DOWNTIME - 2)
  <2>1. CASE silent[h] = 0
    BY <1>1, <1>2, <2>1 DEF UnheardInv, Uptime, Aged
  <2>2. CASE silent[h] # 0
    BY <1>1, <1>2, <2>2 DEF UnheardInv, Uptime, Aged
  <2> QED
    BY <2>1, <2>2
<1>4. CASE silent'[h] > 2 * DOWNTIME + 2
  <2>1. Down(h)
    BY <1>1, <1>2, <1>3, <1>4 DEF Down
  <2>2. ASSUME notified[h] \in 0..DELAY_NOTIFY - 1, notified'[h] = notified[h] + 1,
               told'[h] = Aged(told[h], TopNotified)
        PROVE  notified'[h] \in 0..DELAY_NOTIFY /\ told'[h] <= notified'[h]
    <3>1. told[h] <= notified[h]
      BY <1>1, <2>2 DEF UnheardInv
    <3> QED
      BY <1>1, <2>2, <3>1 DEF Aged
  <2>3. notified'[h] \in 0..DELAY_NOTIFY /\ told'[h] <= notified'[h]
    BY <1>1, <2>1, <2>2, DownPass
  <2> QED
    BY <1>2, <1>3, <1>4, <2>3 DEF UnheardInv
<1>5. CASE ~ (silent'[h] > 2 * DOWNTIME + 2)
  <2>1. ~ (silent[h] > 2 * DOWNTIME + 2)
    BY <1>1, <1>2, <1>5 DEF Aged
  <2>2. ~ Down(h)
    BY <1>1, <1>2, <1>3, <1>5 DEF Down
  <2>3. Mail(h) = {}
    BY <2>2 DEF Mail, DownMail, BackupMail, JobMails, TooOld, UnheardInv, NoJobs
  <2>4. notified'[h] = TopNotified
    BY <1>1, <1>2, <2>1, <2>3 DEF UnheardInv, NotifiedAfter, Notified, Aged
  <2> QED
    BY <1>2, <1>3, <1>5, <2>4 DEF UnheardInv
<1> QED
  BY <1>4, <1>5

\* What SilentHostsReported rests on.
THEOREM ReportInvariant == Spec => []ReportInv
<1>1. Listed \subseteq Host /\ DOWNTIME \in Nat
  BY HostAssumption DEF HostAssumption, Listed
<1>2. Init => ReportInv
  <2> SUFFICES ASSUME Init, NEW h \in Listed PROVE h \in Known /\ HeardInv(h) /\ UnheardInv(h)
    BY DEF ReportInv
  <2>1. h \in Host /\ h \in Known
    BY <1>1 DEF Init, Known, Listed
  <2>2. /\ heard = {} /\ silent[h] = 0 /\ uptime[h] = None /\ notified[h] = None
        /\ last_backup[h] = None /\ monitor_jobs[h] = NoJobs
    BY <2>1 DEF Init
  <2> QED
    BY <1>1, <2>1, <2>2 DEF HeardInv, UnheardInv
<1>3. TypeOK /\ ReportInv /\ [Next]_vars => ReportInv'
  <2> SUFFICES ASSUME TypeOK, ReportInv, [Next]_vars, alive', NEW h \in Listed
               PROVE  h \in Known' /\ HeardInv(h)' /\ UnheardInv(h)'
    BY DEF ReportInv
  <2>1. h \in Host
    BY <1>1
  <2>2. ASSUME NEW g \in Host, Echo(g)
        PROVE  h \in Known' /\ HeardInv(h)' /\ UnheardInv(h)'
    <3>1. h \in Known /\ HeardInv(h) /\ UnheardInv(h)
      BY <2>2 DEF ReportInv, Echo
    <3>2. h \in Known'
      <4>1. hosts \in Seq(Host)
        BY DEF TypeOK
      <4>2. hosts' = hosts \/ hosts' = Append(hosts, g)
        BY <2>2 DEF Echo, Recorded
      <4>3. \A i \in DOMAIN hosts : i \in DOMAIN hosts' /\ hosts'[i] = hosts[i]
        BY <4>1, <4>2
      <4> QED
        BY <3>1, <4>3 DEF Known
    <3>3. CASE g = h
      BY <1>1, <2>1, <2>2, <3>2, <3>3 DEF Echo, HeardInv, UnheardInv, TypeOK
    <3>4. CASE g # h
      BY <2>1, <2>2, <3>1, <3>2, <3>4 DEF Echo, HeardInv, UnheardInv, TypeOK
    <3> QED
      BY <3>3, <3>4
  <2>3. ASSUME NEW g \in Host, NEW j \in Jobs[g], Backup(g, j)
        PROVE  h \in Known' /\ HeardInv(h)' /\ UnheardInv(h)'
    BY <2>3 DEF Backup, data, ReportInv, HeardInv, UnheardInv, Known
  <2>4. CASE Pass
    <3>1. h \in Known' /\ h \in Known /\ HeardInv(h) /\ UnheardInv(h) /\ heard' = heard
      BY <2>4 DEF ReportInv, Pass, Known, TimePasses
    <3>2. CASE h \in heard
      BY <2>1, <2>4, <3>1, <3>2, HeardPass DEF UnheardInv
    <3>3. CASE h \notin heard
      BY <2>1, <2>4, <3>1, <3>3, UnheardPass DEF HeardInv
    <3> QED
      BY <3>1, <3>2, <3>3
  <2>5. CASE Die \/ Wait
    BY <2>5 DEF Die, Wait
  <2>6. CASE Restart
    <3>1. h \in Known'
      BY <2>6 DEF Restart, Started, Known, Listed
    <3>2. /\ heard' = {} /\ silent'[h] = 0 /\ uptime'[h] = None /\ notified'[h] = None
          /\ last_backup'[h] = None /\ monitor_jobs'[h] = NoJobs
      BY <2>1, <2>6 DEF Restart, Started
    <3> QED
      BY <1>1, <3>1, <3>2 DEF HeardInv, UnheardInv
  <2>7. CASE UNCHANGED vars
    BY <2>7 DEF vars, data, ReportInv, HeardInv, UnheardInv, Known
  <2> QED
    BY <2>2, <2>3, <2>4, <2>5, <2>6, <2>7 DEF Next, Eval
<1> QED
  BY <1>2, <1>3, UptimeTypeCorrect, PTL DEF Spec

\* While the evaluator lives, a listed host that stays silent is reported as down
\* within Grace and again after every DELAY_NOTIFY, whatever other mails there are.
THEOREM SilentHostsReported == Spec => []DownReportedAlive
<1>1. TypeOK /\ ReportInv => DownReportedAlive
  <2> SUFFICES ASSUME TypeOK, ReportInv, alive, NEW h \in Listed, silent[h] > Grace(h)
               PROVE  told[h] <= DELAY_NOTIFY
    BY DEF DownReportedAlive, DownReported, Reported
  <2>1. /\ h \in Host /\ DOWNTIME \in Nat /\ DELAY_NOTIFY \in Nat
        /\ silent[h] \in Int /\ told[h] \in Int
    BY HostAssumption DEF HostAssumption, Listed, TypeOK, TopNotified
  <2>2. HeardInv(h) /\ UnheardInv(h)
    BY DEF ReportInv
  <2> QED
    BY <2>1, <2>2 DEF HeardInv, UnheardInv, Grace
<1> QED
  BY <1>1, ReportInvariant, UptimeTypeCorrect, PTL
=============================================================================

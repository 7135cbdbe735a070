# A verification development for bacula_scripts

`bacula_scripts` is a set of command line tools around a Bareos (Bacula)
director: they prune, delete and move backups, dump data bases before a job,
mount encrypted storages, add clients, and watch that backups are made. Each is
a short Python program started by cron, by the director or by hand. Nothing
locks anything: the tools meet in the director's catalog (a PostgreSQL data
base), in the volume files of the storages and in the director's configuration.

This directory holds TLA+ models of the parts where that matters most, the
TLC configurations that check them, and proofs checked by TLAPS.

    tlc -workers 2 -config PurgedOverlap.cfg MCDelPurgedVols.tla
    tlapm DelPurgedVolsProofs.tla

`PROJECT.json` lists components, runs, findings, hazards and theorems, and maps
every definition to the source lines it models.

## 1. Inventory

Paths are below `src/bacula_scripts/`.

### Deleting backups

| component | state it keeps or changes | operations |
|---|---|---|
| catalog, director, storages (not in this repository) | `media` (volstatus), `job`, the volume files | writes a backup, prunes and purges volumes, `delete volume` |
| `bacula_prune_all` | volstatus | `prune volume=...` for every Used volume with a successful job |
| `bacula_del_failed_jobs_and_volume` | files, `media` | SELECT of jobs failed 4 days ago; remove file, delete entry |
| `bacula_del_vols_missing_catalog` | files | listdir; look up each name; remove the file |
| `bacula_del_purged_vols` | files, `media` | two SELECTs; `bls` on each Purged volume; three rules; remove file, delete entry |
| `bacula_del_media_orphans` | `media` | SELECT; mount check; file check; delete entry |
| `bacula_del_scatter` | files, `media` | thins old fulls so that what is left is spread evenly |
| `bacula_del_jobs`, `bacula_del_catalog_jobids` | files, `media`, `job` | deletes what a configured condition selects |

They interact through the catalog and the storage only. What is hard:

- a decision is older than the deletion it leads to: it rests on rows and files
  read minutes ago, while jobs write, volumes are pruned, and another of these
  scripts, or a second run of the same one, deletes;
- file and catalog entry are removed in two steps, and a run can die between
  them; each script repairs one half of what another one leaves;
- storages are remote, down, not mounted or too slow for `timeout 0.1 bls`, and
  a file that cannot be seen must not be taken for one that is gone;
- dependencies between backups are not stored anywhere once a volume is purged;
  they are reconstructed from dates, job names and the level in the file.

They are correct if a backup that is not purged keeps its file, its entry and
all that its restore needs; the promised number of fulls and diffs stays; a dry
run changes nothing; and what may be reclaimed is reclaimed in the end. Section 3
says where they are not.

### Watching backups

| component | state | operations |
|---|---|---|
| `host_uptime_server` | per host: last echo, age of last backup, of monitored jobs, last mail | handle an echo; evaluate all hosts once a second; mail |
| `host_uptime_client` | none | SELECTs of last successes; send them as JSON |
| `bacula_monitor`, `bacula_monitor_dir` | none | SELECT of last successes; mail if too old |
| `bacula_offsite_backup_age_watch` | none | SELECT of the newest copy; compare; mail |
| `disk_full_notifier` | none | compare disk usage; mail |

Server and clients talk over one TCP message without acknowledgement. What is
hard: echoes are lost or late, the server restarts and remembers nothing, an
exception in one task of the event loop is never seen, one "last mail" is shared
by all subjects. Correct means: a silent host and an old backup are reported
within a known time and again and again, no host is reported that was heard of,
and mails do not flood.

### Around jobs

| component | state | operations |
|---|---|---|
| `bacula_encfs_backup` | a mount | before a job: unmount what is mounted, mount; after it: unmount |
| `bacula_db_backup` | dump files | before a job: dump; after it: delete the dump |
| `bacula_add_client` | configuration files, keys | append resources that do not exist, create files, reload |

What is hard: two jobs overlap and share one mount or one directory of dumps; a
job is killed before its after-job script; configuration is checked once and
appended to file by file.

A script that fails here must not let its job do harm: encfs is there so that
nothing is written in clear, a dump must be there when its job reads it, and one
that is left behind must not be followed by more. The monitors read what became of
the jobs.

### Reading the configuration

| component | state | operations |
|---|---|---|
| `bacula_parser` | `quote_open`, the value being read | turns the output of `bareos-dir -xc` into text for a lark grammar, line by line |

A value may go on over several lines and some lines are left out; a mistake in one
line shifts all that follow.

### No behaviour worth a model

`bacula_find_backups_bls` (prints), `disk_full_notifier` and
`bacula_offsite_backup_age_watch` (one comparison each), the Windows installer files,
`setup.py`, the example settings, and the stale copy `src/bacula_del_purged_vols.py`,
which is not installed.

## 2. The modules

| module | models | extends |
|---|---|---|
| `BackupStore` | catalog, director and storages as `bacula_del_purged_vols` sees them | |
| `DelPurgedVols` | `bacula_del_purged_vols.py` | `BackupStore`; instance of `Retention` |
| `Retention` | what it promises, without catalog, storage or script | |
| `MCDelPurgedVols` | its instances | `DelPurgedVols` |
| `DelPurgedVolsProofs` | theorems: its types; snapshots; no broken chain | `DelPurgedVols` |
| `RetentionProofs` | theorems: files, numbers, order, refinement | `DelPurgedVolsProofs` |
| `CleanupScripts` | the five deleting scripts at work on one storage | |
| `MCCleanupScripts`, `CleanupScriptsProofs` | instance of `cleanup_stuck`, theorems | `CleanupScripts` |
| `HostUptime` | `host_uptime_server.py`, `host_uptime_client.py` | |
| `MCHostUptime`, `HostUptimeProofs` | instance, theorems | `HostUptime` |
| `AddClient` | `bacula_add_client.py` | |
| `AddClientProofs` | theorems | `AddClient` |
| `JobScripts`, `JobScriptsProofs` | `bacula_encfs_backup.py`, `bacula_db_backup.py`, `bacula_monitor.py`, `bacula_monitor_dir.py`; theorems | |
| `AdminTools`, `AdminToolsProofs` | `bacula_del_jobs.py`, `bacula_del_catalog_jobids.py`, `bacula_del_scatter.py`; theorems | |
| `ConfigParser`, `ConfigParserProofs` | the line loop of `bacula_parser.py`; theorems | |
| `MCOperations` | instances of these three, of `AddClient` and `CleanupScripts` | all five |

### BackupStore

One backup is one volume (README.md:31) and labels are never reused (Recycle =
No, `bacula_del_purged_vols.py:35-39`), so a volume is the number of its label
and backups are ordered in time by it. `job[v]` says what backup `v` is (stream,
level, success), `needs[v]` what its restore reads besides itself, as Bareos
chose the base when the job ran; `media[v]` is volstatus, `disk` the files. A
stream is a combination of client, fileset, job name and media type, which is
what the script compares; `ChainOf` says which streams share a chain for Bareos,
which looks at client and fileset only. `jobtdate` and `written` are the two
clocks the rules compare: the end of the job, and the beginning of the volume
rounded down to `Granularity` units as `bls` prints it.

### DelPurgedVols

A run `r` has a program counter and the script's lists:

| code | model |
|---|---|
| first SELECT, `unpurged_backups` (236-245) | `SelectVolumes`, `unpurged[r]` |
| second SELECT, `purged_vols` (246-250) | `SelectPurged`, `todo[r]` |
| sorting loop, one volume at a time (261-315) | `SkipVol`, `SortMissing` or `SortNoMeta` + `SortCatalog`, `SortParsed`, `NoMetaRaises` |
| `full_purged`, `inc_purged`, `diff_purged` | `lists[r]` |
| the three decisions (316-406) | `Decide`: they read only the run's own lists, so they are one step |
| `del_backups` (192-227), file, then entry | `RemoveFile`, `DeleteCatalog` |
| the end; an exception or a kill | `Finish`, `Crash` |

Between any two of these steps other runs, new backups and purges come in.
`Faults` says what may go wrong besides: `host` (down or not mounted), `bls` (no
metadata in time), `umount` (a storage is unmounted or mounted while a run is at
work), `rm`, `bconsole`, `crash`, `job` (failed jobs), `race` (a purge between the two
SELECTs). The looks at a volume, at its mount (171, 181), its file (282) and its data
(131), are one step with all the outcomes they can have together: under `umount` a
file that is there may look missing, and whether del_backups (284) then finds it is
open as well, so that an entry may be dropped whose file stays. Without `umount` that
cannot happen, and CatalogKnowsFiles is about such installations.

`Retention` has backups that are made, let go and reclaimed, and says in
`MayGo` when: nothing live builds on the backup; three other fulls, one of them
newer, or two other diffs outlive it; no live incremental precedes it in its
run. `ImplementsRetention` maps live to "in the catalog and not Purged" and kept
to "on disk". The abstract rule is stated with true dependencies and true order,
the script's with dates and neighbours from a stale list; that they agree is
what the refinement says.

### CleanupScripts

Every script has a snapshot it works through (`todo[s]`) and a volume in hand
(`current[s]`); the steps are the SELECT or listdir, each check, each removal and each
bconsole command. A job labels a volume in the catalog before it creates the
file. Storages are mounted and unmounted as `bacula_encfs_backup` does it.
`bacula_del_purged_vols` appears only by its effect, any Purged volumes at all;
which ones it spares is DelPurgedVols' matter. The orphans script does nothing unless
VERBOSE is set (its l.90 stands around the whole check), and keeps an entry only if
both -dry and DRY_RUN ask for it (98; `Simulated`).

`Quiet` is our assumption on its use: not while a job runs or storages are unmounted.
Its docstring asks for something else, that it be run "manually and not recurring in
cron", for another reason: when a volume was removed by accident and is to be fetched
from an offsite backup, its entry would be gone. Without Quiet GoodKept and RunningKept
are violated in the model: an unmount between the mount check (92) and the file
check (93), or a label whose file does not exist yet, costs an entry. Because of the
docstring nothing in the liveness properties counts on the orphans script; so an entry
that a killed run of the failed-jobs script leaves without its file is there for good,
and FailedReclaimedOrStuck says what is true all the same: incomplete backups go as
long as there is no such entry (`Stuck`).

### HostUptime

`Echo` is a client's run and the handler's; `Pass` is one iteration of the
evaluator, `Die` an iteration ended by the TypeError, `Wait` a second in which no
evaluator is left. The handler and the evaluator await nothing while they hold
the state, hence one step each. Ages replace points in time and are cut off
where the code cannot tell them apart any more (`Top...`). `silent`, `heard` and
`told` are history variables for the properties. A host never heard of counts, as
in the code, as heard of DOWNTIME + 1 after the first look: that is the second
branch of `Grace`.

### AddClient

A run is a program counter over the pieces of `run()` (423-472) in the code's
order; each append to a file of the director and each set of client files is a
step, and a kill may fall between any two:

| code | model |
|---|---|
| parse the configuration (435) | `Start`, `seen[r]` |
| questions, download (442-453) | `user_input`, `Download`, `NoDownload` |
| appends (112-219, 358-382) | `AppendTo` in `write_client_resource`, `AppendConsole`, `write_job`, `write_copy_job` |
| `client_exists` and the other looks at the configuration | `Lacking(r, k)`: they read what was parsed at the start |
| files for the client (221-357) | `filepw`, `kit` |
| reload | `reload_director`: the director takes what the files define, if it is valid |

`conf` counts how many resources of a kind the files define, so that a duplicate
shows. A dry run appends no Client and no Job, but it does write the client's
files and the Console resource, as the code does. `torn` is a history variable:
the clients at whose resource a run was killed before it had made their files.
`write_client_resource` returns early for them ever after and line 465 skips the
files, so they stay incomplete; ClientsComplete is about all others, and fails
in the model for these. With two runs that have parsed the same configuration
NoResourceTwice fails: the theorem has `Alone` as its assumption.

### JobScripts

A job runs once a day with a script before and one after it. `phase[j]` says how far
it has got:

| code | model |
|---|---|
| `encfs_mount` (70-92): the looks at the mount, umount, lazy umount, encfs, the last look | `Look`, `Umount`, `LazyUmount`, `MountEnc`, `Verify` |
| `cancle_job` (61-67) | `cancelled[j]`; bconsole may fail unnoticed |
| `createbackup` (31-51): open, then what the dump command writes | `CreateDump`, `EndDump` |
| `delbackup` (54-60) | `delbackup`: one of the files that match, any |
| the query and the loop of the monitors | `MonitorSelect`, `MonitorJob` |
| the director | `StartJob`, `BeginJob`, `RefuseJob`, `FailJob`, `EndJob`, `PruneJob`, `Kill` |

The scripts of `bacula_encfs_backup` end with exit code 0 whatever happened, so that
only the cancellation stops the job. `where[j]` is what was mounted when a job opened
its volume; `left[j]` counts the runs that could not remove their dump. `Serial`
says that jobs on the encrypted mount do not overlap, which the script does not see
to: without it NeverInClear fails, because the second job's before-script lazily
unmounts what the first one is about to write to. It also fails when bconsole does.
System calls are steps of their own, but for two pairs: fusermount and the look after it
(73-74, 76-77), and glob and os.remove (57, 60). Under `Serial` and `OwnGlob` no other
process has anything to do with the mount or the file in between. mongodump writes to a
directory, not to the dump file delbackup looks for; DumpJob is about the others.
`Glob` says which jobs' dumps the pattern `type_db_*` matches: when one database is
called `a` and another `a_b`, DumpBackedUp fails. The monitors say nothing about a
job that never succeeded or whose backups are all pruned, and nothing about any job
when there is only one (the SELECT is built from a Python tuple); LateMailed is about
the others.

### AdminTools

The catalog is a history of backups, one to a volume. A tool reads it once (`list`)
and treats its rows one by one, in steps between which storages come and go and the
tool may be killed:

| code | model |
|---|---|
| `bacula_del_jobs` run (133-194): the WHERE clause | `Where`, `NoRule`, `DelJobsSelect` |
| build_volpath and the options (82-109, 195-231) | `build_volpath`, `Instead`, `DelJobsResolve`, `DelJobsBegin` |
| del_backups (112-129): file, then entry | `DelJobsRemove`, `DelJobsDelete` |
| `bacula_del_catalog_jobids` | `JobidsSelect`, `del_from_catalog` |
| `bacula_del_scatter`: query, cull, num, evenspread, prune | `Fulls`, `Cull`, `Num`, `evenspread`, `ScatterPrune` |

What the code does against what one may expect:

- a storage on DEL_STORAGE_NAMES_CATALOG gets a path whether it is mounted or not
  (106). If it is not, os.remove fails as "Already deleted" and the entry goes; if it is,
  the file goes as well, against "Don't delete the volume file"
  (`bacula_del_jobs_conf.py:26`): `deljobs_catalog`. build_volpath raises when the
  directive is not set at all; the model has installations that set it.
- a row's mount is looked at three times (200, 201, 213). Unmounted before the last,
  the path is None and `os.path.basename(None)` ends the run; unmounted after it, the
  file is not found and the entry deleted. `--force_del_catalog` passes None on purpose
  and ends the same way, deleting nothing.
- a directive that is `("",)` is no condition and still passes the test "No deletion rule
  configured" (180), so that with no other directive the statement has none at all and
  selects everything. OnlySelectedDeleted follows the code here: all of no conditions
  select every backup.
- `bacula_del_scatter`: "Only Full backups, which have a Full following backup are
  allowed to be deleted" (15-16), and in its example (11-12) the full before an
  incremental is spared. The query sees fulls only (72), so that `F I F` looks like
  `F F` and the first full may go although the incremental depends on it. FollowerKept is
  about the fulls, which is what the code does keep: a later one of the same job and
  pool is in use, in the catalog and not on the list whenever one is pruned. `-dry` is
  never read, only DRY_RUN is; run again and again the script thins what it has left; and
  with fewer fulls than periods of 24 days, or none, it raises an IndexError.

### ConfigParser

One step is one line of `preprocess_config`'s loop, seen as the loop sees it: how
many equal signs and quotes, a comma, `Device =`. ReadsWhatIsThere says what must
come out without the loop's state, from the parity of the quotes before a line.
`Plain` leaves out the two kinds of text the loop cannot follow: an omitted line (with
a comma or a second equal sign) that opens a value, whose next lines are then read as
directives; and a line within a value that has quotes itself, after which the end of
the value is not seen.

### MCOperations

JobScripts, AdminTools, ConfigParser, AddClient and CleanupScripts share no state, so
one run plays each of them in a scene of its own while the others stand still. The
liveness properties name the fairness they need as their premise: in another scene
that premise is false, as nobody starts their scripts there.

## 3. The runs

| run | shows | instance |
|---|---|---|
| `purged_overlap` | chains, newest full, three fulls, two diffs, whole incremental runs, with overlapping runs | 5 backups of one stream, any levels, any order of purges, crashes; two runs at a time where at most one backup is not a full, and that one not purged; runs symmetric |
| `purged_storages` | refinement of Retention, chains among what it asks for, with offsite copies, remote storages that are down or unreadable, failing removals and bconsole, kills, dry runs and real ones | 4 backups, two streams |
| `purged_liveness` | entries without files are forgotten, all that may be reclaimed is; the catalog knows every file, and no unpurged volume is touched | 4 backups, crashes, unreadable volumes, a failing bconsole, DEL_VOLS_WITH_NO_METADATA |
| `purged_dry` | violation: a dry run removes a file and its entry (l.293), against "Simulate deletion" (l.417) | 2 backups, unreadable volumes, DEL_VOLS_WITH_NO_METADATA |
| `purged_race` | violation: the newest full is removed | purge between the SELECTs |
| `purged_shared_chain` | violation: a chain breaks | two job names, one client and fileset |
| `cleanup_stuck` | violation: failed volumes stay for ever | the scripts of README.md:37-46 only, kills |
| `uptime_watch` | no false alarm, mails spaced, silent hosts and old backups reported | 3 hosts, one not in HOST_LIST, one without jobs; restarts, jobs never run |
| `uptime_no_job` | violation: no host is ever reported again | a monitored job that never succeeded |
| `operations`, scene "night" | nothing in clear, dumps there when they are read and not piling up, late jobs mailed about | two jobs of one kind or of two, 2 days, all faults but a failing bconsole |
| "tools" | only what is selected is deleted, an entry goes with its file; a follower for each pruned full, an even spread | catalogs of two backups on three storages under 9 configurations, or of five fulls; kills, one storage unmounted at times, one without a directory |
| "parser" | every directive read once | all texts of four lines out of 12 kinds |
| "clients" | no resource twice, passwords agree, jobs have clients, clients have their files, what is appended is loaded in the end | one client, one run at a time, real or dry, any wishes, kills, no network |
| "cleanup" | good and running backups are safe from all scripts together; leaks and, unless stuck, failed volumes go in the end | 2 volumes, all scripts, kills, failing removals, unmounts |
| `deljobs_or` | violation: everything is deleted | OPERATOR = OR, one condition |
| `deljobs_catalog` | violation: a file that was to stay is removed | DEL_STORAGE_NAMES_CATALOG names a mounted storage |

Why the bounds are enough. Five backups are the least for a full to be deletable
(three unpurged ones besides it) with something depending on it or another one
following; every rule looks at a volume, its nearest neighbours on both sides and
one dependent. The overlap needs four fulls and one more volume, and more
incrementals or diffs, or purged ones, add nothing to what two runs can do to each
other's counts: `OverlapOnFulls` keeps two runs apart otherwise, and the proofs hold
for any number of runs and volumes. With two volumes each cleanup script can be in the middle of one volume while it still has another
ahead, which is what an aborted loop needs; three volumes were explored for
safety with the same result. DOWNTIME, DELAY_NOTIFY and LAST_BACKUP_MAX_DAYS of 1
leave every age its values below, at and above the limit, and the proofs hold for
all values. Resources of different clients share nothing but the reload, hence one
client in "clients" (the theorem is about any number); its two resources with
a password, their two copies in files and a new one make five passwords. `cleanup_stuck` switches the deadlock check off: when all labels are used up, all
scripts are idle and there is nothing to clean, the model rightly stops.

In the other scenes of `operations` two jobs are enough for one script to come between another's steps,
and two days for a leftover to meet a new dump; two backups for a row that pairs the
wrong volume and job, of several jobs, levels and storages and hence both sides of
every condition; configurations with AND, with blank directives only, with each option,
and with DEL_STORAGE_NAMES_CATALOG naming the storage that comes and goes; five fulls for `cull` to see four, which is where evenspread's
first rounding shows, at distances of 12, 24 and 60 days around its 24; and four
lines for a value over three of them and one after it. Deadlock is not checked
in `operations`: days, lines and labels come to an end.

Fairness. In `DelPurgedVols`, a run once started is scheduled to its end and cron
starts it again and again (`WF(Run(r))`), and some day what is in its way ends
(`Mishap`): kills, hosts that are down, a bconsole that fails.
In `CleanupScripts` the scripts for failed jobs and for unknown volumes are run again
and again, as the repository's README.md:38-41 has it, and go on; an unmounted storage
is mounted again by the next job, and from some point on (`Settle`) nothing is killed or
unmounted. A step of Failed, say, may be its next SELECT, so fairness gives a script no
more than being run. Nothing is assumed of the other scripts, nor of jobs, and nothing
at all of the orphans script. In `HostUptime` the
event loop wakes the evaluator (`WF(Eval)`), and nothing is assumed of clients.
In `AddClient` (`AddFairness`) the script is used again and again and goes on once started
(`WF(Run(r))`), the download does not fail every time (`SF(Download(r))`, a run whose
binaries are there needs no download), and some day no run is killed any more.
In `JobScripts` cron runs the monitor again and again, one process that comes to each of
its rows (`MonitorFairness`); nothing is assumed of jobs, scripts or days.
In `AddClient` `KillRun` leads to "killed" and the end of a run to "idle", so that no step is both.

## 4. What is proved

All for any number of volumes, streams, runs, scripts, hosts, jobs and days, any
delays, catalogs and configurations.

- `TypeCorrect`, `ScriptsTypeCorrect`, `UptimeTypeCorrect`, `AddTypeCorrect`,
  `NightTypeCorrect`, `ToolsTypeCorrect`.
- `SnapInvariant`, under `Steady`. What the decisions of `bacula_del_purged_vols` rely
  on silently is collected in two assumptions. `Steady`: no purge between the two
  SELECTs, no volume of the director's own storages removed for want of metadata
  (`NoBlindRemoval`), pools of copies named after the level, dates that order backups
  as they were made. `Orderly` adds: no failed jobs, and no two job names in one chain.
  `SnapInv` says that a candidate for removal is not unpurged, was not when the
  snapshot was taken, and is on the list of its own level. That much holds in any steady
  installation, and all that counts and compares volumes rests on it alone.
- `ChainsStayWhole`: under `Orderly`, `Spec => []NoBrokenChain`. The run
  `purged_shared_chain` shows that one chain per stream is really needed, as
  `purged_race` shows it of the purges Steady excludes. So is the condition on failed jobs: of two good fulls, a third one good and purged, a fourth that
  failed and a diff that needs the third, the script removes the third, since the
  fourth is a newer full to it (TLC finds this with `Faults = {"job"}`).
  NoBrokenChain is not inductive: nothing in it says why a decision taken from
  an old list is still right. `ChainInv` adds (`ChainInvariant`): a backup's base is the
  newest one there was (`NeedsOlder`, `Clear`), also within a run's snapshot; and, in
  `DependInv`, whoever depends on a candidate now is seen through a backup in the
  snapshot. The last is the heart: a backup made after the snapshot takes as its base a
  backup that is still unpurged, and one that needs a candidate through a newer link
  needs it through a link the snapshot knows. At `Decide` the rules exclude candidates
  that the snapshot's backups need, and from then on nobody needs them.
  The instance of `purged_overlap` is orderly.
- `UnpurgedStay` (without any assumption), `FilesKnown` (where removals work and no
  storage is unmounted or mounted under a run: neither `rm` nor `umount`; hosts that
  are down, unreadable volumes, kills and a failing bconsole are allowed) and
  `DryRunsTakeNothing` (under `NoBlindRemoval`): `FilesInv` says that what
  runs have in hand was Purged once and is never Used again, `GoneFirst` that an entry
  is dropped only after its file, `DryInv` that a dry run's lists are empty after the
  decision.
- `NewestStays`, `IncsGoTogether`, under `Steady`, so that jobs may fail and streams share
  chains: `OrderInv` keeps, for every volume a
  decided run has yet to remove (`Pending`), the reason why it may go (`Spared`): a
  newer full, which cannot be unmade, or a full or diff between it and every earlier
  unpurged incremental. `WholeInv` is needed for the decision: a snapshot holds every
  unpurged volume older than a candidate.
- `FullsStay`, `DiffsStay`, under `Steady` (the script counts what failed, and so do
  these and NewestFullKept): three fulls and two diffs are left however
  many runs overlap, although each counts on a snapshot of its own and the others
  remove what it counted. `CountInv` orders the runs by what was not yet purged when
  they read the catalog, future backups included: these sets only shrink, so they are
  nested, and no run removes anything of its own set or of a later, smaller one. Of
  the sets of runs that decided to remove something of a stream and level, the smallest,
  B, held enough; all of it is still there and in nobody's hands. A run that decides
  on a smaller one takes B's place.
- `KeepsPromise`, under `Orderly`: `Spec => ImplementsRetention`. A removal meets the
  guard of `Reclaim` because of ChainInv (nothing live depends on the volume), OrderInv
  (a newer full, a whole run of incrementals) and CountInv (enough others).
- `GoodBackupsKept`, `RunningJobsKept`: under `Careful` (Quiet, and the catalog
  answers the missing-catalog script). `CleanupInv` says what a script has in hand
  when it is about to remove something: a job that failed long ago or was pruned;
  and that the missing-catalog script never holds a volume that has been labelled
  but has no file yet.
- `NoFalseAlarms`, `MailsAreSpaced`: `AlarmInv` compares the server's clock readings
  with the time that really passed: `uptime <= silent`, and after a mail `notified <=
  told` as long as the evaluator lives.
- `SilentHostsReported`: DownReportedAlive for any hosts and delays. `ReportInv` says
  that a host which is down was mailed about at most DELAY_NOTIFY ago, since the gate
  is not shut for longer, and that this mail said so unless it was sent before the host
  was down, which is why `Grace` adds the two delays.
- `NoResourceTwiceEver`, `ConsolesAgreeAlways`, `JobsHaveClientsAlways`, `ClientsSound`:
  under `Alone`, the four invariants of AddClient. None is inductive alone: `SeesRight` says that until a run
  comes to the append of a resource, what it parsed about it at the start is still
  true; `ConsoleReady`, `ClientThere` and `FilesFollow` say what a run has done
  already at each of its steps.
- `NothingInClear`: with `Serial` and a bconsole that works, NeverInClear. The
  invariant adds that one job at a time is past "idle", and that a job which is ready
  to write is cancelled unless the directory is mounted or root has mounted it.
- `DumpsBackedUp`, `LeftoversStayBounded`: under `OwnFiles` (a pattern matches the
  dumps of its own job only). `DumpInv` says for each job what its files are: finite,
  as many as `left` allows at each phase, and today's among them once it was made.
- `OnlyTheSelected`, `EntriesGoWithFiles`: under `Conjunctive` (OPERATOR = AND), for any
  directives, none and blank ones included, any options and any
  DEL_STORAGE_NAMES_CATALOG. `DeletionInv` carries what the SELECT knows of a row, first
  that the rules select it and it is paired with its own storage, then that a path or an
  option was found for it, to the volume whose entry is deleted. What
  EntryGoesWithFile excepts is what the code cannot keep: storages that are unmounted at
  times, and storages without a directory for which --default_storage names another.
- `FollowersAreKept`: no full is pruned by `bacula_del_scatter` unless a later one of its
  job and pool is in use, in the catalog and off the list at that moment, for any catalog
  and whatever the other tools have deleted before. `FollowInv` says it of whoever is
  on the list: when the list is made, the follower is the full after the last of its pool
  on it, which `Cull` has left out or evenspread has kept; and a prune takes nobody who
  is not on the list.
- `SpreadIsEven`: evenspread keeps as many as it is asked for, the oldest among them, and
  no gap is longer than even spreading must leave, for any history and any `num`. The
  lemmas count positions: `Index` numbers a finite set of volumes from one without gaps
  and in order (`IndexRange`, `IndexOrder`, `IndexOnto`), the rounded-up multiples of
  length/num are `num` different positions, and each is less than a step from the next.
- `ParserTypeCorrect`, `NothingLostOrMadeUp`: the line loop on texts of any length.
  `quote_open` must be the parity of the quotes read so far, and the number kept as
  the value's beginning the line of the last odd one (`ReadInv`, with `ValueInv`). `Plain` is assumed of the lines read so far only.

Every invariant and every action property of the passing runs is the subject of a
theorem. Only model-checked: the liveness properties (MissingForgotten, SpaceReclaimed
and those like them), since the prover reaches neither fairness nor ENABLED, and the
violations, which are about instances. What Steady, Orderly and their like exclude is
assumed, not shown to be so: the code checks none of it.
DryRunHarmless is violated as the code stands (`purged_dry`); DryRunsTakeNothing is what
is left of it, for installations that remove no file of the director's own storages for
want of metadata.

## 5. What the models leave out

Text: SQL, the output of `bls` and bconsole, JSON, configuration files. Which
archive device belongs to a storage. Clock changes. Bareos' own concurrency:
jobs run one after another in BackupStore (several in CleanupScripts). Rounding
to the minute is modelled, but the runs and proofs keep it from reordering
backups: with minutes of four units and six backups NoBrokenChain fails, that is,
when a job ends and the next volume is begun within one minute.
bacula_prune_all leaves volumes of jobs that ended with warnings alone; the model
has none. The unit of LAST_BACKUP_MAX_DAYS (days in the mail, seconds in the
comparison) is not modelled. With a catalog that cannot be reached (fault "db" of
CleanupScripts) GoodKept fails: has_catalog_entry answers None, and
bacula_del_vols_missing_catalog removes the files of good backups. An echo that the
server cannot read counts as none, so that a mail about a host that is alive but not
understood is no false alarm to NoFalseAlarm. Hazards that no property catches are
listed in `PROJECT.json` with the reason.

Not modelled at all: `bacula_find_backups_bls` prints what bls says and keeps nothing;
`disk_full_notifier` and `bacula_offsite_backup_age_watch` make one comparison and
mail; the Windows installer copies files on a client; packaging and example
settings have no behaviour; the stale copy of bacula_del_purged_vols is not
installed. Of `bacula_parser` the quoting of resource types, the lark grammar and the
transformer are left out. bacula_monitor_dir's docstring speaks of a check of the
director's connection; its code is bacula_monitor's.

## 6. Plan

Done, in this order: BackupStore, Retention, DelPurgedVols with its proofs;
CleanupScripts; HostUptime; AddClient; JobScripts; AdminTools; ConfigParser. What
would come next: failed jobs that ended with warnings or empty, and several storages,
in CleanupScripts; removal for want of metadata, unmounts under a run, and dates rounded
to the minute, in the proofs of RetentionProofs.

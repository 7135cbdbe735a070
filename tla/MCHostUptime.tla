---------------------------- MODULE MCHostUptime ----------------------------
\* A director that is watched with one monitored job of two, one without any
\* backup job, and one that is missing in HOST_LIST.
EXTENDS HostUptime, TLC
CONSTANTS a, b, c, full, daily
TwoListed == <<b, a>>
JobsOfA == (a :> {full, daily}) @@ (b :> {}) @@ (c :> {})
MonitorDaily == (a :> {daily}) @@ (b :> {}) @@ (c :> {})
=============================================================================

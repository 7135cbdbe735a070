-------------------------- MODULE MCCleanupScripts --------------------------
\* Two volumes: what one script does to the one may end its way to the other.
EXTENDS CleanupScripts
CONSTANTS v1, v2
=============================================================================

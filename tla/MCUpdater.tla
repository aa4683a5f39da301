----------------------------- MODULE MCUpdater -----------------------------
\* Updater for TLC: a shelf of two or three builds; the cfgs set the days, epochs
\* and faults.
EXTENDS Updater

=============================================================================

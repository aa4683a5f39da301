---------------------------- MODULE MCPublisher ----------------------------
\* Publisher for TLC: one database of one page, three builds.
EXTENDS Publisher

=============================================================================

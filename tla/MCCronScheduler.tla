-------------------------- MODULE MCCronScheduler --------------------------
\* A small instance of CronScheduler for TLC, with the names of its inductive invariant.
EXTENDS CronSchedulerInv
=============================================================================

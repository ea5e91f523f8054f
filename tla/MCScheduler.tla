---------------------------- MODULE MCScheduler ----------------------------
\* The scheduler with a few jobs and one polling loop.
EXTENDS Scheduler
=============================================================================

------------------------------ MODULE MCScheduler ------------------------------
(* Small instance of Scheduler: two jobs of the yahoo queue. *)
EXTENDS Scheduler

YahooJobs == {"sync", "market"}
SyncJobs == {"sync"}
TwoJobs == {"sync", "market"}
================================================================================

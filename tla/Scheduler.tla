----------------------------- MODULE Scheduler -----------------------------
(***************************************************************************)
(* Durable jobs (scheduler/store.rs) and the polling loop that runs them   *)
(* (scheduler/scheduler.rs), one loop per gateway process that shares the  *)
(* database.                                                               *)
(*                                                                         *)
(* Times are compared with now and with each other only.  The times that   *)
(* have passed are kept as a sequence, oldest first: <<j, "Due">> for a    *)
(* next_run_at, <<j, "RunNow">> for a run_now_requested_at.  Of a          *)
(* next_run_at in the future only its existence matters (later), of a      *)
(* lease whether it has run out.  Every statement or transaction of the    *)
(* store is one action.  The run history and the payloads are left out.    *)
(***************************************************************************)
EXTENDS Naturals, Sequences, SequencesExt, SequenceFilters

CONSTANTS Job,       \* job identifiers, each given to one job only
          Proc,      \* polling loops on the database
          Outcome,   \* bound: the results executions have
          Fetch,     \* max_fetch_per_tick
          Batch      \* max_concurrent

ASSUME SchedulerAssumption ==
    /\ Outcome \subseteq {"Succeeded", "Skipped", "Failed"}
    /\ Fetch \in Nat \ {0}
    /\ Batch \in Nat \ {0}

VARIABLES row,       \* row[j]: "unused", a live schedule kind, or "deleted"
          enabled,   \* enabled jobs
          passed,    \* the next_run_at and run_now_requested_at that have passed
          later,     \* jobs whose next_run_at is in the future
          lease,     \* lease[j]: "none", "live" or "expired"
          succeeded, \* jobs with a last_success_at
          batch,     \* batch[p]: the claims p has still to run, the first one next
          executing  \* loops inside the executor

vars == <<row, enabled, passed, later, lease, succeeded, batch, executing>>

\* Repeat: an interval, or a cron expression with occurrences to come.  Ended: a
\* cron expression whose last occurrence has passed (one that names its year).
Kind == {"At", "Repeat", "Ended"}
Why  == {"Due", "RunNow"}  \* TriggerReason

Entry(j, w)  == [job |-> j, why |-> w]
Entries      == [job : Job, why : Why]
Exists(j)    == row[j] \in Kind
Passed(j, w) == Contains(passed, Entry(j, w))

Drop(s, E) == Filter(s, Entries \ E)

Init ==
    /\ row = [j \in Job |-> "unused"]
    /\ enabled = {}
    /\ passed = <<>>
    /\ later = {}
    /\ lease = [j \in Job |-> "none"]
    /\ succeeded = {}
    /\ batch = [p \in Proc |-> <<>>]
    /\ executing = {}
-----------------------------------------------------------------------------
(* Users, agents and the command line *)

CreateJob(j, k) ==
    /\ row[j] = "unused" /\ k # "Ended"
    /\ row' = [row EXCEPT ![j] = k]
    /\ enabled' = enabled \cup {j}
    /\ later' = later \cup {j}
    /\ UNCHANGED <<passed, lease, succeeded, batch, executing>>

\* An At job may be given a time in the past, before or after any other.
CreateOverdueJob(j, i) ==
    /\ row[j] = "unused"
    /\ row' = [row EXCEPT ![j] = "At"]
    /\ enabled' = enabled \cup {j}
    /\ passed' = InsertAt(passed, i, Entry(j, "Due"))
    /\ UNCHANGED <<later, lease, succeeded, batch, executing>>

PauseJob(j) ==
    /\ j \in enabled
    /\ enabled' = enabled \ {j}
    /\ UNCHANGED <<row, passed, later, lease, succeeded, batch, executing>>

ResumeJob(j) ==
    /\ Exists(j) /\ j \notin enabled
    /\ enabled' = enabled \cup {j}
    /\ UNCHANGED <<row, passed, later, lease, succeeded, batch, executing>>

DeleteJob(j) ==
    /\ Exists(j)
    /\ row' = [row EXCEPT ![j] = "deleted"]
    /\ enabled' = enabled \ {j}
    /\ passed' = Drop(passed, {Entry(j, w) : w \in Why})
    /\ later' = later \ {j}
    /\ lease' = [lease EXCEPT ![j] = "none"]
    /\ succeeded' = succeeded \ {j}
    /\ UNCHANGED <<batch, executing>>

\* A second request moves the time of the first.
RequestRunNow(j) ==
    /\ Exists(j)
    /\ passed' = Append(Drop(passed, {Entry(j, "RunNow")}), Entry(j, "RunNow"))
    /\ UNCHANGED <<row, enabled, later, lease, succeeded, batch, executing>>
-----------------------------------------------------------------------------
(* The clock *)

BecomeDue(j) ==
    /\ j \in later
    /\ later' = later \ {j}
    /\ passed' = Append(passed, Entry(j, "Due"))
    /\ UNCHANGED <<row, enabled, lease, succeeded, batch, executing>>

\* The time a job waits for is itself an occurrence.
LastOccurrence(j) ==
    /\ row[j] = "Repeat" /\ j \notin later
    /\ row' = [row EXCEPT ![j] = "Ended"]
    /\ UNCHANGED <<enabled, passed, later, lease, succeeded, batch, executing>>

ExpireLease(j) ==
    /\ lease[j] = "live"
    /\ lease' = [lease EXCEPT ![j] = "expired"]
    /\ UNCHANGED <<row, enabled, passed, later, succeeded, batch, executing>>
-----------------------------------------------------------------------------
(* The polling loops *)

\* A request to run now hides the due time of its job.
Candidates ==
    Filter(passed, {e \in Entries : /\ e.job \in enabled
                                    /\ e.why = "RunNow" \/ ~Passed(e.job, "RunNow")})

ClaimsForGood ==   \* Faulty variant: an expired lease still counts.
    Filter(Prefix(Candidates, Fetch), {e \in Entries : lease[e.job] = "none"})

Claims == Filter(Prefix(Candidates, Fetch), {e \in Entries : lease[e.job] # "live"})

\* claim_due_jobs leases every claim and takes its request to run now; the tick
\* runs the first ones.
ClaimDueJobs(p) ==
    /\ batch[p] = <<>>
    /\ \E C \in {Claims} :
          /\ C # <<>>
          /\ lease' = [j \in Job |-> IF \E e \in ToSet(C) : e.job = j THEN "live" ELSE lease[j]]
          /\ passed' = Drop(passed, {e \in ToSet(C) : e.why = "RunNow"})
          /\ batch' = [batch EXCEPT ![p] = Prefix(C, Batch)]
    /\ UNCHANGED <<row, enabled, later, succeeded, executing>>

\* The run's row refers to the job's, so a deleted job ends the tick.
StartRun(p) ==
    /\ batch[p] # <<>> /\ p \notin executing
    /\ IF Exists(Head(batch[p]).job)
       THEN executing' = executing \cup {p} /\ UNCHANGED batch
       ELSE batch' = [batch EXCEPT ![p] = <<>>] /\ UNCHANGED executing
    /\ UNCHANGED <<row, enabled, passed, later, lease, succeeded>>

\* next_run_after for a run that succeeded or was skipped.
RescheduleLost(j, o) ==   \* Faulty variant: a recurring job gets no next time.
    IF o = "Failed"
    THEN UNCHANGED <<passed, later>>
    ELSE /\ passed' = Drop(passed, {Entry(j, "Due")})
         /\ later' = later \ {j}

RescheduleFromClaim(j, o) ==   \* Faulty variant: a failed run puts back the time it was claimed for.
    IF o = "Failed"
    THEN /\ passed' = Append(Drop(passed, {Entry(j, "Due")}), Entry(j, "Due"))
         /\ later' = later \ {j}
    ELSE /\ passed' = Drop(passed, {Entry(j, "Due")})
         /\ later' = IF row[j] = "Repeat" THEN later \cup {j} ELSE later \ {j}

RescheduleTwice(j, o) ==   \* Faulty variant: the old time stays next to the new one.
    IF o = "Failed"
    THEN UNCHANGED <<passed, later>>
    ELSE /\ later' = IF row[j] = "Repeat" THEN later \cup {j} ELSE later \ {j}
         /\ UNCHANGED passed

RescheduleDue(j, o) ==   \* Faulty variant: a one-shot job keeps its time.
    IF o = "Failed" \/ row[j] = "At"
    THEN UNCHANGED <<passed, later>>
    ELSE /\ passed' = Drop(passed, {Entry(j, "Due")})
         /\ later' = later \cup {j}

Reschedule(j, o) ==
    IF o = "Failed"
    THEN UNCHANGED <<passed, later>>
    ELSE /\ passed' = Drop(passed, {Entry(j, "Due")})
         /\ later' = IF row[j] = "Repeat" THEN later \cup {j} ELSE later \ {j}

\* finish_run fails for a deleted job, and when a cron expression has no next
\* occurrence: nothing is written, and the error ends the tick.
Finishes(j, o) == Exists(j) /\ (row[j] = "Ended" => o = "Failed")

FinishRun(p, o) ==
    /\ p \in executing
    /\ executing' = executing \ {p}
    /\ LET j == Head(batch[p]).job
       IN  IF Finishes(j, o)
           THEN /\ Reschedule(j, o)
                /\ lease' = [lease EXCEPT ![j] = "none"]
                /\ succeeded' = IF o = "Succeeded" THEN succeeded \cup {j} ELSE succeeded
                /\ batch' = [batch EXCEPT ![p] = Tail(@)]
           ELSE /\ batch' = [batch EXCEPT ![p] = <<>>]
                /\ UNCHANGED <<passed, later, lease, succeeded>>
    /\ UNCHANGED <<row, enabled>>

\* The process of p dies; the database survives.
Crash(p) ==
    /\ batch[p] # <<>>
    /\ batch' = [batch EXCEPT ![p] = <<>>]
    /\ executing' = executing \ {p}
    /\ UNCHANGED <<row, enabled, passed, later, lease, succeeded>>

Loop(p) == ClaimDueJobs(p) \/ StartRun(p) \/ \E o \in Outcome : FinishRun(p, o)

Clock(j) == BecomeDue(j) \/ LastOccurrence(j) \/ ExpireLease(j)

Users == \E j \in Job : \/ \E k \in Kind : CreateJob(j, k)
                        \/ \E i \in 1..Len(passed) + 1 : CreateOverdueJob(j, i)
                        \/ PauseJob(j)
                        \/ ResumeJob(j)
                        \/ DeleteJob(j)
                        \/ RequestRunNow(j)

Next == \/ Users
        \/ \E j \in Job : Clock(j)
        \/ \E p \in Proc : Loop(p) \/ Crash(p)

SafetySpec == Init /\ [][Next]_vars

\* The loops are polled and the clock runs.  Whether the executor returns is
\* left open: a run in progress need not finish.
Spec == /\ SafetySpec
        /\ \A p \in Proc : WF_vars(ClaimDueJobs(p)) /\ WF_vars(StartRun(p))
        /\ \A j \in Job : WF_vars(ExpireLease(j))
-----------------------------------------------------------------------------
(* Properties that hold *)

Starts(p, j, w) == /\ StartRun(p)
                   /\ executing' # executing
                   /\ Head(batch[p]) = Entry(j, w)

\* Times, leases and claims have their shape; every passed time belongs to an
\* existing job and stands once, a job is due or due later but not both, and a
\* loop executes only with a claim.
SchedulerTypeOK ==
    /\ row \in [Job -> {"unused", "deleted"} \cup Kind]
    /\ enabled \subseteq {j \in Job : Exists(j)}
    /\ later \subseteq {j \in Job : Exists(j) /\ ~Passed(j, "Due")}
    /\ lease \in [Job -> {"none", "live", "expired"}]
    /\ succeeded \subseteq {j \in Job : Exists(j)}
    /\ passed \in Seq({e \in Entries : Exists(e.job)})
    /\ IsInjective(passed)
    /\ batch \in [Proc -> Seq(Entries)]
    /\ executing \subseteq {p \in Proc : batch[p] # <<>>}

\* A one-shot job that has succeeded is not run for its time again, whatever
\* crashes, pauses, expired leases and requests to run now came in between
\* (due_one_shot_job_fires_once), as long as one loop works on the database.
OneShotFiresOnce ==
    [][\A p \in Proc, j \in Job :
          Starts(p, j, "Due") /\ row[j] = "At" => j \notin succeeded]_vars

\* A recurring job never loses its time: it is due or has a time to come, also
\* while it is paused, runs, failed or could not be given a next one (finish_run).
RecurringStaysScheduled ==
    \A j \in Job : row[j] \in {"Repeat", "Ended"} => j \in later \/ Passed(j, "Due")

\* A one-shot job that has succeeded has no time left, so that no tick claims it for
\* its time again: also when it is run by hand after its success and that run fails,
\* is skipped, ends after its lease or is cut short by a crash, and whether it is
\* paused and resumed meanwhile (finish_run writes the job as it is then).
SuccessIsFinal ==
    \A j \in succeeded : row[j] = "At" => j \notin later /\ ~Passed(j, "Due")

NoMoreFailures   == <>[][\A p \in Proc : ~FinishRun(p, "Failed")]_vars
RequestsStop     == <>[][\A j \in Job : ~RequestRunNow(j)]_vars
\* A run whose end cannot be written leaves its loop as a crash does, and may go on.
CrashesStop      ==
    <>[][\A p \in Proc :
            Crash(p) => p \in executing /\ ~Finishes(Head(batch[p]).job, "Succeeded")]_vars
ExecutorReturns  == \A p \in Proc : p \in executing ~> p \notin executing

Waiting(j) == Passed(j, "Due") /\ j \in enabled

\* Somebody pauses or deletes a cron job whose last occurrence has passed.
EndedJobsGo      == <>[](\A j \in enabled : row[j] # "Ended")

\* If the executor always returns, runs do not fail for ever and cron jobs that have
\* ended are put away, a due job is run, paused or deleted: claims that a tick leased
\* but did not run, and claims of crashed processes, come back when their lease ends.
\* (An ended cron job stays the oldest of the due ones, and every tick that runs it
\* drops the claims behind it.)
DueIsRun ==
    NoMoreFailures /\ CrashesStop /\ RequestsStop /\ ExecutorReturns /\ EndedJobsGo
        => \A j \in Job : Waiting(j) ~> ~Waiting(j)
-----------------------------------------------------------------------------
(* What tests and documentation say of the code, and the code does not keep *)

\* "Triggers an execution of the job at once" (POST .../run-now): the request is
\* not taken without being run.
RunNowIsRun ==
    [][\A p \in Proc, j \in Job :
          ClaimDueJobs(p) /\ Entry(j, "RunNow") \in ToSet(Claims)
             => Contains(batch'[p], Entry(j, "RunNow"))]_vars
=============================================================================

----------------------------- MODULE Maintenance -----------------------------
(***************************************************************************)
(* The maintenance worker (worker.py): each poll runs the scheduled scans  *)
(* that are due (api/monitoring.py), then the queued conversation archives *)
(* and then the queued summaries (archive_queue.py).  One exception ends   *)
(* the poll, whatever was still to be done.  Users create, change, delete  *)
(* and run schedules, and create, retry and delete archives               *)
(* (context_manager.py); a message may queue a summary.                    *)
(*                                                                         *)
(* The result of a scan and the text of a summary are a verdict; time is   *)
(* what a schedule waits for: the next day, or the ten minutes of a claim. *)
(***************************************************************************)
EXTENDS Integers, FiniteSets

CONSTANTS
  Schedules,   \* rows of scheduled_scans
  Archives,    \* rows of conversation_archives
  Summaries,   \* rows of conversation_summaries
  PollLimit,   \* settings.MONITORING_WORKER_BATCH_SIZE
  MaxDays,     \* times a schedule becomes due in a behaviour (a bound)
  MaxDeaths,   \* deaths of the worker in a behaviour (a bound)
  MaxRequests  \* changes and runs of schedules and retries of archives in a behaviour (a bound)

ASSUME MaintenanceAssumption ==
  /\ PollLimit \in Nat \ {0} /\ MaxDays \in Nat /\ MaxDeaths \in Nat /\ MaxRequests \in Nat
  /\ Archives \cap Summaries = {} /\ "none" \notin Schedules \cup Archives \cup Summaries

Jobs == Archives \cup Summaries
\* next: next_run_at is in the future, at most ten minutes away by a claim, or past.
\* history: some scan_history row refers to the schedule.
Schedule == [exists : BOOLEAN, on : BOOLEAN, next : {"later", "claimed", "due"}, history : BOOLEAN]
Job == [status : {"none", "queued", "processing", "completed", "failed", "deleted"}, expired : BOOLEAN]
PollStage == {"idle", "schedules", "archives", "summaries"}
\* rest: schedules read but not reached; scanning: the one that is executed;
\* claimed: jobs claimed but not reached; writing: the job whose summary is written.
Worker == [stage : PollStage, rest : SUBSET Schedules, scanning : Schedules \cup {"none"},
           claimed : SUBSET Jobs, writing : Jobs \cup {"none"}]

VARIABLES
  schedule,  \* [Schedules -> Schedule]
  job,       \* [Jobs -> Job]
  byhand,    \* SUBSET Schedules, runs a user started and that are still executed
  mworker,   \* Worker
  spent      \* [days : 0 .. MaxDays, deaths : 0 .. MaxDeaths, requests : 0 .. MaxRequests]

maintVars == <<schedule, job, byhand, mworker, spent>>

NoSchedule == [exists |-> FALSE, on |-> FALSE, next |-> "later", history |-> FALSE]
NoJob == [status |-> "none", expired |-> FALSE]
NoPolling == [stage |-> "idle", rest |-> {}, scanning |-> "none", claimed |-> {}, writing |-> "none"]

MaintInit ==
  /\ schedule = [c \in Schedules |-> NoSchedule]
  /\ job = [j \in Jobs |-> NoJob]
  /\ byhand = {}
  /\ mworker = NoPolling
  /\ spent = [days |-> 0, deaths |-> 0, requests |-> 0]

Spends(what, bound) == spent[what] < bound /\ spent' = [spent EXCEPT ![what] = @ + 1]

-----------------------------------------------------------------------------
(* Schedules.                                                               *)

CreateSchedule(c) ==
  /\ ~schedule[c].exists
  /\ schedule' = [schedule EXCEPT ![c] = [NoSchedule EXCEPT !.exists = TRUE, !.on = TRUE]]
  /\ UNCHANGED <<job, byhand, mworker, spent>>

\* A new frequency starts a new period; is_active may be switched.
UpdateSchedule(c) ==
  /\ schedule[c].exists
  /\ \E on \in BOOLEAN, next \in {"later", schedule[c].next} :
       schedule' = [schedule EXCEPT ![c] = [@ EXCEPT !.on = on, !.next = next]]
  /\ Spends("requests", MaxRequests)
  /\ UNCHANGED <<job, byhand, mworker>>

\* The row of scan_history must refer to a schedule, so a schedule that ever completed
\* a run cannot be deleted.
DeleteSchedule(c) ==
  /\ schedule[c].exists /\ ~schedule[c].history
  /\ schedule' = [schedule EXCEPT ![c] = NoSchedule]
  /\ UNCHANGED <<job, byhand, mworker, spent>>

\* A day, or the ten minutes of a claim, are over.
BecomesDue(c) ==
  /\ schedule[c].exists
  /\ \/ schedule[c].next = "later" /\ Spends("days", MaxDays)
     \/ schedule[c].next = "claimed" /\ UNCHANGED spent
  /\ schedule' = [schedule EXCEPT ![c] = [@ EXCEPT !.next = "due"]]
  /\ UNCHANGED <<job, byhand, mworker>>

\* The row after execute_scheduled_scan has ended well.
Rescheduled(row) == [row EXCEPT !.next = "later", !.history = TRUE]

\* POST /scheduled/{id}/run takes no claim and may overlap with the worker.
RunByHand(c) ==
  /\ schedule[c].exists /\ c \notin byhand
  /\ Spends("requests", MaxRequests)
  /\ byhand' = byhand \cup {c}
  /\ UNCHANGED <<schedule, job, mworker>>

\* It writes the next run when it ends well; a failure, or a deleted row, leaves it.
ByHandEnds(c) ==
  /\ c \in byhand
  /\ \/ UNCHANGED schedule
     \/ schedule[c].exists /\ schedule' = [schedule EXCEPT ![c] = Rescheduled(@)]
  /\ byhand' = byhand \ {c}
  /\ UNCHANGED <<job, mworker, spent>>

-----------------------------------------------------------------------------
(* The poll: scheduled scans.                                               *)

Polls(worker) == mworker' = worker
\* The exception that leaves a poll; the next one starts from the beginning.
PollFails == Polls(NoPolling)

DueNow == {c \in Schedules : schedule[c].exists /\ schedule[c].on /\ schedule[c].next = "due"}
\* The oldest schedules that are due, up to the limit; the order is left open.
StartPoll ==
  /\ mworker = NoPolling
  /\ \E some \in SUBSET DueNow :
       /\ Cardinality(some) = PollLimit \/ (some = DueNow /\ Cardinality(some) <= PollLimit)
       /\ Polls([NoPolling EXCEPT !.stage = "schedules", !.rest = some])
  /\ UNCHANGED <<schedule, job, byhand, spent>>

\* The claim: the run is due again in ten minutes, unless it ends before.
Claimed(row) == [row EXCEPT !.next = "claimed"]

\* The claim holds if the row is still active and its next_run_at the one read.
ClaimSchedule(c) ==
  /\ mworker.stage = "schedules" /\ mworker.scanning = "none" /\ c \in mworker.rest
  /\ IF c \in DueNow
     THEN /\ schedule' = [schedule EXCEPT ![c] = Claimed(@)]
          /\ Polls([mworker EXCEPT !.rest = @ \ {c}, !.scanning = c])
     ELSE Polls([mworker EXCEPT !.rest = @ \ {c}]) /\ UNCHANGED schedule
  /\ UNCHANGED <<job, byhand, spent>>

\* The scan ends well; a row that was deleted meanwhile fails the commit.
ScheduleRuns ==
  LET c == mworker.scanning
  IN  /\ c # "none"
      /\ IF schedule[c].exists
         THEN /\ schedule' = [schedule EXCEPT ![c] = Rescheduled(@)]
              /\ Polls([mworker EXCEPT !.scanning = "none"])
         ELSE PollFails /\ UNCHANGED schedule
      /\ UNCHANGED <<job, byhand, spent>>

MutantPostponed(row) == row
\* run_due_scheduled_scans puts off the schedule whose scan failed ...
Postponed(row) == IF row.exists THEN [row EXCEPT !.next = "later"] ELSE row

\* ... and raises, so the rest of the poll waits for the next one.
ScheduleFails ==
  LET c == mworker.scanning
  IN  /\ c # "none"
      /\ schedule' = [schedule EXCEPT ![c] = Postponed(@)]
      /\ PollFails
      /\ UNCHANGED <<job, byhand, spent>>

-----------------------------------------------------------------------------
(* The poll: archives, then summaries.                                      *)

\* create_archive_placeholder, and _compress_conversation_if_needed.
QueueJob(j) ==
  /\ job[j].status = "none"
  /\ job' = [job EXCEPT ![j] = [NoJob EXCEPT !.status = "queued"]]
  /\ UNCHANGED <<schedule, byhand, mworker, spent>>

\* retry_archive does not look at the status of the archive.
RetryArchive(a) ==
  /\ job[a].status \notin {"none", "deleted"}
  /\ Spends("requests", MaxRequests)
  /\ job' = [job EXCEPT ![a] = [NoJob EXCEPT !.status = "queued"]]
  /\ UNCHANGED <<schedule, byhand, mworker>>

\* delete_archive, with the summaries of the messages it held.
DeleteArchive(a) ==
  /\ job[a].status \notin {"none", "deleted"}
  /\ \E gone \in SUBSET {m \in Summaries : job[m].status # "none"} :
       job' = [j \in Jobs |-> IF j \in gone \cup {a} THEN [NoJob EXCEPT !.status = "deleted"]
                              ELSE job[j]]
  /\ UNCHANGED <<schedule, byhand, mworker, spent>>

\* What _claim accepts.
Pending(j) == job[j].status = "queued" \/ (job[j].status = "processing" /\ job[j].expired)

StageJobs(stage) == IF stage = "archives" THEN Archives ELSE Summaries
\* The stage before is over: claim everything that is pending, in one transaction.
ClaimJobs(stage) ==
  LET now == {j \in StageJobs(stage) : Pending(j)}
  IN  /\ mworker.rest = {} /\ mworker.scanning = "none"
      /\ mworker.claimed = {} /\ mworker.writing = "none"
      /\ mworker.stage = (IF stage = "archives" THEN "schedules" ELSE "archives")
      /\ job' = [j \in Jobs |-> IF j \in now THEN [status |-> "processing", expired |-> FALSE]
                                ELSE job[j]]
      /\ Polls([mworker EXCEPT !.stage = stage, !.claimed = now])
      /\ UNCHANGED <<schedule, byhand, spent>>

\* The next claimed job is read; it may be gone.
StartJob(j) ==
  /\ j \in mworker.claimed /\ mworker.writing = "none"
  /\ Polls([mworker EXCEPT !.claimed = @ \ {j},
                           !.writing = IF job[j].status = "deleted" THEN "none" ELSE j])
  /\ UNCHANGED <<schedule, job, byhand, spent>>

\* The summary, or the reason why there is none, is written without a test; a row
\* that was deleted meanwhile fails the commit.
EndJob ==
  LET j == mworker.writing
  IN  /\ j # "none"
      /\ IF job[j].status = "deleted"
         THEN PollFails /\ UNCHANGED job
         ELSE /\ \E verdict \in {"completed", "failed"} :
                   job' = [job EXCEPT ![j] = [NoJob EXCEPT !.status = verdict]]
              /\ Polls([mworker EXCEPT !.writing = "none"])
      /\ UNCHANGED <<schedule, byhand, spent>>

EndPoll ==
  /\ mworker.stage = "summaries" /\ mworker.claimed = {} /\ mworker.writing = "none"
  /\ Polls(NoPolling)
  /\ UNCHANGED <<schedule, job, byhand, spent>>

\* Leases are not renewed: they run out while the job waits its turn or is written.
JobLeaseExpires(j) ==
  /\ job[j].status = "processing" /\ ~job[j].expired
  /\ job' = [job EXCEPT ![j] = [@ EXCEPT !.expired = TRUE]]
  /\ UNCHANGED <<schedule, byhand, mworker, spent>>

WorkerDies ==
  /\ mworker # NoPolling
  /\ Spends("deaths", MaxDeaths)
  /\ Polls(NoPolling)
  /\ UNCHANGED <<schedule, job, byhand>>

-----------------------------------------------------------------------------
MaintRequest ==
  \/ \E c \in Schedules : CreateSchedule(c) \/ UpdateSchedule(c) \/ DeleteSchedule(c) \/ RunByHand(c)
  \/ \E j \in Jobs : QueueJob(j)
  \/ \E a \in Archives : RetryArchive(a) \/ DeleteArchive(a)
PollStep ==
  \/ StartPoll \/ ScheduleRuns \/ ScheduleFails \/ EndJob \/ EndPoll
  \/ \E c \in Schedules : ClaimSchedule(c)
  \/ \E stage \in {"archives", "summaries"} : ClaimJobs(stage)
  \/ \E j \in Jobs : StartJob(j)
MaintNext ==
  \/ MaintRequest \/ PollStep \/ WorkerDies
  \/ \E c \in Schedules : BecomesDue(c) \/ ByHandEnds(c)
  \/ \E j \in Jobs : JobLeaseExpires(j)

MaintSpec == MaintInit /\ [][MaintNext]_maintVars

-----------------------------------------------------------------------------
MaintTypeOK ==
  /\ schedule \in [Schedules -> Schedule]
  /\ job \in [Jobs -> Job]
  /\ byhand \subseteq Schedules
  /\ mworker \in Worker
  /\ spent \in [days : 0 .. MaxDays, deaths : 0 .. MaxDeaths, requests : 0 .. MaxRequests]

\* A schedule that is due has its run or is put off, and a queued archive or summary ends
\* or is deleted: neither is forgotten in the middle of a claim, by a death of the worker,
\* by a lease that runs out or by the failures of others that end the poll before it.
Waiting(c) == schedule[c].exists /\ schedule[c].on /\ schedule[c].next # "later"
Unsettled(j) == job[j].status \in {"queued", "processing"}
NothingForgotten ==
  /\ \A c \in Schedules : Waiting(c) ~> ~Waiting(c)
  /\ \A j \in Jobs : Unsettled(j) ~> ~Unsettled(j)
=============================================================================

-------------------------------- MODULE Page --------------------------------
(***************************************************************************)
(* The browser client (src/src/web/static/app.js): a page that launches    *)
(* jobs, polls the one it tracks and refreshes a table when it is over,    *)
(* against a server with the jobs of Jobs and JobService seen from outside.*)
(*                                                                         *)
(* JavaScript runs one continuation at a time, so what a function does     *)
(* between two awaits is one step.  Each fetch is a call in flight: the    *)
(* server handles it, or it fails (no connection, 503), and its answer     *)
(* arrives at any later time, in any order with the others.  The user may  *)
(* click and reload at any time, and another tab may launch jobs too.      *)
(*                                                                         *)
(* state.jobTimer and the job box follow state.jobId and are not kept      *)
(* apart from it.  The server never forgets a job, so the 404 of a poll is *)
(* left out, as are the tables, attach and detach, and the Cancel button:  *)
(* a job may end at any time anyhow.                                       *)
(***************************************************************************)
EXTENDS Integers, FiniteSets

CONSTANTS
  MaxJobs,     \* bound on the jobs
  MaxClicks,   \* bound on the scans the user asks for
  MaxFaults    \* bound on the fetches that fail and the reloads together

JobId == 1..MaxJobs
NoJob == 0

ASSUME PageAssumption == {MaxJobs, MaxClicks, MaxFaults} \subseteq Nat

\* "STOPPED" is FAILED or CANCELLED, which the page treats alike.
Over == {"COMPLETED", "STOPPED"}

VARIABLES
  phase,           \* the jobs at the server: "NONE", "ACTIVE" or over
  jobId,           \* state.jobId
  onComplete,      \* whose table state.jobOnComplete refreshes, or NoJob
  pollInFlight,    \* state.pollInFlight
  calls,           \* fetches in flight
  clicks, faults,
  told,            \* history: jobs this page was told it launched
  refreshed,       \* history: <<job over, job whose table was refreshed>>
  crossed          \* history: told of a launch while it tracked another job?

page == <<jobId, onComplete, pollInFlight>>
history == <<told, refreshed, crossed>>
bounds == <<clicks, faults>>
vars == <<phase, page, calls, bounds, history>>

\* A fetch: a name to tell it from others, what it asks for, the job it is
\* about, and its answer once there is one: "ok", a phase, or "error".
Call(id, kind, job) == [id |-> id, kind |-> kind, job |-> job, answer |-> "none"]

\* The calls with a new one.
Plus(set, kind, job) ==
  LET used == {m.id : m \in {c \in set : c.kind = kind}}
      free == CHOOSE i \in 1..(Cardinality(set) + 1) :
                i \notin used /\ \A k \in 1..(i - 1) : k \in used
  IN  set \cup {Call(free, kind, job)}

Sent(kind, job) == Plus(calls, kind, job)

Init ==
  /\ phase = [j \in JobId |-> "NONE"]
  /\ jobId = NoJob /\ onComplete = NoJob
  /\ pollInFlight = FALSE
  /\ calls = {Call(1, "status", NoJob)}
  /\ clicks = 0 /\ faults = 0
  /\ told = {} /\ refreshed = {} /\ crossed = FALSE

---------------------------------------------------------------------------
(* The server *)

Active == {j \in JobId : phase[j] = "ACTIVE"}

\* create hands out ids in order, while no job is active.
Created(j) ==
  /\ Active = {}
  /\ phase[j] = "NONE"
  /\ \A i \in 1..(j - 1) : phase[i] # "NONE"
  /\ phase' = [phase EXCEPT ![j] = "ACTIVE"]

OtherTab ==
  /\ \E j \in JobId : Created(j)
  /\ UNCHANGED <<page, calls, bounds, history>>

End(j) ==
  /\ phase[j] = "ACTIVE"
  /\ \E p \in Over : phase' = [phase EXCEPT ![j] = p]
  /\ UNCHANGED <<page, calls, bounds, history>>

Answered(m, j, a) == calls' = (calls \ {m}) \cup {[m EXCEPT !.job = j, !.answer = a]}

\* A launch: a job, or an error when one is active or it could not be run.
ServeLaunch(m) ==
  /\ m.kind = "launch"
  /\ \/ \E j \in JobId : Created(j) /\ Answered(m, j, "ok")
     \/ Answered(m, NoJob, "error") /\ UNCHANGED phase

\* h_job_get.
ServePoll(m) ==
  /\ m.kind = "poll"
  /\ Answered(m, m.job, phase[m.job])
  /\ UNCHANGED phase

\* h_status: the active job, unless the runner is seen free or the fetch fails.
ServeStatus(m) ==
  /\ m.kind = "status"
  /\ \E j \in Active \cup {NoJob} : Answered(m, j, "ok")
  /\ UNCHANGED phase

Serve(m) ==
  /\ m.answer = "none"
  /\ ServeLaunch(m) \/ ServePoll(m) \/ ServeStatus(m)
  /\ UNCHANGED <<page, bounds, history>>

\* A poll fails, or a launch after the server has handled it.
Fail(m) ==
  /\ faults < MaxFaults
  /\ \/ m.kind = "poll" /\ m.answer = "none"
     \/ m.kind = "launch" /\ m.answer = "ok"
  /\ faults' = faults + 1
  /\ Answered(m, m.job, "error")
  /\ UNCHANGED <<phase, page, clicks, history>>

---------------------------------------------------------------------------
(* The page *)

\* Variants: a poll does not wait for the one in flight; the callback of a
\* job that was stopped stays.
StartPollingAlways(rest, j, table) ==
  /\ jobId' = j
  /\ onComplete' = table
  /\ pollInFlight' = TRUE
  /\ calls' = Plus(rest, "poll", j)

StartPollingKeeps(rest, j, table) ==
  /\ jobId' = j
  /\ onComplete' = IF onComplete = NoJob THEN table ELSE onComplete
  /\ pollInFlight' = TRUE
  /\ calls' = IF pollInFlight THEN rest ELSE Plus(rest, "poll", j)

\* startPolling, with the call of pollOnce in it; rest are the calls left.
StartPolling(rest, j, table) ==
  /\ jobId' = j
  /\ onComplete' = table
  /\ pollInFlight' = TRUE
  /\ calls' = IF pollInFlight THEN rest ELSE Plus(rest, "poll", j)

\* firstScan, nextScan, patScan, patNext: up to the POST of launchScan.
Launch ==
  /\ clicks < MaxClicks
  /\ jobId = NoJob
  /\ clicks' = clicks + 1
  /\ calls' = Sent("launch", NoJob)
  /\ UNCHANGED <<phase, page, faults, history>>

\* The interval of pollOnce, while there is a job and no poll in flight.
Tick ==
  /\ jobId # NoJob /\ ~pollInFlight
  /\ pollInFlight' = TRUE
  /\ calls' = Sent("poll", jobId)
  /\ UNCHANGED <<phase, jobId, onComplete, bounds, history>>

\* F5: the page starts anew; what it had sent may still reach the server.
Reload ==
  /\ faults < MaxFaults
  /\ faults' = faults + 1
  /\ jobId' = NoJob /\ onComplete' = NoJob
  /\ pollInFlight' = FALSE
  /\ calls' = Plus({[m EXCEPT !.kind = "lost"] :
                      m \in {c \in calls : c.kind = "launch" /\ c.answer = "none"}},
                   "status", NoJob)
  /\ told' = {} /\ refreshed' = {} /\ crossed' = FALSE
  /\ UNCHANGED <<phase, clicks>>

\* A launch of the page before the reload reaches the server after it.
ServeLost(m) ==
  /\ m.kind = "lost"
  /\ calls' = calls \ {m}
  /\ UNCHANGED phase \/ \E j \in JobId : Created(j)
  /\ UNCHANGED <<page, bounds, history>>

\* The rest of launchScan.
LaunchAnswered(m) ==
  /\ m.kind = "launch"
  /\ \/ /\ m.answer = "error"
        /\ calls' = calls \ {m}
        /\ UNCHANGED <<page, told, crossed>>
     \/ /\ m.answer = "ok"
        /\ StartPolling(calls \ {m}, m.job, m.job)
        /\ told' = told \cup {m.job}
        /\ crossed' = (crossed \/ jobId # NoJob)
  /\ UNCHANGED <<phase, bounds, refreshed>>

\* Variant: refreshStatus does not ask whether the page tracks a job already.
StatusAnsweredAnyway(m) ==
  /\ m.kind = "status"
  /\ LET found == m.answer = "ok" /\ m.job # NoJob
     IN  \/ found /\ StartPolling(calls \ {m}, m.job, m.job)
         \/ ~found /\ calls' = calls \ {m} /\ UNCHANGED page
  /\ UNCHANGED <<phase, bounds, history>>

\* The rest of refreshStatus: a job found running is polled.
StatusAnswered(m) ==
  /\ m.kind = "status"
  /\ LET found == m.answer = "ok" /\ m.job # NoJob /\ jobId = NoJob
     IN  \/ found /\ StartPolling(calls \ {m}, m.job, m.job)
         \/ ~found /\ calls' = calls \ {m} /\ UNCHANGED page
  /\ UNCHANGED <<phase, bounds, history>>

\* Variant: finishJob does not stop polling when a job has failed.
FinishKeepsPolling(m) ==
  /\ jobId' = IF m.answer = "STOPPED" THEN jobId ELSE NoJob
  /\ \/ /\ m.answer = "COMPLETED"
        /\ onComplete' = NoJob
        /\ refreshed' = refreshed \cup {<<m.job, onComplete>>}
        /\ calls' = Plus(calls \ {m}, "status", NoJob)
     \/ /\ m.answer # "COMPLETED"
        /\ calls' = calls \ {m}
        /\ UNCHANGED <<onComplete, refreshed>>

\* finishJob: a completed job refreshes a table, and the status.
Finish(m) ==
  /\ jobId' = NoJob
  /\ \/ /\ m.answer = "COMPLETED"
        /\ onComplete' = NoJob
        /\ refreshed' = refreshed \cup {<<m.job, onComplete>>}
        /\ calls' = Plus(calls \ {m}, "status", NoJob)
     \/ /\ m.answer # "COMPLETED"
        /\ calls' = calls \ {m}
        /\ UNCHANGED <<onComplete, refreshed>>

\* Variant: a poll that fails leaves the flag up.
PollAnsweredLeavesFlag(m) ==
  /\ m.kind = "poll"
  /\ pollInFlight' = (m.answer = "error")
  /\ \/ m.answer \in Over /\ Finish(m)
     \/ m.answer \notin Over /\ calls' = calls \ {m} /\ UNCHANGED <<jobId, onComplete, refreshed>>
  /\ UNCHANGED <<phase, bounds, told, crossed>>

\* The rest of pollOnce, whatever the page tracks by now.
PollAnswered(m) ==
  /\ m.kind = "poll"
  /\ pollInFlight' = FALSE
  /\ \/ m.answer \in Over /\ Finish(m)
     \/ m.answer \notin Over /\ calls' = calls \ {m} /\ UNCHANGED <<jobId, onComplete, refreshed>>
  /\ UNCHANGED <<phase, bounds, told, crossed>>

Arrive(m) ==
  /\ m.answer # "none"
  /\ LaunchAnswered(m) \/ StatusAnswered(m) \/ PollAnswered(m)

---------------------------------------------------------------------------
User == Launch \/ Reload

Next ==
  \/ User \/ OtherTab \/ Tick
  \/ \E j \in JobId : End(j)
  \/ \E m \in calls : Serve(m) \/ ServeLost(m) \/ Fail(m) \/ Arrive(m)

Spec == Init /\ [][Next]_vars

\* Jobs end (JobRunner), timers fire, fetches resolve and answers arrive.
Resolve(kind) == \E m \in calls : m.kind = kind /\ (Serve(m) \/ Arrive(m))

FairSpec ==
  /\ Spec
  /\ \A j \in JobId : WF_vars(End(j))
  /\ WF_vars(Tick)
  /\ \A k \in {"poll", "status", "launch"} : WF_vars(Resolve(k))

---------------------------------------------------------------------------
(* Properties *)

Kinds == {"launch", "status", "poll", "lost"}

TypeOK ==
  /\ phase \in [JobId -> {"NONE", "ACTIVE"} \cup Over]
  /\ jobId \in JobId \cup {NoJob} /\ onComplete \in JobId \cup {NoJob}
  /\ told \subseteq JobId /\ crossed \in BOOLEAN
  /\ \A m \in calls :
       /\ DOMAIN m = {"id", "kind", "job", "answer"}
       /\ m.kind \in Kinds /\ m.job \in JobId \cup {NoJob}
       /\ m.kind = "poll" \/ (m.kind = "launch" /\ m.answer = "ok") => m.job \in JobId
  /\ pollInFlight = (\E m \in calls : m.kind = "poll")

\* A job the page was told it launched is polled until it is over, whatever
\* else is on its way: the status of a reload that comes late, an earlier poll
\* or one that fails, other launches (app.js:107, 299-388).  Excepted is a page
\* that was told of a launch while it tracked another job, until it is
\* reloaded: startPolling lets it, and RefreshesTable shows what comes of it.
TracksItsJob ==
  ~crossed => \A j \in told : phase[j] = "ACTIVE" => jobId = j

\* "refresca la tabla que lanzo el job" (app.js:366-367).
RefreshesTable == \A r \in refreshed : r[1] = r[2]

\* The same of a page that tracked no other job when a launch was answered:
\* the callback a stopped job leaves behind serves no later one.
RefreshesItsTable == ~crossed => RefreshesTable

\* What a call in flight says of the job it is about and of the page: of the
\* polls there is one at most, an answer that a job is over stays right, and
\* the poll is about the job that is tracked unless launches have crossed.
CallsFit ==
  \A m \in calls :
    /\ m.kind = "poll" =>
         /\ \A n \in calls : n.kind = "poll" => n = m
         /\ m.answer \in Over => phase[m.job] \in Over
         /\ ~crossed => m.job = jobId
    /\ m.kind = "launch" /\ m.answer = "ok" => phase[m.job] # "NONE"

IInv ==
  /\ TypeOK /\ CallsFit /\ TracksItsJob /\ RefreshesItsTable
  /\ jobId # NoJob => onComplete = jobId
  /\ \A j \in told : phase[j] # "NONE"

\* "El polling detecta el estado final y limpia la UI" (app.js:387): the job
\* box does not stay, whatever the user does and whatever fails on the way.
UiSettles == jobId # NoJob ~> jobId = NoJob

\* The results of a job the page launched are shown when it completes, unless
\* the page is reloaded or launches have crossed.
ResultsShown ==
  \A j \in JobId :
    j \in told /\ phase[j] = "COMPLETED" ~> <<j, j>> \in refreshed \/ told = {} \/ crossed
===========================================================================

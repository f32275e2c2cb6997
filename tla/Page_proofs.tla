----------------------------- MODULE Page_proofs -----------------------------
EXTENDS Page, TLAPS

\* The value that stands for no job is not one.
LEMMA NoJobIsNone == NoJob \notin JobId
BY PageAssumption DEF NoJob, JobId

\* A call has the fields it is given.
LEMMA CallFields ==
  ASSUME NEW i, NEW k, NEW j, NEW n, n = Call(i, k, j)
  PROVE  /\ DOMAIN n = {"id", "kind", "job", "answer"}
         /\ n.kind = k /\ n.job = j /\ n.answer = "none"
BY DEF Call

\* Plus adds one call of the kind and about the job asked for.
LEMMA PlusOne ==
  ASSUME NEW S, NEW kind, NEW job
  PROVE  \E n : /\ Plus(S, kind, job) = S \cup {n}
                /\ DOMAIN n = {"id", "kind", "job", "answer"}
                /\ n.kind = kind /\ n.job = job /\ n.answer = "none"
<1>1. PICK i : Plus(S, kind, job) = S \cup {Call(i, kind, job)}
  BY Zenon DEF Plus
<1>2. QED
  BY <1>1, CallFields

\* What one call has to satisfy, beside the others.
Fits(m) ==
  /\ DOMAIN m = {"id", "kind", "job", "answer"}
  /\ m.kind \in Kinds /\ m.job \in JobId \cup {NoJob}
  /\ m.kind = "poll" \/ (m.kind = "launch" /\ m.answer = "ok") => m.job \in JobId
  /\ m.kind = "poll" =>
       /\ \A n \in calls : n.kind = "poll" => n = m
       /\ m.answer \in Over => phase[m.job] \in Over
       /\ ~crossed => m.job = jobId
  /\ m.kind = "launch" /\ m.answer = "ok" => phase[m.job] # "NONE"

\* The rest of the invariant.
PhaseType == phase \in [JobId -> {"NONE", "ACTIVE"} \cup Over]

FlagFits == pollInFlight = (\E m \in calls : m.kind = "poll")

PageFits ==
  /\ jobId \in JobId \cup {NoJob} /\ onComplete \in JobId \cup {NoJob}
  /\ told \subseteq JobId /\ crossed \in BOOLEAN
  /\ TracksItsJob /\ RefreshesItsTable
  /\ jobId # NoJob => onComplete = jobId
  /\ \A j \in told : phase[j] # "NONE"

LEMMA Parts == IInv => PhaseType /\ FlagFits /\ PageFits /\ \A m \in calls : Fits(m)
BY DEF IInv, TypeOK, CallsFit, PhaseType, FlagFits, PageFits, Fits

LEMMA Whole == PhaseType /\ FlagFits /\ PageFits /\ (\A m \in calls : Fits(m)) => IInv
BY DEF IInv, TypeOK, CallsFit, PhaseType, FlagFits, PageFits, Fits

\* The same of the next state.
LEMMA WholeNext == PhaseType' /\ FlagFits' /\ PageFits' /\ (\A m \in calls' : Fits(m)') => IInv'
BY DEF IInv, TypeOK, CallsFit, PhaseType, FlagFits, PageFits, Fits

LEMMA InitInv == Init => IInv
<1> SUFFICES ASSUME Init PROVE IInv
  OBVIOUS
<1>0. PICK n : calls = {n} /\ n = Call(1, "status", NoJob)
  BY DEF Init
<1>1. /\ DOMAIN n = {"id", "kind", "job", "answer"}
      /\ n.kind = "status" /\ n.job = NoJob /\ n.answer = "none"
  BY <1>0, CallFields
<1>2. \A m \in calls : Fits(m)
  BY <1>0, <1>1 DEF Fits, Kinds
<1>3. PhaseType
  BY DEF Init, PhaseType
<1>4. FlagFits
  <2>1. ~ \E m \in calls : m.kind = "poll"
    BY <1>0, <1>1
  <2>2. QED
    BY <2>1 DEF Init, FlagFits
<1>5. PageFits
  BY DEF Init, PageFits, TracksItsJob, RefreshesItsTable, RefreshesTable
<1>6. QED
  BY <1>2, <1>3, <1>4, <1>5, Whole

\* What the server does to its jobs: one that is over stays over, one that is
\* there stays there, and a new one was not there.
Grows ==
  /\ PhaseType'
  /\ \A k \in JobId : phase[k] \in Over => phase'[k] \in Over
  /\ \A k \in JobId : phase[k] # "NONE" => phase'[k] # "NONE"
  /\ \A k \in JobId : phase'[k] = "ACTIVE" => phase[k] \in {"ACTIVE", "NONE"}

LEMMA CreatedGrows ==
  ASSUME IInv, NEW j \in JobId, Created(j)
  PROVE  Grows /\ phase'[j] = "ACTIVE"
BY Parts DEF Created, Grows, PhaseType, Over

LEMMA EndGrows ==
  ASSUME IInv, NEW j \in JobId, End(j)
  PROVE  Grows
BY Parts DEF End, Grows, PhaseType, Over

LEMMA SameGrows ==
  ASSUME IInv, UNCHANGED phase
  PROVE  Grows
BY Parts DEF Grows, PhaseType, Over

\* Jobs that change leave what the page knows of them right.
LEMMA PageStays ==
  ASSUME IInv, Grows, UNCHANGED <<page, history>>
  PROVE  PageFits'
BY Parts DEF PageFits, Grows, PhaseType, page, history, TracksItsJob, RefreshesItsTable, RefreshesTable

LEMMA PhaseStep ==
  ASSUME IInv, Grows, UNCHANGED <<page, history, calls>>
  PROVE  IInv'
<1>1. PhaseType /\ FlagFits /\ PageFits /\ \A c \in calls : Fits(c)
  BY Parts
<1>2. FlagFits'
  BY <1>1 DEF FlagFits, page
<1>3. ASSUME NEW c \in calls PROVE Fits(c)'
  BY <1>1, <1>3 DEF Fits, Grows, page, history
<1>4. QED
  BY <1>2, <1>3, PageStays, WholeNext DEF Grows

\* The server answers a call: the same call, of the same kind, now answered.
LEMMA AnswerStep ==
  ASSUME IInv, Grows, UNCHANGED <<page, history>>,
         NEW m \in calls, NEW j \in JobId \cup {NoJob}, NEW a,
         Answered(m, j, a),
         m.kind = "poll" => j = m.job /\ (a \in Over => phase'[j] \in Over),
         m.kind = "launch" /\ a = "ok" => j \in JobId /\ phase'[j] # "NONE"
  PROVE  IInv'
<1> DEFINE n == [m EXCEPT !.job = j, !.answer = a]
<1>0. PhaseType /\ FlagFits /\ PageFits /\ \A c \in calls : Fits(c)
  BY Parts
<1>1. calls' = (calls \ {m}) \cup {n}
  BY DEF Answered
<1>2. /\ DOMAIN n = {"id", "kind", "job", "answer"}
      /\ n.kind = m.kind /\ n.job = j /\ n.answer = a
  BY <1>0 DEF Fits
<1> HIDE DEF n
<1>3. Fits(n)'
  BY <1>0, <1>1, <1>2 DEF Fits, page, history, PageFits
<1>4. ASSUME NEW c \in calls, c # m PROVE Fits(c)'
  BY <1>0, <1>1, <1>2, <1>4 DEF Fits, page, history, PageFits, Grows
<1>5. FlagFits'
  <2>1. (\E c \in calls' : c.kind = "poll") <=> (\E c \in calls : c.kind = "poll")
    BY <1>1, <1>2
  <2>2. QED
    BY <1>0, <2>1 DEF FlagFits, page
<1>6. QED
  BY <1>1, <1>3, <1>4, <1>5, PageStays, WholeNext DEF Grows

\* Serve and Fail: each answer is an AnswerStep.
LEMMA ServeStep ==
  ASSUME IInv, NEW m \in calls, Serve(m)
  PROVE  IInv'
<1>0. Fits(m)
  BY Parts
<1>1. NoJob \in JobId \cup {NoJob} /\ UNCHANGED <<page, history>>
  BY DEF Serve
<1>2. CASE ServeLaunch(m)
  <2>1. ASSUME NEW j \in JobId, Created(j), Answered(m, j, "ok") PROVE IInv'
    <3>1. Grows /\ phase'[j] # "NONE"
      BY <2>1, CreatedGrows
    <3>2. m.kind # "poll"
      BY <1>2 DEF ServeLaunch
    <3>3. QED
      BY <1>1, <2>1, <3>1, <3>2, AnswerStep
  <2>2. ASSUME Answered(m, NoJob, "error"), UNCHANGED phase PROVE IInv'
    <3>1. Grows
      BY <2>2, SameGrows
    <3>2. m.kind # "poll"
      BY <1>2 DEF ServeLaunch
    <3>3. QED
      BY <1>1, <2>2, <3>1, <3>2, AnswerStep
  <2>3. QED
    BY <1>2, <2>1, <2>2 DEF ServeLaunch
<1>3. CASE ServePoll(m)
  <2>1. m.kind # "launch" /\ m.job \in JobId \cup {NoJob}
    BY <1>0, <1>3 DEF ServePoll, Fits
  <2>2. Grows /\ Answered(m, m.job, phase[m.job]) /\ UNCHANGED phase
    BY <1>3, SameGrows DEF ServePoll
  <2>3. QED
    BY <1>1, <2>1, <2>2, AnswerStep
<1>4. CASE ServeStatus(m)
  <2>1. PICK j \in JobId \cup {NoJob} : Answered(m, j, "ok")
    BY <1>4 DEF ServeStatus, Active
  <2>2. Grows /\ m.kind # "poll" /\ m.kind # "launch"
    BY <1>4, SameGrows DEF ServeStatus
  <2>3. QED
    BY <1>1, <2>1, <2>2, AnswerStep
<1>5. QED
  BY <1>2, <1>3, <1>4 DEF Serve

LEMMA FailStep ==
  ASSUME IInv, NEW m \in calls, Fail(m)
  PROVE  IInv'
<1>1. m.job \in JobId \cup {NoJob}
  BY Parts DEF Fits
<1>2. Grows
  BY SameGrows DEF Fail
<1>3. Answered(m, m.job, "error") /\ UNCHANGED <<page, history>>
  BY DEF Fail
<1>4. "error" \notin Over
  BY DEF Over
<1>5. QED
  BY <1>1, <1>2, <1>3, <1>4, AnswerStep

\* The page forgets a call: what it says of the others stays.
LEMMA DropStep ==
  ASSUME IInv, Grows, UNCHANGED <<page, history>>,
         NEW m \in calls, m.kind # "poll", calls' = calls \ {m}
  PROVE  IInv'
<1>0. PhaseType /\ FlagFits /\ PageFits /\ \A c \in calls : Fits(c)
  BY Parts
<1>1. ASSUME NEW c \in calls, c # m PROVE Fits(c)'
  BY <1>0, <1>1 DEF Fits, page, history, PageFits, Grows
<1>2. FlagFits'
  <2>1. (\E c \in calls' : c.kind = "poll") <=> (\E c \in calls : c.kind = "poll")
    OBVIOUS
  <2>2. QED
    BY <1>0, <2>1 DEF FlagFits, page
<1>3. QED
  BY <1>1, <1>2, PageStays, WholeNext DEF Grows

LEMMA ServeLostStep ==
  ASSUME IInv, NEW m \in calls, ServeLost(m)
  PROVE  IInv'
<1>1. Grows
  BY SameGrows, CreatedGrows DEF ServeLost
<1>2. QED
  BY <1>1, DropStep DEF ServeLost

LEMMA LaunchStep ==
  ASSUME IInv, Launch
  PROVE  IInv'
<1>0. PhaseType /\ FlagFits /\ PageFits /\ \A c \in calls : Fits(c)
  BY Parts
<1>1. PICK n : /\ calls' = calls \cup {n}
               /\ DOMAIN n = {"id", "kind", "job", "answer"}
               /\ n.kind = "launch" /\ n.job = NoJob /\ n.answer = "none"
  BY PlusOne DEF Launch, Sent
<1>2. Fits(n)'
  BY <1>0, <1>1 DEF Fits, Kinds, Launch, page
<1>3. ASSUME NEW c \in calls PROVE Fits(c)'
  BY <1>0, <1>1, <1>3 DEF Fits, Launch, page, history, PageFits
<1>4. FlagFits'
  <2>1. (\E c \in calls' : c.kind = "poll") <=> (\E c \in calls : c.kind = "poll")
    BY <1>1
  <2>2. QED
    BY <1>0, <2>1 DEF FlagFits, Launch, page
<1>5. PageFits'
  BY <1>0 DEF PageFits, Launch, page, history, TracksItsJob, RefreshesItsTable, RefreshesTable
<1>6. PhaseType'
  BY <1>0 DEF PhaseType, Launch
<1>7. QED
  BY <1>1, <1>2, <1>3, <1>4, <1>5, <1>6, WholeNext

LEMMA TickStep ==
  ASSUME IInv, Tick
  PROVE  IInv'
<1>0. PhaseType /\ FlagFits /\ PageFits /\ \A c \in calls : Fits(c)
  BY Parts
<1>1. PICK n : /\ calls' = calls \cup {n}
               /\ DOMAIN n = {"id", "kind", "job", "answer"}
               /\ n.kind = "poll" /\ n.job = jobId /\ n.answer = "none"
  BY PlusOne DEF Tick, Sent
<1>2. \A c \in calls : c.kind # "poll"
  BY <1>0 DEF FlagFits, Tick
<1>3. Fits(n)'
  BY <1>0, <1>1, <1>2 DEF Fits, Kinds, Tick, PageFits, history, Over
<1>4. ASSUME NEW c \in calls PROVE Fits(c)'
  BY <1>0, <1>1, <1>2, <1>4 DEF Fits, Tick, history
<1>5. FlagFits'
  <2>1. \E c \in calls' : c.kind = "poll"
    BY <1>1
  <2>2. QED
    BY <2>1 DEF FlagFits, Tick
<1>6. PageFits'
  BY <1>0 DEF PageFits, Tick, history, TracksItsJob, RefreshesItsTable, RefreshesTable
<1>7. PhaseType'
  BY <1>0 DEF PhaseType, Tick
<1>8. QED
  BY <1>1, <1>3, <1>4, <1>5, <1>6, <1>7, WholeNext

LEMMA ReloadStep ==
  ASSUME IInv, Reload
  PROVE  IInv'
<1> DEFINE sent == {c \in calls : c.kind = "launch" /\ c.answer = "none"}
           lost == {[c EXCEPT !.kind = "lost"] : c \in sent}
<1>0. PhaseType /\ FlagFits /\ PageFits /\ \A c \in calls : Fits(c)
  BY Parts
<1>1. calls' = Plus(lost, "status", NoJob)
  BY DEF Reload
<1> HIDE DEF lost
<1>2. PICK n : /\ calls' = lost \cup {n}
               /\ DOMAIN n = {"id", "kind", "job", "answer"}
               /\ n.kind = "status" /\ n.job = NoJob /\ n.answer = "none"
  BY <1>1, PlusOne
<1>3. ASSUME NEW c \in lost
      PROVE  /\ DOMAIN c = {"id", "kind", "job", "answer"}
             /\ c.kind = "lost" /\ c.job \in JobId \cup {NoJob}
  <2>1. PICK b \in calls : c = [b EXCEPT !.kind = "lost"]
    BY <1>3 DEF lost
  <2>2. DOMAIN b = {"id", "kind", "job", "answer"} /\ b.job \in JobId \cup {NoJob}
    BY <1>0 DEF Fits
  <2>3. QED
    BY <2>1, <2>2
<1>4. ASSUME NEW c \in calls' PROVE Fits(c)'
  BY <1>2, <1>3 DEF Fits, Kinds
<1>5. FlagFits'
  <2>1. ~ \E c \in calls' : c.kind = "poll"
    BY <1>2, <1>3
  <2>2. QED
    BY <2>1 DEF FlagFits, Reload
<1>6. PageFits'
  BY DEF PageFits, Reload, TracksItsJob, RefreshesItsTable, RefreshesTable
<1>7. PhaseType'
  BY <1>0 DEF PhaseType, Reload
<1>8. QED
  BY <1>4, <1>5, <1>6, <1>7, WholeNext

\* The page starts to poll a job.  A poll in flight then is about another job
\* that it tracked: launches have crossed.
LEMMA StartStep ==
  ASSUME IInv, UNCHANGED <<phase, refreshed>>,
         NEW m \in calls, m.kind # "poll", m.job \in JobId,
         crossed' \in BOOLEAN, ~crossed' => ~crossed /\ jobId = NoJob,
         StartPolling(calls \ {m}, m.job, m.job),
         told' = told \/ (told' = told \cup {m.job} /\ phase[m.job] # "NONE")
  PROVE  IInv'
<1>0. PhaseType /\ FlagFits /\ PageFits /\ \A c \in calls : Fits(c)
  BY Parts
<1>1. jobId' = m.job /\ onComplete' = m.job /\ pollInFlight' = TRUE
  BY DEF StartPolling
<1>2. PhaseType'
  BY <1>0 DEF PhaseType
<1>3. PageFits'
  <2>1. TracksItsJob'
    BY <1>0, <1>1, NoJobIsNone DEF PageFits, TracksItsJob
  <2>2. RefreshesItsTable'
    BY <1>0 DEF PageFits, RefreshesItsTable, RefreshesTable
  <2>3. QED
    BY <1>0, <1>1, <2>1, <2>2 DEF PageFits
<1>4. CASE pollInFlight
  <2>1. calls' = calls \ {m}
    BY <1>4 DEF StartPolling
  <2>2. PICK p \in calls : p.kind = "poll"
    BY <1>0, <1>4 DEF FlagFits
  <2>3. crossed'
    BY <1>0, <2>2, NoJobIsNone DEF Fits
  <2>4. ASSUME NEW c \in calls' PROVE Fits(c)'
    BY <1>0, <2>1, <2>3, <2>4 DEF Fits, PageFits
  <2>5. FlagFits'
    <3>1. \E c \in calls' : c.kind = "poll"
      BY <2>1, <2>2
    <3>2. QED
      BY <1>1, <3>1 DEF FlagFits
  <2>6. QED
    BY <1>2, <1>3, <2>4, <2>5, WholeNext
<1>5. CASE ~pollInFlight
  <2>1. PICK n : /\ calls' = (calls \ {m}) \cup {n}
                 /\ DOMAIN n = {"id", "kind", "job", "answer"}
                 /\ n.kind = "poll" /\ n.job = m.job /\ n.answer = "none"
    BY <1>5, PlusOne DEF StartPolling
  <2>2. \A c \in calls : c.kind # "poll"
    BY <1>0, <1>5 DEF FlagFits
  <2>3. Fits(n)'
    BY <1>1, <2>1, <2>2 DEF Fits, Kinds, Over
  <2>4. ASSUME NEW c \in calls, c # m PROVE Fits(c)'
    <3>1. c.kind # "poll" /\ Fits(c)
      BY <1>0, <2>2
    <3>2. QED
      BY <3>1 DEF Fits
  <2>5. FlagFits'
    <3>1. \E c \in calls' : c.kind = "poll"
      BY <2>1
    <3>2. QED
      BY <1>1, <3>1 DEF FlagFits
  <2>6. QED
    BY <1>2, <1>3, <2>1, <2>3, <2>4, <2>5, WholeNext
<1>6. QED
  BY <1>4, <1>5

LEMMA LaunchAnsweredStep ==
  ASSUME IInv, NEW m \in calls, m.answer # "none", LaunchAnswered(m)
  PROVE  IInv'
<1>0. PageFits /\ Fits(m) /\ m.kind = "launch"
  BY Parts DEF LaunchAnswered
<1>1. CASE m.answer = "error"
  <2>1. calls' = calls \ {m} /\ UNCHANGED <<phase, page, history>>
    BY <1>1 DEF LaunchAnswered, history
  <2>2. QED
    BY <1>0, <2>1, SameGrows, DropStep
<1>2. CASE m.answer = "ok"
  <2>1. /\ UNCHANGED <<phase, refreshed>>
        /\ StartPolling(calls \ {m}, m.job, m.job)
        /\ told' = told \cup {m.job}
        /\ crossed' \in BOOLEAN /\ (~crossed' => ~crossed /\ jobId = NoJob)
    BY <1>2 DEF LaunchAnswered
  <2>2. m.job \in JobId /\ phase[m.job] # "NONE"
    BY <1>0, <1>2 DEF Fits
  <2>3. QED
    BY <1>0, <2>1, <2>2, StartStep
<1>3. QED
  BY <1>1, <1>2 DEF LaunchAnswered

LEMMA StatusAnsweredStep ==
  ASSUME IInv, NEW m \in calls, StatusAnswered(m)
  PROVE  IInv'
<1>0. Fits(m) /\ m.kind = "status"
  BY Parts DEF StatusAnswered
<1>1. CASE m.answer = "ok" /\ m.job # NoJob /\ jobId = NoJob
  <2>1. /\ UNCHANGED <<phase, refreshed, crossed, told>>
        /\ StartPolling(calls \ {m}, m.job, m.job)
    BY <1>1 DEF StatusAnswered, history
  <2>2. m.job \in JobId /\ crossed \in BOOLEAN
    BY <1>0, <1>1, Parts DEF Fits, PageFits
  <2>3. QED
    BY <1>0, <1>1, <2>1, <2>2, StartStep
<1>2. CASE ~(m.answer = "ok" /\ m.job # NoJob /\ jobId = NoJob)
  <2>1. calls' = calls \ {m} /\ UNCHANGED <<phase, page, history>>
    BY <1>2 DEF StatusAnswered
  <2>2. QED
    BY <1>0, <2>1, SameGrows, DropStep
<1>3. QED
  BY <1>1, <1>2

\* An answered poll is the only one, so none is left; what it found is over.
LEMMA PollAnsweredStep ==
  ASSUME IInv, NEW m \in calls, PollAnswered(m)
  PROVE  IInv'
<1>0. PhaseType /\ FlagFits /\ PageFits /\ \A c \in calls : Fits(c)
  BY Parts
<1>1. /\ m.kind = "poll" /\ m.job \in JobId
      /\ \A c \in calls : c # m => c.kind # "poll"
      /\ ~crossed => m.job = jobId /\ onComplete = jobId
  BY <1>0, NoJobIsNone DEF PollAnswered, Fits, PageFits
<1>2. pollInFlight' = FALSE /\ UNCHANGED <<phase, told, crossed>>
  BY DEF PollAnswered
<1>3. PhaseType'
  BY <1>0, <1>2 DEF PhaseType
<1>4. ASSUME NEW c \in calls, c # m PROVE Fits(c)'
  <2>1. c.kind # "poll" /\ Fits(c)
    BY <1>0, <1>1, <1>4
  <2>2. QED
    BY <1>2, <2>1 DEF Fits
<1>5. CASE m.answer = "COMPLETED"
  <2>1. /\ jobId' = NoJob /\ onComplete' = NoJob
        /\ refreshed' = refreshed \cup {<<m.job, onComplete>>}
        /\ calls' = Plus(calls \ {m}, "status", NoJob)
    BY <1>5 DEF PollAnswered, Finish, Over
  <2>2. PICK n : /\ calls' = (calls \ {m}) \cup {n}
                 /\ DOMAIN n = {"id", "kind", "job", "answer"}
                 /\ n.kind = "status" /\ n.job = NoJob /\ n.answer = "none"
    BY <2>1, PlusOne
  <2>3. Fits(n)'
    BY <2>2 DEF Fits, Kinds
  <2>4. FlagFits'
    <3>1. ~ \E c \in calls' : c.kind = "poll"
      BY <1>1, <2>2
    <3>2. QED
      BY <1>2, <3>1 DEF FlagFits
  <2>5. PageFits'
    <3>1. TracksItsJob'
      <4>1. m.answer \in Over
        BY <1>5 DEF Over
      <4>2. phase[m.job] # "ACTIVE"
        BY <1>0, <1>1, <4>1 DEF Fits, Over
      <4>3. QED
        BY <1>0, <1>1, <1>2, <4>2 DEF PageFits, TracksItsJob
    <3>2. RefreshesItsTable'
      BY <1>0, <1>1, <1>2, <2>1 DEF PageFits, RefreshesItsTable, RefreshesTable
    <3>3. QED
      BY <1>0, <1>2, <2>1, <3>1, <3>2 DEF PageFits
  <2>6. QED
    BY <1>3, <1>4, <2>2, <2>3, <2>4, <2>5, WholeNext
<1>6. CASE m.answer # "COMPLETED"
  <2>1. /\ calls' = calls \ {m} /\ UNCHANGED <<onComplete, refreshed>>
        /\ \/ m.answer \in Over /\ jobId' = NoJob
           \/ m.answer \notin Over /\ jobId' = jobId
    BY <1>6 DEF PollAnswered, Finish
  <2>2. FlagFits'
    <3>1. ~ \E c \in calls' : c.kind = "poll"
      BY <1>1, <2>1
    <3>2. QED
      BY <1>2, <3>1 DEF FlagFits
  <2>3. PageFits'
    <3>1. TracksItsJob'
      <4>1. CASE m.answer \in Over
        <5>1. phase[m.job] # "ACTIVE"
          BY <1>0, <1>1, <4>1 DEF Fits, Over
        <5>2. QED
          BY <1>0, <1>1, <1>2, <5>1 DEF PageFits, TracksItsJob
      <4>2. CASE m.answer \notin Over
        BY <1>0, <1>2, <2>1, <4>2 DEF PageFits, TracksItsJob
      <4>3. QED
        BY <4>1, <4>2
    <3>2. RefreshesItsTable'
      BY <1>0, <1>2, <2>1 DEF PageFits, RefreshesItsTable, RefreshesTable
    <3>3. QED
      BY <1>0, <1>2, <2>1, <3>1, <3>2 DEF PageFits
  <2>4. QED
    BY <1>3, <1>4, <2>1, <2>2, <2>3, WholeNext
<1>7. QED
  BY <1>5, <1>6

LEMMA InvStep == IInv /\ [Next]_vars => IInv'
<1> SUFFICES ASSUME IInv, [Next]_vars PROVE IInv'
  OBVIOUS
<1>1. CASE User
  BY <1>1, LaunchStep, ReloadStep DEF User
<1>2. CASE OtherTab
  <2>1. Grows
    BY <1>2, CreatedGrows DEF OtherTab
  <2>2. QED
    BY <1>2, <2>1, PhaseStep DEF OtherTab
<1>3. CASE Tick
  BY <1>3, TickStep
<1>4. ASSUME NEW j \in JobId, End(j) PROVE IInv'
  BY <1>4, EndGrows, PhaseStep DEF End
<1>5. ASSUME NEW m \in calls, Arrive(m) PROVE IInv'
  BY <1>5, LaunchAnsweredStep, StatusAnsweredStep, PollAnsweredStep DEF Arrive
<1>6. CASE UNCHANGED vars
  BY <1>6, SameGrows, PhaseStep DEF vars, page, history
<1>7. QED
  BY <1>1, <1>2, <1>3, <1>4, <1>5, <1>6, ServeStep, ServeLostStep, FailStep DEF Next

\* Types, and the flag of pollOnce goes with the poll in flight, for any
\* number of jobs, clicks and faults (app.js:330-341).
THEOREM TypeCorrect == Spec => []TypeOK
<1>1. IInv => TypeOK
  BY DEF IInv
<1>2. QED
  BY <1>1, InitInv, InvStep, PTL DEF Spec

\* A job the page launched is tracked until it is over, in any order of the
\* answers, as long as no launch is answered while the page tracks another job
\* (app.js:107, 299-388).
THEOREM KeepsItsJob == Spec => []TracksItsJob
<1>1. IInv => TracksItsJob
  BY DEF IInv
<1>2. QED
  BY <1>1, InitInv, InvStep, PTL DEF Spec

\* A completed job refreshes the table that launched it, as long as no launch
\* is answered while the page tracks another job (app.js:366-367).
THEOREM ShowsItsTable == Spec => []RefreshesItsTable
<1>1. IInv => RefreshesItsTable
  BY DEF IInv
<1>2. QED
  BY <1>1, InitInv, InvStep, PTL DEF Spec
===========================================================================

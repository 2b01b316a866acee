----------------------------- MODULE TaskManager -----------------------------
(***************************************************************************)
(* llm_agent/runtime/task_manager.py: the one background task of the robot.*)
(* Callers submit and cancel under the manager's lock; a submitted task is *)
(* handed to a pool of one worker after the lock is released, so that two  *)
(* callers may hand over in another order than they took the lock; the     *)
(* worker runs the task outside the lock and reports its end to a second   *)
(* pool, which calls the listeners.                                        *)
(***************************************************************************)
EXTENDS Naturals, Sequences

CONSTANTS
  Tasks,      \* task identifiers, each submitted at most once
  NoTask,     \* "" in the code
  Sessions,
  SessionOf   \* the session a task is submitted from

ASSUME TaskAssumption ==
  /\ NoTask \notin Tasks
  /\ SessionOf \in [Tasks -> Sessions]

VARIABLES
  status,     \* status of each record; "none" before its submission
  cancelled,  \* tasks whose cancellation token is set
  done,       \* tasks whose done event is set
  active,     \* _active_task_id
  latest,     \* _latest_by_session
  handing,    \* tasks recorded by submit and not yet handed to the pool
  queue,      \* the pool's queue
  worker,     \* the task its worker runs
  reporting,  \* the task whose end the worker has yet to report
  notices,    \* ends the notification pool has yet to deliver
  announced,  \* tasks whose listeners have been called
  stopping,   \* _stopping
  shutdown    \* pools that stop() has shut down so far

callerVars == <<active, latest, handing>>
poolVars   == <<queue, worker, reporting>>
noticeVars == <<notices, announced>>
stopVars   == <<stopping, shutdown>>
taskVars   == <<status, cancelled, done, callerVars, poolVars, noticeVars, stopVars>>

Waiting    == {"queued", "running"}
Overruled  == {"cancelled", "preempted"}
Ended      == {"completed", "failed"}

TypeOK ==
  /\ status \in [Tasks -> {"none"} \cup Waiting \cup Overruled \cup Ended]
  /\ cancelled \subseteq Tasks /\ done \subseteq Tasks
  /\ active \in Tasks \cup {NoTask}
  /\ latest \in [Sessions -> Tasks \cup {NoTask}]
  /\ handing \subseteq Tasks /\ queue \in Seq(Tasks)
  /\ worker \in Tasks \cup {NoTask} /\ reporting \in Tasks \cup {NoTask}
  /\ notices \subseteq Tasks /\ announced \subseteq Tasks
  /\ stopping \in BOOLEAN /\ shutdown \in 0 .. 2

TaskInit ==
  /\ status = [t \in Tasks |-> "none"]
  /\ cancelled = {} /\ done = {}
  /\ active = NoTask /\ latest = [s \in Sessions |-> NoTask]
  /\ handing = {} /\ queue = <<>>
  /\ worker = NoTask /\ reporting = NoTask
  /\ notices = {} /\ announced = {}
  /\ stopping = FALSE /\ shutdown = 0

-----------------------------------------------------------------------------
(* Callers.                                                                *)

\* _active_locked: the active task, unless it has ended.
Current == {t \in Tasks : t = active /\ status[t] \in Waiting}

(* Slips a revision could make; no action uses them.                       *)

OverruleQuietly(how) ==
  status' = [t \in Tasks |-> IF t \in Current THEN how ELSE status[t]] /\ UNCHANGED cancelled
StatusOverwritten(t, failed) == IF failed THEN "failed" ELSE "completed"
NobodyActive(t)              == NoTask
TakeForgets ==
  /\ worker = NoTask /\ reporting = NoTask /\ queue # <<>> /\ queue' = Tail(queue)
  /\ IF status[Head(queue)] = "queued"
     THEN status' = [status EXCEPT ![Head(queue)] = "running"] /\ worker' = Head(queue)
     ELSE UNCHANGED <<status, worker>>
  /\ UNCHANGED <<done, cancelled, callerVars, reporting, noticeVars, stopVars>>
ReportReplaces ==
  /\ reporting # NoTask /\ reporting' = NoTask /\ notices' = {reporting}
  /\ UNCHANGED <<status, cancelled, done, callerVars, queue, worker, announced, stopVars>>

\* The current task is told to give way.
Overrule(how) ==
  /\ status' = [t \in Tasks |-> IF t \in Current THEN how ELSE status[t]]
  /\ cancelled' = cancelled \cup Current

Submit(t) ==
  /\ status[t] = "none" /\ ~stopping
  /\ status' = [u \in Tasks |-> IF u = t THEN "queued"
                                ELSE IF u \in Current THEN "preempted" ELSE status[u]]
  /\ cancelled' = cancelled \cup Current
  /\ active' = t
  /\ latest' = [latest EXCEPT ![SessionOf[t]] = t]
  /\ handing' = handing \cup {t}
  /\ UNCHANGED <<done, poolVars, noticeVars, stopVars>>

\* After the lock: a pool that has been shut down raises.
HandOver(t) ==
  /\ t \in handing
  /\ handing' = handing \ {t}
  /\ queue' = IF shutdown >= 1 THEN queue ELSE Append(queue, t)
  /\ UNCHANGED <<status, cancelled, done, active, latest, worker, reporting, noticeVars, stopVars>>

CancelActive ==
  /\ Current # {}
  /\ Overrule("cancelled")
  /\ active' = NoTask
  /\ UNCHANGED <<done, latest, handing, poolVars, noticeVars, stopVars>>

StopLocked ==
  /\ ~stopping
  /\ stopping' = TRUE
  /\ Overrule("cancelled")
  /\ active' = NoTask
  /\ UNCHANGED <<done, latest, handing, poolVars, noticeVars, shutdown>>

\* The rest of stop(): both pools drop what they have not begun.
ShutdownTasks ==
  /\ stopping /\ shutdown = 0 /\ shutdown' = 1
  /\ queue' = <<>>
  /\ UNCHANGED <<status, cancelled, done, callerVars, worker, reporting, noticeVars, stopping>>

ShutdownNotices ==
  /\ shutdown = 1 /\ shutdown' = 2
  /\ notices' = {}
  /\ UNCHANGED <<status, cancelled, done, callerVars, poolVars, announced, stopping>>

-----------------------------------------------------------------------------
(* The worker.                                                             *)

Take ==
  /\ worker = NoTask /\ reporting = NoTask /\ queue # <<>>
  /\ queue' = Tail(queue)
  /\ LET t == Head(queue) IN
       IF status[t] = "queued"
       THEN status' = [status EXCEPT ![t] = "running"] /\ worker' = t /\ UNCHANGED done
       ELSE done' = done \cup {t} /\ UNCHANGED <<status, worker>>
  /\ UNCHANGED <<cancelled, callerVars, reporting, noticeVars, stopVars>>

\* Status after the runner has returned, with or without an error.
StatusAfter(t, failed) ==
  IF status[t] \in Overruled THEN status[t]
  ELSE IF failed THEN "failed" ELSE "completed"

ActiveAfter(t) == IF active = t THEN NoTask ELSE active

Finish(failed) ==
  /\ worker # NoTask
  /\ status' = [status EXCEPT ![worker] = StatusAfter(worker, failed)]
  /\ active' = ActiveAfter(worker)
  /\ done' = done \cup {worker}
  /\ worker' = NoTask
  /\ reporting' = IF ~stopping /\ status'[worker] \in Ended THEN worker ELSE NoTask
  /\ UNCHANGED <<cancelled, latest, handing, queue, noticeVars, stopVars>>

Report ==
  /\ reporting # NoTask
  /\ reporting' = NoTask
  /\ notices' = IF shutdown = 2 THEN notices ELSE notices \cup {reporting}
  /\ UNCHANGED <<status, cancelled, done, callerVars, queue, worker, announced, stopVars>>

\* stop() has cleared the listeners.
Notify ==
  /\ \E t \in notices :
       /\ notices' = notices \ {t}
       /\ announced' = IF stopping THEN announced ELSE announced \cup {t}
  /\ UNCHANGED <<status, cancelled, done, callerVars, poolVars, stopVars>>

TaskNext ==
  \/ \E t \in Tasks : Submit(t) \/ HandOver(t)
  \/ CancelActive \/ StopLocked \/ ShutdownTasks \/ ShutdownNotices
  \/ Take \/ Report \/ Notify
  \/ \E failed \in BOOLEAN : Finish(failed)

TaskSpec == TaskInit /\ [][TaskNext]_taskVars

\* The threads of the callers and of the pools are scheduled, and the runner
\* returns (ToolChain shows why it does).  Nobody has to submit, cancel or stop.
TaskFairness ==
  /\ \A t \in Tasks : WF_taskVars(HandOver(t))
  /\ WF_taskVars(Take) /\ WF_taskVars(Report) /\ WF_taskVars(Notify)
  /\ WF_taskVars(\E failed \in BOOLEAN : Finish(failed))
FairTaskSpec == TaskSpec /\ TaskFairness

-----------------------------------------------------------------------------
(* Properties.                                                             *)

\* One task owns the robot: a task that still waits or runs is the active one,
\* the latest of its session (what the dialogue sees and can cancel), and if it
\* runs it is the worker's; after stop() there is none.
OneOwner ==
  \A t \in Tasks : status[t] \in Waiting =>
    /\ t = active /\ latest[SessionOf[t]] = t /\ ~stopping
    /\ status[t] = "running" => worker = t

\* The token a runner looks at and the status a caller sees agree at any time.
TokenTellsStatus == \A t \in Tasks : t \in cancelled <=> status[t] \in Overruled

\* Whoever waits for a task can be woken: a submitted task that is not done is
\* on its way to the worker, unless stop() has dropped it.
NothingLost ==
  \A t \in Tasks : status[t] # "none" /\ t \notin done =>
    \/ t \in handing \/ t = worker \/ shutdown > 0
    \/ \E i \in DOMAIN queue : queue[i] = t

\* A user is told of ends only, never of a task that was cancelled or preempted,
\* however late the cancellation comes.
OnlyEndsAnnounced ==
  \A t \in Tasks : t = reporting \/ t \in notices \cup announced =>
    t \in done /\ status[t] \in Ended /\ t \notin cancelled

\* A status that says the task is over is never taken back: the worker does
\* not overwrite a cancellation, a cancellation does not overwrite an end.
FinalStatus ==
  [][\A t \in Tasks : status[t] \in Overruled \cup Ended => status'[t] = status[t]]_taskVars

\* wait() returns: every task is done in the end, whatever is submitted and
\* cancelled meanwhile, unless the manager is stopped.
EveryTaskEnds == \A t \in Tasks : status[t] # "none" ~> t \in done \/ stopping

\* Every end that was not overruled is announced, unless the manager stops.
EveryEndAnnounced ==
  \A t \in Tasks : status[t] \in Ended ~> t \in announced \/ stopping

=============================================================================

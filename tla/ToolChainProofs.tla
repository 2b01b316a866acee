---------------------------- MODULE ToolChainProofs ----------------------------
(***************************************************************************)
(* What the task manager promises for any number of tasks and sessions,    *)
(* whoever submits, cancels and stops, in whatever order the jobs are      *)
(* handed over; and the chain from a task to the wheels, for any calls,    *)
(* budgets and tools: every timeout of every layer may come at any time,   *)
(* and still a completed task has arrived everywhere it was sent.          *)
(***************************************************************************)
EXTENDS ToolChain, Integers, TLAPS

(***************************************************************************)
(* Part 1: the task manager.                                               *)
(***************************************************************************)


\* The worker's task is running or was overruled since, and is not done:
\* without it Finish could give an ended task another end.
WorkerRuns ==
  worker # NoTask => status[worker] \in {"running"} \cup Overruled

OwnerInv == TypeOK /\ OneOwner /\ TokenTellsStatus /\ WorkerRuns

-----------------------------------------------------------------------------
(* The owner of the robot.                                                 *)

LEMMA OwnerInit == TaskInit => OwnerInv
<1> SUFFICES ASSUME TaskInit PROVE OwnerInv
  OBVIOUS
<1> USE TaskAssumption DEF TaskInit
<1>1. TypeOK
  <2>1. stopping \in BOOLEAN
    OBVIOUS
  <2>2. shutdown \in 0 .. 2
    OBVIOUS
  <2> QED
    BY <2>1, <2>2 DEF TypeOK
<1>2. \A t \in Tasks : status[t] = "none" /\ t \notin cancelled
  OBVIOUS
<1>3. OneOwner /\ TokenTellsStatus /\ WorkerRuns
  BY <1>2 DEF OneOwner, TokenTellsStatus, WorkerRuns, Waiting, Overruled
<1> QED
  BY <1>1, <1>3 DEF OwnerInv

\* Overruling touches the active task only: the others keep status and token.
LEMMA OwnerSubmit ==
  ASSUME OwnerInv, NEW t \in Tasks, Submit(t)
  PROVE  OwnerInv'
<1> USE TaskAssumption DEF OwnerInv, Submit, poolVars, noticeVars, stopVars, Current
<1>1. TypeOK'
  BY DEF TypeOK, Waiting, Overruled, Ended
<1>2. OneOwner'
  BY DEF TypeOK, OneOwner, Waiting
<1>3. TokenTellsStatus'
  BY DEF TypeOK, TokenTellsStatus, Waiting, Overruled
<1>4. WorkerRuns'
  BY DEF TypeOK, WorkerRuns, Waiting, Overruled
<1> QED
  BY <1>1, <1>2, <1>3, <1>4

LEMMA OwnerCancel ==
  ASSUME OwnerInv, CancelActive
  PROVE  OwnerInv'
<1> USE TaskAssumption DEF OwnerInv, CancelActive, Overrule, poolVars, noticeVars, stopVars, Current
<1>1. TypeOK'
  BY DEF TypeOK, Waiting, Overruled, Ended
<1>2. OneOwner'
  BY DEF TypeOK, OneOwner, Waiting
<1>3. TokenTellsStatus'
  BY DEF TypeOK, TokenTellsStatus, Waiting, Overruled
<1>4. WorkerRuns'
  BY DEF TypeOK, WorkerRuns, Waiting, Overruled
<1> QED
  BY <1>1, <1>2, <1>3, <1>4

LEMMA OwnerStop ==
  ASSUME OwnerInv, StopLocked
  PROVE  OwnerInv'
<1> USE TaskAssumption DEF OwnerInv, StopLocked, Overrule, poolVars, noticeVars, stopVars, Current
<1>1. TypeOK'
  BY DEF TypeOK, Waiting, Overruled, Ended
<1>2. OneOwner'
  BY DEF TypeOK, OneOwner, Waiting
<1>3. TokenTellsStatus'
  BY DEF TypeOK, TokenTellsStatus, Waiting, Overruled
<1>4. WorkerRuns'
  BY DEF TypeOK, WorkerRuns, Waiting, Overruled
<1> QED
  BY <1>1, <1>2, <1>3, <1>4

\* A queued task is the active one, so the worker's next task is the owner.
LEMMA OwnerTake ==
  ASSUME OwnerInv, Take
  PROVE  OwnerInv'
<1> USE TaskAssumption DEF OwnerInv, Take, callerVars, noticeVars, stopVars
<1>1. Head(queue) \in Tasks /\ Tail(queue) \in Seq(Tasks)
  BY DEF TypeOK
<1>2. TypeOK'
  BY <1>1 DEF TypeOK, Waiting, Overruled, Ended
<1>3. OneOwner'
  BY <1>1 DEF TypeOK, OneOwner, Waiting
<1>4. TokenTellsStatus'
  BY <1>1 DEF TypeOK, TokenTellsStatus, Waiting, Overruled
<1>5. WorkerRuns'
  BY <1>1 DEF TypeOK, WorkerRuns, Waiting, Overruled
<1> QED
  BY <1>2, <1>3, <1>4, <1>5

\* The end of a task that was preempted leaves the new owner alone.
LEMMA OwnerFinish ==
  ASSUME OwnerInv, NEW failed \in BOOLEAN, Finish(failed)
  PROVE  OwnerInv'
<1> USE TaskAssumption DEF OwnerInv, Finish, StatusAfter, ActiveAfter, noticeVars, stopVars
<1>1. worker \in Tasks
  BY DEF TypeOK
<1>2. TypeOK'
  BY <1>1 DEF TypeOK, Waiting, Overruled, Ended
<1>3. OneOwner'
  BY <1>1 DEF TypeOK, OneOwner, WorkerRuns, Waiting, Overruled
<1>4. TokenTellsStatus'
  BY <1>1 DEF TypeOK, TokenTellsStatus, WorkerRuns, Overruled
<1>5. WorkerRuns'
  BY DEF WorkerRuns
<1> QED
  BY <1>2, <1>3, <1>4, <1>5

\* Handing over, shutting the pools down and telling the listeners do not
\* touch a record.
LEMMA OwnerRest ==
  ASSUME OwnerInv,
         \/ \E t \in Tasks : HandOver(t)
         \/ ShutdownTasks \/ ShutdownNotices \/ Report \/ Notify \/ UNCHANGED taskVars
  PROVE  OwnerInv'
<1> USE DEF OwnerInv, callerVars, poolVars, noticeVars, stopVars, taskVars,
            HandOver, ShutdownTasks, ShutdownNotices, Report, Notify
<1>1. TypeOK'
  <2>1. ASSUME NEW t \in Tasks, HandOver(t) PROVE TypeOK'
    BY <2>1 DEF TypeOK
  <2>2. CASE ShutdownTasks
    BY <2>2 DEF TypeOK
  <2>3. CASE ShutdownNotices
    BY <2>3 DEF TypeOK
  <2>4. CASE Report
    BY <2>4 DEF TypeOK
  <2>5. CASE Notify
    BY <2>5 DEF TypeOK
  <2>6. CASE UNCHANGED taskVars
    BY <2>6 DEF TypeOK
  <2> QED
    BY <2>1, <2>2, <2>3, <2>4, <2>5, <2>6
<1>2. /\ UNCHANGED <<status, cancelled, active, latest, worker, stopping>>
  OBVIOUS
<1>3. OneOwner' /\ TokenTellsStatus' /\ WorkerRuns'
  BY <1>2 DEF OneOwner, TokenTellsStatus, WorkerRuns
<1> QED
  BY <1>1, <1>3

LEMMA OwnerStep == OwnerInv /\ [TaskNext]_taskVars => OwnerInv'
  BY OwnerSubmit, OwnerCancel, OwnerStop, OwnerTake, OwnerFinish, OwnerRest DEF TaskNext

\* Every variable of the manager stays in its type.
THEOREM TaskTypeCorrect == TaskSpec => []TypeOK
<1>1. OwnerInv => TypeOK
  BY DEF OwnerInv
<1> QED
  BY <1>1, OwnerInit, OwnerStep, PTL DEF TaskSpec

\* At most one task waits or runs, it is the one the manager can cancel and the
\* dialogue can see, and after stop() there is none.
THEOREM TaskOwnership == TaskSpec => []OneOwner
<1>1. OwnerInv => OneOwner
  BY DEF OwnerInv
<1> QED
  BY <1>1, OwnerInit, OwnerStep, PTL DEF TaskSpec

\* Token and status agree at any time.
THEOREM TokenCorrect == TaskSpec => []TokenTellsStatus
<1>1. OwnerInv => TokenTellsStatus
  BY DEF OwnerInv
<1> QED
  BY <1>1, OwnerInit, OwnerStep, PTL DEF TaskSpec

-----------------------------------------------------------------------------
(* Ends are final.                                                         *)

\* No step changes the status of a task that is over.
LEMMA OverStays ==
  ASSUME OwnerInv, [TaskNext]_taskVars, NEW t \in Tasks, status[t] \in Overruled \cup Ended
  PROVE  status'[t] = status[t]
<1> USE DEF OwnerInv, Overruled, Ended
<1>1. ASSUME NEW u \in Tasks, Submit(u) PROVE status'[t] = status[t]
  BY <1>1 DEF Submit, Current, Waiting
<1>2. CASE CancelActive
  BY <1>2 DEF CancelActive, Overrule, Current, Waiting
<1>3. CASE StopLocked
  BY <1>3 DEF StopLocked, Overrule, Current, Waiting
<1>4. CASE Take
  BY <1>4 DEF Take, TypeOK
<1>5. ASSUME NEW failed \in BOOLEAN, Finish(failed) PROVE status'[t] = status[t]
  BY <1>5 DEF Finish, StatusAfter, TypeOK, WorkerRuns
<1>6. CASE UNCHANGED status
  BY <1>6
<1> QED
  BY <1>1, <1>2, <1>3, <1>4, <1>5, <1>6
  DEF TaskNext, HandOver, ShutdownTasks, ShutdownNotices, Report, Notify, taskVars

\* The worker never overwrites a cancellation and a cancellation never an end,
\* although the runner returns without the lock.
THEOREM EndsAreFinal == TaskSpec => FinalStatus
<1> DEFINE Kept == \A t \in Tasks : status[t] \in Overruled \cup Ended => status'[t] = status[t]
<1>1. OwnerInv /\ [TaskNext]_taskVars => [Kept]_taskVars
  BY OverStays
<1> QED
  BY <1>1, OwnerInit, OwnerStep, PTL DEF TaskSpec, FinalStatus

-----------------------------------------------------------------------------
(* Announcements.                                                          *)

LEMMA AnnouncedInit == TaskInit => OnlyEndsAnnounced
  BY TaskAssumption DEF TaskInit, OnlyEndsAnnounced

LEMMA AnnouncedStep ==
  OwnerInv /\ OwnerInv' /\ OnlyEndsAnnounced /\ [TaskNext]_taskVars => OnlyEndsAnnounced'
<1> SUFFICES ASSUME OwnerInv, OwnerInv', OnlyEndsAnnounced, [TaskNext]_taskVars,
                    NEW t \in Tasks, (t = reporting \/ t \in notices \cup announced)'
             PROVE  t \in done' /\ status'[t] \in Ended
  BY DEF OnlyEndsAnnounced, OwnerInv, TokenTellsStatus, Ended, Overruled
<1>1. done \subseteq done'
  BY DEF TaskNext, Submit, HandOver, CancelActive, StopLocked, ShutdownTasks, ShutdownNotices,
         Take, Finish, Report, Notify, taskVars
<1>2. CASE t = reporting \/ t \in notices \cup announced
  <2>1. t \in done /\ status[t] \in Ended
    BY <1>2 DEF OnlyEndsAnnounced
  <2> QED
    BY <1>1, <2>1, OverStays
<1>3. CASE ~(t = reporting \/ t \in notices \cup announced)
  <2>1. PICK failed \in BOOLEAN : Finish(failed) /\ t = worker
    BY <1>3, TaskAssumption
    DEF TaskNext, Submit, HandOver, CancelActive, StopLocked, ShutdownTasks, ShutdownNotices, Take,
        Finish, Report, Notify, taskVars, poolVars, noticeVars
  <2> QED
    BY <1>3, <2>1, TaskAssumption DEF Finish, noticeVars
<1> QED
  BY <1>2, <1>3

\* The user hears of a task only after its end, and never of one that was
\* cancelled or preempted.
THEOREM AnnouncementsSound == TaskSpec => []OnlyEndsAnnounced
  BY AnnouncedInit, AnnouncedStep, OwnerInit, OwnerStep, PTL DEF TaskSpec

-----------------------------------------------------------------------------
(* No job is lost.                                                         *)

LEMMA LostInit == TaskInit => NothingLost
  BY DEF TaskInit, NothingLost

LEMMA LostStep == OwnerInv /\ NothingLost /\ [TaskNext]_taskVars => NothingLost'
<1> SUFFICES ASSUME OwnerInv, NothingLost, [TaskNext]_taskVars,
                    NEW t \in Tasks, status'[t] # "none", t \notin done'
             PROVE  \/ t \in handing' \/ t = worker' \/ shutdown' > 0
                    \/ \E i \in DOMAIN queue' : queue'[i] = t
  BY DEF NothingLost
<1> DEFINE Queued(q) == \E i \in DOMAIN q : q[i] = t
<1>0. /\ queue \in Seq(Tasks) /\ shutdown \in 0 .. 2
      /\ status[t] # "none" /\ t \notin done =>
           t \in handing \/ t = worker \/ shutdown > 0 \/ Queued(queue)
  BY DEF OwnerInv, TypeOK, NothingLost
<1>1. ASSUME NEW u \in Tasks, Submit(u) PROVE t \in handing' \/ t = worker' \/ shutdown' > 0 \/ Queued(queue')
  BY <1>0, <1>1 DEF Submit, poolVars, stopVars, Current, Waiting
<1>2. ASSUME NEW u \in Tasks, HandOver(u) PROVE t \in handing' \/ t = worker' \/ shutdown' > 0 \/ Queued(queue')
  <2>1. CASE t = u /\ shutdown < 1
    <3>1. queue' = Append(queue, t)
      BY <1>0, <1>2, <2>1 DEF HandOver
    <3>2. Len(queue) + 1 \in DOMAIN queue' /\ queue'[Len(queue) + 1] = t
      BY <1>0, <3>1
    <3> QED
      BY <3>2
  <2>2. CASE t # u /\ Queued(queue)
    <3>1. PICK i \in DOMAIN queue : queue[i] = t
      BY <2>2
    <3>2. i \in DOMAIN queue' /\ queue'[i] = t
      BY <1>0, <1>2, <3>1 DEF HandOver
    <3> QED
      BY <3>2
  <2> QED
    BY <1>0, <1>2, <2>1, <2>2 DEF HandOver, stopVars
<1>3. CASE CancelActive \/ StopLocked
  BY <1>0, <1>3 DEF CancelActive, StopLocked, Overrule, Current, Waiting, poolVars, stopVars
<1>4. CASE ShutdownTasks \/ ShutdownNotices
  BY <1>0, <1>4 DEF ShutdownTasks, ShutdownNotices
<1>5. CASE Take
  <2>1. CASE t = Head(queue)
    BY <1>5, <2>1 DEF Take
  <2>2. CASE t # Head(queue) /\ Queued(queue)
    <3>1. PICK i \in DOMAIN queue : queue[i] = t
      BY <2>2
    <3>2. queue # <<>> /\ queue' = Tail(queue)
      BY <1>5 DEF Take
    <3>3. i # 1
      BY <1>0, <2>2, <3>1, <3>2
    <3>4. i - 1 \in DOMAIN queue' /\ queue'[i - 1] = t
      BY <1>0, <3>1, <3>2, <3>3
    <3> QED
      BY <3>4
  <2>3. CASE t # Head(queue) /\ ~Queued(queue)
    <3>1. Head(queue) \in Tasks
      BY <1>0, <1>5 DEF Take
    <3>2. status'[t] = status[t] /\ worker = NoTask /\ done \subseteq done'
      BY <1>5, <2>3, <3>1 DEF Take, OwnerInv, TypeOK
    <3> QED
      BY <1>0, <1>5, <2>3, <3>2, TaskAssumption DEF Take, callerVars, stopVars
  <2> QED
    BY <2>1, <2>2, <2>3
<1>6. ASSUME NEW failed \in BOOLEAN, Finish(failed)
      PROVE  t \in handing' \/ t = worker' \/ shutdown' > 0 \/ Queued(queue')
  BY <1>0, <1>6 DEF Finish, stopVars, OwnerInv, TypeOK
<1>7. CASE Report \/ Notify \/ UNCHANGED taskVars
  BY <1>0, <1>7 DEF Report, Notify, taskVars, callerVars, poolVars, stopVars
<1> QED
  BY <1>1, <1>2, <1>3, <1>4, <1>5, <1>6, <1>7 DEF TaskNext

\* A caller of wait() can be woken: until stop() every submitted task that is
\* not done is being handed over, queued or run.
THEOREM NoTaskLost == TaskSpec => []NothingLost
  BY LostInit, LostStep, OwnerInit, OwnerStep, PTL DEF TaskSpec

(***************************************************************************)
(* Part 2: the chain.                                                      *)
(***************************************************************************)
LEMMA CallsOf ==
  /\ \A t \in Tasks : \A n \in 1 .. Budget[t] : <<t, n>> \in Calls
  /\ \A c \in Calls : \E t \in Tasks : \E n \in 1 .. Budget[t] : c = <<t, n>>
  /\ NoCall \notin Calls
  BY ChainAssumption DEF Calls

-----------------------------------------------------------------------------
(* The chain is a task manager.                                            *)

LEMMA ChainStepIsTaskStep == [ChainNext]_chainVars => [TaskNext]_taskVars
<1> SUFFICES ASSUME [ChainNext]_chainVars PROVE [TaskNext]_taskVars
  OBVIOUS
<1>1. CASE ManagerStep
  BY <1>1 DEF ManagerStep, TaskNext
<1>2. ASSUME NEW name \in Tools, BeginTool(name) PROVE UNCHANGED taskVars
  BY <1>2 DEF BeginTool
<1>3. CASE ToolSucceeds
  BY <1>3 DEF ToolSucceeds
<1>4. ASSUME NEW failed \in BOOLEAN, RunnerReturns(failed) PROVE TaskNext
  BY <1>4 DEF RunnerReturns, TaskNext
<1>5. ASSUME NEW c \in Calls, CallStep(c) \/ GatewayStep(c) \/ NavStep(c) PROVE UNCHANGED taskVars
  BY <1>5 DEF CallStep, CallStarts, CallSends, CallAnswered, CallReturns, CallCancels,
              GatewayStep, AcceptGoal, ExecuteTool, MotionAnswered, WaitMotion,
              ReleaseGateway, CloseGoal,
              NavStep, NavAnswers, NavEnds
<1> QED
  BY <1>1, <1>2, <1>3, <1>4, <1>5 DEF ChainNext, RunnerStep, chainVars

\* Below the runner nothing touches the manager's state, and the runner ends a
\* task as the manager expects: what holds of every task manager holds here.
THEOREM ChainImplementsTasks == ChainSpec => TaskSpec
<1>1. ChainInit => TaskInit
  BY DEF ChainInit
<1> QED
  BY <1>1, ChainStepIsTaskStep, PTL DEF ChainSpec, TaskSpec

-----------------------------------------------------------------------------
(* One tool at a time.                                                     *)

Goals == {"none", "sent", "rejected", "succeeded", "aborted", "canceled"} \cup Executing \cup Closing

GateInv ==
  /\ goal \in [Calls -> Goals]
  /\ inGateway \in Calls \cup {NoCall}
  /\ OneToolAtATime

LEMMA GateInit == ChainInit => GateInv
  BY DEF ChainInit, GateInv, Goals, Executing, OneToolAtATime

LEMMA GateStep == GateInv /\ [ChainNext]_chainVars => GateInv'
<1> SUFFICES ASSUME GateInv, [ChainNext]_chainVars PROVE GateInv'
  OBVIOUS
<1> USE CallsOf DEF GateInv, Goals, Executing, Closing, OneToolAtATime
<1>1. ASSUME NEW c \in Calls, CallSends(c) PROVE GateInv'
  BY <1>1 DEF CallSends
<1>2. ASSUME NEW c \in Calls, AcceptGoal(c) PROVE GateInv'
  BY <1>2 DEF AcceptGoal, Free
<1>3. ASSUME NEW c \in Calls, ExecuteTool(c) \/ MotionAnswered(c) \/ WaitMotion(c) PROVE GateInv'
  BY <1>3 DEF ExecuteTool, MotionAnswered, WaitMotion
<1>4. ASSUME NEW c \in Calls, ReleaseGateway(c) PROVE GateInv'
  BY <1>4 DEF ReleaseGateway, EndOf, Released
<1>5. ASSUME NEW c \in Calls, CloseGoal(c) PROVE GateInv'
  BY <1>5 DEF CloseGoal
<1>6. CASE UNCHANGED <<goal, inGateway>>
  BY <1>6
<1> QED
  BY <1>1, <1>2, <1>3, <1>4, <1>5, <1>6
  DEF ChainNext, chainVars, gatewayVars, ManagerStep, RunnerStep, BeginTool, ToolSucceeds, RunnerReturns,
      CallStep, CallStarts, CallAnswered, CallReturns, CallCancels, GatewayStep, NavStep, NavAnswers, NavEnds

\* active_ is tested and set under the gateway's lock and cleared after the end
\* of the tool: two tools are never executed at the same time.
THEOREM ToolsAreSerial == ChainSpec => []OneToolAtATime
<1>1. GateInv => OneToolAtATime
  BY DEF GateInv
<1> QED
  BY <1>1, GateInit, GateStep, PTL DEF ChainSpec

-----------------------------------------------------------------------------
(* A completed task has arrived.                                           *)

CallStates   == {"none", "starting", "connecting", "sent", "waiting", "ok", "failed"}
MotionStates == {"none", "requested", "refused", "moving", "arrived", "failed"}

DataTypeOK ==
  /\ runner \in {"ready", "tool"}
  /\ steps \in [Tasks -> Nat] /\ \A t \in Tasks : steps[t] <= Budget[t]
  /\ tool \in [Calls -> {"none", "motion", "stop"}]
  /\ call \in [Calls -> CallStates]
  /\ goal \in [Calls -> Goals]
  /\ motion \in [Calls -> MotionStates]

\* A goal exists only for a call that has been sent, and a call only for a step
\* that has been begun: what BeginTool sets up has no past.
Begun ==
  /\ \A t \in Tasks : \A n \in 1 .. Budget[t] : n > steps[t] => call[<<t, n>>] = "none"
  /\ \A c \in Calls : goal[c] # "none" => call[c] \notin {"none", "starting", "connecting"}

\* What each layer says of a success is true of the layer below.
Truthful ==
  \A c \in Calls :
    /\ call[c] = "ok" => goal[c] = "succeeded"
    /\ goal[c] \in {"succeeding", "toSucceed", "succeeded"} /\ tool[c] = "motion" => motion[c] = "arrived"

CallsOk(t, last) == \A n \in 1 .. Budget[t] : n <= last => call[<<t, n>>] = "ok"

\* The runner goes on only after a success; a task that has not run has no calls.
RunnerInv ==
  /\ runner = "tool" => worker # NoTask /\ steps[worker] >= 1
  /\ worker # NoTask /\ runner = "ready" => CallsOk(worker, steps[worker])
  /\ worker # NoTask /\ runner = "tool" => CallsOk(worker, steps[worker] - 1)
  /\ \A t \in Tasks : status[t] \in {"none", "queued"} => steps[t] = 0
  /\ \A t \in Tasks : status[t] = "completed" => CallsOk(t, steps[t])

ChainInv == OwnerInv /\ DataTypeOK /\ Begun /\ Truthful /\ RunnerInv

LEMMA ChainInvInit == ChainInit => ChainInv
<1> SUFFICES ASSUME ChainInit PROVE ChainInv
  OBVIOUS
<1>1. OwnerInv
  BY OwnerInit DEF ChainInit
<1>2. DataTypeOK
  BY ChainAssumption DEF ChainInit, DataTypeOK, CallStates, Goals, MotionStates
<1>3. Begun /\ Truthful
  BY CallsOf DEF ChainInit, Begun, Truthful
<1>4. RunnerInv
  BY DEF ChainInit, TaskInit, RunnerInv
<1> QED
  BY <1>1, <1>2, <1>3, <1>4 DEF ChainInv

\* The layers below the runner.
LEMMA DataStep ==
  ASSUME ChainInv, NEW c \in Calls, CallStep(c) \/ GatewayStep(c) \/ NavStep(c)
  PROVE  /\ DataTypeOK' /\ Begun' /\ Truthful'
         /\ UNCHANGED <<worker, status, runner, steps>>
         /\ \A d \in Calls : call[d] = "ok" => call'[d] = "ok"
<1> DEFINE Goal == /\ DataTypeOK' /\ Begun' /\ Truthful'
                   /\ UNCHANGED <<worker, status, runner, steps>>
                   /\ \A d \in Calls : call[d] = "ok" => call'[d] = "ok"
<1> USE CallsOf DEF ChainInv, DataTypeOK, Begun, Truthful, CallStates, MotionStates,
                    taskVars, poolVars, clientVars, navVars
<1>1. CASE CallStarts(c) \/ CallAnswered(c) \/ CallReturns(c)
  BY <1>1 DEF CallStarts, CallAnswered, CallReturns, Moves, gatewayVars
<1>2. CASE CallSends(c)
  <2>1. CASE call' = [call EXCEPT ![c] = "sent"] /\ goal' = [goal EXCEPT ![c] = "sent"]
    BY <1>2, <2>1 DEF CallSends, Moves, Goals
  <2>2. CASE call' = [call EXCEPT ![c] = "failed"] /\ UNCHANGED goal
    BY <1>2, <2>2 DEF CallSends, Moves
  <2> QED
    BY <1>2, <2>1, <2>2 DEF CallSends, Moves
<1>3. CASE CallCancels(c)
  BY <1>3 DEF CallCancels, Moves
<1>4. CASE AcceptGoal(c)
  BY <1>4 DEF AcceptGoal, Goals, Executing
<1>5. CASE ExecuteTool(c)
  <2>1. CASE tool[c] = "motion" /\ goal' = [goal EXCEPT ![c] = "asking"]
    <3>1. motion' = [motion EXCEPT ![c] = "requested"] /\ goal[c] = "validating"
      BY <1>5, <2>1 DEF ExecuteTool
    <3>2. UNCHANGED <<worker, status, runner, steps, tool, call>>
      BY <1>5 DEF ExecuteTool
    <3>3. DataTypeOK'
      BY <2>1, <3>1, <3>2 DEF Goals, Executing
    <3>4. Begun' /\ Truthful'
      BY <2>1, <3>1, <3>2
    <3> QED
      BY <3>2, <3>3, <3>4
  <2>2. CASE tool[c] = "stop" /\ goal' = [goal EXCEPT ![c] = "succeeding"]
    BY <1>5, <2>2 DEF ExecuteTool, Goals, Executing
  <2>3. CASE goal' = [goal EXCEPT ![c] = "aborting"] /\ UNCHANGED motion
    BY <1>5, <2>3 DEF ExecuteTool, Goals, Executing
  <2> QED
    BY <1>5, <2>1, <2>2, <2>3 DEF ExecuteTool
<1>6. CASE MotionAnswered(c) \/ WaitMotion(c)
  BY <1>6 DEF MotionAnswered, WaitMotion, Goals, Executing
<1>7. CASE ReleaseGateway(c)
  BY <1>7 DEF ReleaseGateway, EndOf, Goals, Closing
<1>8. CASE CloseGoal(c)
  <2>1. /\ \E end \in {"succeeded", "aborted", "canceled"} :
             /\ goal' = [goal EXCEPT ![c] = end]
             /\ end = "succeeded" => goal[c] = "toSucceed"
        /\ goal[c] \notin {"none", "succeeded"}
        /\ UNCHANGED <<worker, status, runner, steps, tool, call, motion>>
    BY <1>8 DEF CloseGoal
  <2>2. DataTypeOK'
    BY <2>1 DEF Goals
  <2>3. Begun' /\ Truthful'
    BY <2>1
  <2> QED
    BY <2>1, <2>2, <2>3
<1>9. CASE NavStep(c)
  BY <1>9 DEF NavStep, NavAnswers, NavEnds, gatewayVars
<1> QED
  BY <1>1, <1>2, <1>3, <1>4, <1>5, <1>6, <1>7, <1>8, <1>9 DEF CallStep, GatewayStep

\* The runner: a new call is the step after successes only, and an end without
\* an error comes after a success.
LEMMA RunnerDataStep ==
  ASSUME ChainInv, RunnerStep
  PROVE  DataTypeOK' /\ Begun' /\ Truthful' /\ RunnerInv'
<1>0. /\ worker # NoTask => worker \in Tasks
      /\ worker # NoTask => status[worker] \in {"running"} \cup Overruled
      /\ status \in [Tasks -> {"none"} \cup Waiting \cup Overruled \cup Ended]
      /\ NoTask \notin Tasks
  BY TaskAssumption DEF ChainInv, OwnerInv, TypeOK, WorkerRuns
<1>a. DataTypeOK /\ Begun /\ Truthful /\ RunnerInv
  BY DEF ChainInv
<1>1. ASSUME NEW name \in Tools, BeginTool(name)
      PROVE  DataTypeOK' /\ Begun' /\ Truthful' /\ RunnerInv'
  <2> DEFINE n == steps[worker] + 1
  <2>1. /\ worker \in Tasks /\ runner = "ready" /\ runner' = "tool"
        /\ steps[worker] < Budget[worker] /\ name \in {"motion", "stop"}
        /\ steps' = [steps EXCEPT ![worker] = n]
        /\ tool' = [tool EXCEPT ![<<worker, n>>] = name]
        /\ call' = [call EXCEPT ![<<worker, n>>] = "starting"]
        /\ UNCHANGED <<worker, status, goal, motion>>
    BY <1>0, <1>1, ChainAssumption DEF BeginTool, taskVars, poolVars, gatewayVars, navVars
  <2>2. steps[worker] \in Nat /\ Budget[worker] \in Nat
    BY <1>a, <2>1, ChainAssumption DEF DataTypeOK
  <2>3. n \in 1 .. Budget[worker] /\ n > steps[worker] /\ <<worker, n>> \in Calls
    BY <2>1, <2>2, CallsOf
  <2>4. call[<<worker, n>>] = "none" /\ goal[<<worker, n>>] = "none"
    BY <1>a, <2>1, <2>3 DEF Begun
  <2> HIDE DEF n
  <2>5. DataTypeOK'
    BY <1>a, <2>1, <2>2, <2>3 DEF DataTypeOK, CallStates
  <2>6. Begun'
    BY <1>a, <2>1, <2>2, <2>3, <2>4, CallsOf DEF Begun, DataTypeOK, n
  <2>7. Truthful'
    BY <1>a, <2>1, <2>3, <2>4 DEF Truthful, DataTypeOK
  <2>8. status[worker] \notin {"none", "queued", "completed"}
    BY <1>0, <2>1 DEF Overruled
  <2>9. steps'[worker] = n /\ n - 1 = steps[worker]
         /\ \A t \in Tasks : t # worker => steps'[t] = steps[t]
    BY <1>a, <2>1, <2>2 DEF DataTypeOK, n
  <2>10. /\ \A t \in Tasks : status'[t] \in {"none", "queued"} => steps'[t] = 0
         /\ \A t \in Tasks : status'[t] = "completed" => CallsOk(t, steps[t]) /\ steps'[t] = steps[t]
         /\ CallsOk(worker, steps[worker]) /\ steps'[worker] - 1 = steps[worker] /\ steps'[worker] >= 1
    BY <1>0, <1>a, <2>1, <2>2, <2>8, <2>9 DEF RunnerInv, n
  <2>11. \A t \in Tasks : \A m \in 1 .. Budget[t] : call[<<t, m>>] = "ok" => call'[<<t, m>>] = "ok"
    BY <1>a, <2>1, <2>3, <2>4, CallsOf DEF DataTypeOK
  <2>12. RunnerInv'
    BY <1>0, <2>1, <2>10, <2>11 DEF RunnerInv, CallsOk
  <2> QED
    BY <2>5, <2>6, <2>7, <2>12
<1>2. CASE ToolSucceeds
  <2>1. /\ worker \in Tasks /\ steps[worker] >= 1 /\ call[<<worker, steps[worker]>>] = "ok"
        /\ runner = "tool" /\ runner' = "ready"
        /\ UNCHANGED <<worker, status, steps, tool, call, goal, motion>>
    BY <1>0, <1>a, <1>2 DEF ToolSucceeds, CurrentCall, RunnerInv, taskVars, poolVars, gatewayVars, navVars
  <2>2. CallsOk(worker, steps[worker])
    BY <1>0, <1>a, <2>1 DEF RunnerInv, CallsOk, DataTypeOK
  <2>3. RunnerInv'
    BY <1>a, <2>1, <2>2 DEF RunnerInv, CallsOk
  <2> QED
    BY <1>a, <2>1, <2>3 DEF DataTypeOK, Begun, Truthful
<1>3. ASSUME NEW failed \in BOOLEAN, RunnerReturns(failed)
      PROVE  DataTypeOK' /\ Begun' /\ Truthful' /\ RunnerInv'
  <2>1. /\ worker \in Tasks /\ worker' = NoTask /\ runner' = "ready"
        /\ runner = "tool" => failed = TRUE
        /\ status' = [status EXCEPT ![worker] = StatusAfter(worker, failed)]
        /\ UNCHANGED <<steps, tool, call, goal, motion>>
    BY <1>0, <1>3 DEF RunnerReturns, Finish, gatewayVars, navVars
  <2>2. /\ StatusAfter(worker, failed) \notin {"none", "queued"}
        /\ StatusAfter(worker, failed) = "completed" => runner # "tool"
    BY <2>1 DEF StatusAfter, Overruled
  <2>3. CallsOk(worker, steps[worker]) \/ runner = "tool"
    BY <1>0, <1>a, <2>1 DEF RunnerInv, DataTypeOK
  <2>4. \A t \in Tasks : status'[t] = "completed" => CallsOk(t, steps[t])
    BY <1>0, <1>a, <2>1, <2>2, <2>3 DEF RunnerInv
  <2>5. \A t \in Tasks : status'[t] \in {"none", "queued"} => steps[t] = 0
    BY <1>0, <1>a, <2>1, <2>2 DEF RunnerInv
  <2>6. RunnerInv'
    BY <2>1, <2>4, <2>5 DEF RunnerInv, CallsOk
  <2> QED
    BY <1>a, <2>1, <2>6 DEF DataTypeOK, Begun, Truthful
<1> QED
  BY <1>1, <1>2, <1>3 DEF RunnerStep

\* The manager: a task that is taken has no calls yet, and nothing but its runner
\* completes a task.
LEMMA ManagerDataStep ==
  ASSUME ChainInv, ManagerStep
  PROVE  DataTypeOK' /\ Begun' /\ Truthful' /\ RunnerInv'
<1> USE DEF ChainInv, ManagerStep, clientVars, gatewayVars, navVars
<1>1. UNCHANGED <<runner, steps, tool, call, goal, motion>>
  OBVIOUS
<1>2. DataTypeOK' /\ Begun' /\ Truthful'
  BY <1>1 DEF DataTypeOK, Begun, Truthful, CallsOk
<1>3. \A t \in Tasks : status'[t] \in {"none", "queued"} => status[t] \in {"none", "queued"}
  BY DEF OwnerInv, TypeOK, Submit, HandOver, CancelActive, StopLocked, Overrule,
         Current, Waiting, ShutdownTasks, ShutdownNotices, Take, Report, Notify
<1>4. \A t \in Tasks : status'[t] = "completed" => status[t] = "completed"
  BY DEF OwnerInv, TypeOK, Submit, HandOver, CancelActive, StopLocked, Overrule,
         Current, Waiting, ShutdownTasks, ShutdownNotices, Take, Report, Notify
<1>5. \/ worker' = worker
      \/ worker = NoTask /\ worker' \in Tasks /\ status[worker'] = "queued"
  BY DEF OwnerInv, TypeOK, Submit, HandOver, CancelActive, StopLocked, ShutdownTasks,
         ShutdownNotices, Take, Report, Notify, poolVars
<1>6. RunnerInv'
  BY <1>1, <1>3, <1>4, <1>5, ChainAssumption DEF RunnerInv, DataTypeOK, CallsOk
<1> QED
  BY <1>2, <1>6

LEMMA ChainInvStep == ChainInv /\ [ChainNext]_chainVars => ChainInv'
<1> SUFFICES ASSUME ChainInv, [ChainNext]_chainVars PROVE ChainInv'
  OBVIOUS
<1>1. OwnerInv'
  BY ChainStepIsTaskStep, OwnerStep DEF ChainInv
<1>2. CASE ManagerStep
  BY <1>1, <1>2, ManagerDataStep DEF ChainInv
<1>3. CASE RunnerStep
  BY <1>1, <1>3, RunnerDataStep DEF ChainInv
<1>4. ASSUME NEW c \in Calls, CallStep(c) \/ GatewayStep(c) \/ NavStep(c) PROVE ChainInv'
  <2>1. /\ DataTypeOK' /\ Begun' /\ Truthful'
        /\ UNCHANGED <<worker, status, runner, steps>>
        /\ \A d \in Calls : call[d] = "ok" => call'[d] = "ok"
    BY <1>4, DataStep
  <2>2. \A t \in Tasks : \A n \in 1 .. Budget[t] : call[<<t, n>>] = "ok" => call'[<<t, n>>] = "ok"
    BY <2>1, CallsOf
  <2>3. worker # NoTask => worker \in Tasks
    BY DEF ChainInv, OwnerInv, TypeOK
  <2>4. \A t \in Tasks, last \in Int :
          CallsOk(t, last) => (\A n \in 1 .. Budget[t] : n <= last => call'[<<t, n>>] = "ok")
    BY <2>2 DEF CallsOk
  <2>5. \A t \in Tasks : steps[t] \in Int
    BY DEF ChainInv, DataTypeOK
  <2>6. RunnerInv'
    BY <2>1, <2>3, <2>4, <2>5 DEF ChainInv, RunnerInv, CallsOk
  <2> QED
    BY <1>1, <2>1, <2>6 DEF ChainInv
<1>5. CASE UNCHANGED chainVars
  BY <1>1, <1>5 DEF ChainInv, chainVars, taskVars, poolVars, clientVars, gatewayVars, navVars,
                    DataTypeOK, Begun, Truthful, RunnerInv, CallsOk
<1> QED
  BY <1>2, <1>3, <1>4, <1>5 DEF ChainNext

\* A completed task has arrived: its tools have all succeeded, and a motion that
\* succeeded is one that Nav2 has reported as arrived.
THEOREM CompletedTasksArrived == ChainSpec => []CompletedMeansArrived
<1>1. ChainInv => CompletedMeansArrived
  <2> SUFFICES ASSUME ChainInv, NEW t \in Tasks, status[t] = "completed", NEW n \in 1 .. steps[t]
               PROVE  /\ call[<<t, n>>] = "ok"
                      /\ tool[<<t, n>>] = "motion" => motion[<<t, n>>] = "arrived"
    BY DEF CompletedMeansArrived
  <2>1. n \in 1 .. Budget[t] /\ <<t, n>> \in Calls
    BY ChainAssumption, CallsOf DEF ChainInv, DataTypeOK
  <2>2. call[<<t, n>>] = "ok"
    BY <2>1 DEF ChainInv, RunnerInv, CallsOk, DataTypeOK
  <2> QED
    BY <2>1, <2>2 DEF ChainInv, Truthful
<1> QED
  BY <1>1, ChainInvInit, ChainInvStep, PTL DEF ChainSpec

-----------------------------------------------------------------------------
(* Goals that leave late.                                                  *)

Unsent == {"starting", "connecting"}

\* Only the last call of a task can still be unsent, and a task with a late goal is
\* cancelled and has sent its last call.
LateInv ==
  /\ late \in [Tasks -> Nat]
  /\ \A t \in Tasks : \A n \in 1 .. Budget[t] : call[<<t, n>>] \in Unsent => n = steps[t]
  /\ \A t \in Tasks : late[t] > 0 =>
       /\ t \in cancelled /\ late[t] = 1
       /\ \A n \in 1 .. Budget[t] : call[<<t, n>>] \notin Unsent

LEMMA LateInit == ChainInit => LateInv
  BY CallsOf DEF ChainInit, LateInv, Unsent

\* Nobody takes a cancellation back.
LEMMA CancelledStays == [ChainNext]_chainVars => cancelled \subseteq cancelled'
<1> SUFFICES ASSUME [TaskNext]_taskVars PROVE cancelled \subseteq cancelled'
  BY ChainStepIsTaskStep
<1> QED
  BY DEF TaskNext, taskVars, stopVars, Submit, HandOver, CancelActive, StopLocked, Overrule, ShutdownTasks,
         ShutdownNotices, Take, Report, Notify, Finish

\* A call that is begun is begun after the success of all before it, and by a
\* task that has not been cancelled.
LEMMA BeginLate ==
  ASSUME ChainInv, LateInv, NEW name \in Tools, BeginTool(name)
  PROVE  LateInv'
<1> DEFINE n == steps[worker] + 1
<1>1. /\ worker \in Tasks /\ worker \notin cancelled
      /\ steps[worker] < Budget[worker]
      /\ steps' = [steps EXCEPT ![worker] = n]
      /\ call' = [call EXCEPT ![<<worker, n>>] = "starting"]
      /\ UNCHANGED <<late, cancelled>>
  BY TaskAssumption DEF ChainInv, OwnerInv, TypeOK, BeginTool, MayGoOn, taskVars
<1>2. CallsOk(worker, steps[worker]) /\ Begun
  BY <1>1 DEF ChainInv, RunnerInv, BeginTool
<1>3. steps[worker] \in Nat /\ Budget[worker] \in Nat /\ steps \in [Tasks -> Nat] /\ call \in [Calls -> CallStates]
  BY <1>1, ChainAssumption DEF ChainInv, DataTypeOK
<1>4. \A m \in 1 .. Budget[worker] : call[<<worker, m>>] \notin Unsent
  <2> SUFFICES ASSUME NEW m \in 1 .. Budget[worker] PROVE call[<<worker, m>>] \notin Unsent
    OBVIOUS
  <2>1. CASE m <= steps[worker]
    BY <1>2, <2>1 DEF CallsOk, Unsent
  <2>2. CASE m > steps[worker]
    BY <1>1, <1>2, <2>2 DEF Begun, Unsent
  <2> QED
    BY <1>3, <2>1, <2>2
<1>5. late[worker] = 0
  BY <1>1 DEF LateInv
<1>6. <<worker, n>> \in Calls
  BY <1>1, <1>3, CallsOf
<1> HIDE DEF n
<1>7. /\ steps'[worker] = n
      /\ \A t \in Tasks : t # worker => steps'[t] = steps[t]
      /\ \A t \in Tasks : \A m \in 1 .. Budget[t] :
           t # worker \/ m # n => call'[<<t, m>>] = call[<<t, m>>]
  BY <1>1, <1>3, <1>6, CallsOf
<1> QED
  BY <1>1, <1>4, <1>5, <1>7 DEF LateInv

\* The send itself: the thread of an unsent call is the only one of its task.
LEMMA SendLate ==
  ASSUME ChainInv, LateInv, NEW c \in Calls, CallSends(c)
  PROVE  LateInv'
<1>0. PICK t \in Tasks : \E n \in 1 .. Budget[t] : c = <<t, n>>
  BY CallsOf
<1>1. PICK n \in 1 .. Budget[t] : c = <<t, n>>
  BY <1>0
<1>2. /\ call[c] = "connecting" /\ UNCHANGED <<cancelled, steps>>
      /\ \E to \in {"sent", "failed"} : call' = [call EXCEPT ![c] = to]
      /\ \/ late' = late
         \/ late' = [late EXCEPT ![t] = @ + 1] /\ t \in cancelled
  BY <1>1 DEF CallSends, Moves, TaskOf, taskVars, LateInv
<1>3. call \in [Calls -> CallStates] /\ late[t] = 0 /\ n = steps[t]
  BY <1>1, <1>2 DEF ChainInv, DataTypeOK, LateInv, Unsent
<1>4. /\ \A u \in Tasks : \A m \in 1 .. Budget[u] : call'[<<u, m>>] \in Unsent => call[<<u, m>>] \in Unsent
      /\ \A m \in 1 .. Budget[t] : call'[<<t, m>>] \notin Unsent
  BY <1>1, <1>2, <1>3, CallsOf DEF Unsent, LateInv
<1>5. late' \in [Tasks -> Nat] /\ \A u \in Tasks : u # t => late'[u] = late[u]
  BY <1>2, <1>3 DEF LateInv
<1>6. late'[t] > 0 => t \in cancelled /\ late'[t] = 1
  BY <1>2, <1>3 DEF LateInv
<1> QED
  BY <1>2, <1>4, <1>5, <1>6 DEF LateInv

LEMMA LateStep == ChainInv /\ LateInv /\ [ChainNext]_chainVars => LateInv'
<1> SUFFICES ASSUME ChainInv, LateInv, [ChainNext]_chainVars PROVE LateInv'
  OBVIOUS
<1>1. CASE UNCHANGED <<steps, call, late>>
  BY <1>1, CancelledStays DEF LateInv, Unsent
<1>2. ASSUME NEW c \in Calls, CallStarts(c) \/ CallAnswered(c) \/ CallReturns(c) \/ CallCancels(c)
      PROVE  LateInv'
  <2>1. /\ UNCHANGED <<steps, late>>
        /\ \E to \in CallStates : call' = [call EXCEPT ![c] = to] /\ (to \in Unsent => call[c] \in Unsent)
    BY <1>2 DEF CallStarts, CallAnswered, CallReturns, CallCancels, Moves, Unsent, CallStates
  <2>2. \A t \in Tasks : \A n \in 1 .. Budget[t] : call'[<<t, n>>] \in Unsent => call[<<t, n>>] \in Unsent
    BY <2>1, CallsOf DEF ChainInv, DataTypeOK
  <2> QED
    BY <2>1, <2>2, CancelledStays DEF LateInv
<1> QED
  BY <1>1, <1>2, BeginLate, SendLate
  DEF ChainNext, chainVars, clientVars, ManagerStep, RunnerStep, ToolSucceeds, RunnerReturns,
      CallStep, GatewayStep, AcceptGoal, ExecuteTool, MotionAnswered, WaitMotion,
      ReleaseGateway, CloseGoal,
      NavStep, NavAnswers, NavEnds

\* robot_tool_client.py looks at the token before it waits for the server: for any number
\* of tasks and calls, at most one goal of a cancelled task is sent after that look.
THEOREM LateGoalsBounded == ChainSpec => []OneLateGoalAtMost
<1>1. LateInv => OneLateGoalAtMost
  <2> SUFFICES ASSUME LateInv, NEW t \in Tasks PROVE late[t] <= 1
    BY DEF OneLateGoalAtMost
  <2>1. late[t] \in Nat /\ (late[t] > 0 => late[t] = 1)
    BY DEF LateInv
  <2> QED
    BY <2>1
<1> QED
  BY <1>1, LateInit, LateStep, ChainInvInit, ChainInvStep, PTL DEF ChainSpec

=============================================================================

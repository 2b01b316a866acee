------------------------------ MODULE ToolChain ------------------------------
(***************************************************************************)
(* From a background task to the wheels: SkillRunner calls one tool after  *)
(* another (runtime/skill_runner.py, tools/registry.py), each call is a    *)
(* thread of RosRobotToolClient (transport/ros/robot_tool_client.py), which*)
(* sends a goal to the robot's gateway (robot_tool_gateway_node.cpp), which*)
(* runs one tool at a time and passes motions on to Nav2 (external).       *)
(*                                                                         *)
(* Every wait in the chain has a timeout of its own; a timeout may come    *)
(* before or after the event it waits for, in any relation to the others.  *)
(***************************************************************************)
EXTENDS TaskManager

CONSTANTS
  Budget,     \* bound on the tool calls of each task
  Tools,      \* the tools tasks call, among "motion" and "stop"
  MayStop,    \* whether the manager may be stopped; bounds the larger instances
  NoCall      \* no goal in the gateway

ASSUME ChainAssumption ==
  /\ Budget \in [Tasks -> Nat] /\ MayStop \in BOOLEAN
  /\ Tools \subseteq {"motion", "stop"}
  /\ NoCall \notin UNION {{t} \X (1 .. Budget[t]) : t \in Tasks}

VARIABLES
  runner,     \* the SkillRunner of the worker's task: "ready" or in a "tool"
  steps,      \* tool calls each task has begun
  tool,       \* the tool of each call: "motion" or "stop"
  call,       \* the client's thread for each call
  goal,       \* the gateway's view of each call
  inGateway,  \* active_ and active_key_
  finished,   \* completed_steps_
  canceling,  \* calls whose goal the client has asked the gateway to cancel
  motion,     \* Nav2's view of the motion of each call
  halting,    \* motions Nav2 has been asked to stop
  late        \* history: goals sent after the cancellation of their task

clientVars  == <<runner, steps, tool, call, late>>
gatewayVars == <<goal, inGateway, finished, canceling>>
navVars     == <<motion, halting>>
chainVars   == <<taskVars, clientVars, gatewayVars, navVars>>

Calls == UNION {{t} \X (1 .. Budget[t]) : t \in Tasks}
TaskOf(c) == c[1]
CurrentCall == <<worker, steps[worker]>>

Executing == {"validating", "asking", "moving", "succeeding", "aborting"}
Closing   == {"toSucceed", "toAbort", "toCancel"}  \* gateway released, handle still open

ChainTypeOK ==
  /\ TypeOK
  /\ runner \in {"ready", "tool"}
  /\ steps \in [Tasks -> Nat] /\ \A t \in Tasks : steps[t] <= Budget[t]
  /\ tool \in [Calls -> {"none", "motion", "stop"}]
  /\ call \in [Calls -> {"none", "starting", "connecting", "sent", "waiting", "ok", "failed"}]
  /\ goal \in [Calls -> {"none", "sent", "rejected", "succeeded", "aborted", "canceled"}
                         \cup Executing \cup Closing]
  /\ inGateway \in Calls \cup {NoCall} /\ finished \subseteq Calls /\ canceling \subseteq Calls
  /\ motion \in [Calls -> {"none", "requested", "refused", "moving", "arrived", "failed"}]
  /\ halting \subseteq Calls
  /\ late \in [Tasks -> Nat]

ChainInit ==
  /\ TaskInit
  /\ runner = "ready" /\ steps = [t \in Tasks |-> 0]
  /\ tool = [c \in Calls |-> "none"] /\ call = [c \in Calls |-> "none"]
  /\ goal = [c \in Calls |-> "none"]
  /\ inGateway = NoCall /\ finished = {} /\ canceling = {}
  /\ motion = [c \in Calls |-> "none"] /\ halting = {}
  /\ late = [t \in Tasks |-> 0]

-----------------------------------------------------------------------------
(* Slips a revision could make; no action uses them.                       *)

MayAlwaysGoOn(t) == TRUE
RunnerHangs(failed) ==
  /\ worker # NoTask /\ runner = "ready" /\ Finish(failed)
  /\ UNCHANGED <<clientVars, gatewayVars, navVars>>
FreeForNew(c)    == c \notin finished
EndWell(c)       == "toSucceed"
StillHeld        == inGateway

-----------------------------------------------------------------------------
(* SkillRunner and ToolRegistry, in the worker.                            *)

MayGoOn(t) == t \notin cancelled

BeginTool(name) ==
  /\ worker # NoTask /\ runner = "ready" /\ MayGoOn(worker)
  /\ steps[worker] < Budget[worker]
  /\ LET n == steps[worker] + 1 IN
       /\ steps' = [steps EXCEPT ![worker] = n]
       /\ tool' = [tool EXCEPT ![<<worker, n>>] = name]
       /\ call' = [call EXCEPT ![<<worker, n>>] = "starting"]
  /\ runner' = "tool"
  /\ UNCHANGED <<taskVars, late, gatewayVars, navVars>>

ToolSucceeds ==
  /\ runner = "tool" /\ call[CurrentCall] = "ok"
  /\ runner' = "ready"
  /\ UNCHANGED <<taskVars, steps, tool, call, late, gatewayVars, navVars>>

\* The runner returns: a failure may have any cause, among them a tool that
\* failed or that the registry does not wait for any longer; an end without
\* an error follows the last tool or a final decision of the model.
RunnerReturns(failed) ==
  /\ worker # NoTask
  /\ runner = "tool" => failed /\ call[CurrentCall] # "ok"
  /\ Finish(failed)
  /\ runner' = "ready"
  /\ UNCHANGED <<steps, tool, call, late, gatewayVars, navVars>>

-----------------------------------------------------------------------------
(* RosRobotToolClient.execute, one thread for each call.                   *)

Moves(c, from, to) == call[c] = from /\ call' = [call EXCEPT ![c] = to]

CallStarts(c) ==
  /\ Moves(c, "starting", IF MayGoOn(TaskOf(c)) THEN "connecting" ELSE "failed")
  /\ UNCHANGED <<taskVars, runner, steps, tool, late, gatewayVars, navVars>>

\* wait_for_server, up to a second, and send_goal_async.
CallSends(c) ==
  /\ \/ /\ Moves(c, "connecting", "sent")
        /\ goal' = [goal EXCEPT ![c] = "sent"]
        /\ late' = [late EXCEPT ![TaskOf(c)] = IF TaskOf(c) \in cancelled THEN @ + 1 ELSE @]
     \/ /\ Moves(c, "connecting", "failed")
        /\ UNCHANGED <<goal, late>>
  /\ UNCHANGED <<taskVars, runner, steps, tool, inGateway, finished, canceling, navVars>>

\* _wait_future returns with the answer of the gateway, or gives the goal up
\* because of the token or of its timeout.
CallAnswered(c) ==
  /\ \/ goal[c] \notin {"none", "sent", "rejected"} /\ Moves(c, "sent", "waiting")
     \/ Moves(c, "sent", "failed")
  /\ UNCHANGED <<taskVars, runner, steps, tool, late, gatewayVars, navVars>>

\* The result; only a client that has left its call has its goal canceled.
CallReturns(c) ==
  /\ \/ goal[c] = "succeeded" /\ Moves(c, "waiting", "ok")
     \/ goal[c] = "aborted" /\ Moves(c, "waiting", "failed")
  /\ UNCHANGED <<taskVars, runner, steps, tool, late, gatewayVars, navVars>>

\* The token is set or the deadline has passed before the result is known.
CallCancels(c) ==
  /\ Moves(c, "waiting", "failed")
  /\ canceling' = IF goal[c] \in Executing \cup Closing THEN canceling \cup {c} ELSE canceling
  /\ UNCHANGED <<taskVars, runner, steps, tool, late, goal, inGateway, finished, navVars>>

-----------------------------------------------------------------------------
(* The gateway.                                                            *)

Free(c) == c \notin finished /\ inGateway = NoCall

AcceptGoal(c) ==
  /\ goal[c] = "sent"
  /\ goal' = [goal EXCEPT ![c] = IF Free(c) THEN "validating" ELSE "rejected"]
  /\ inGateway' = IF Free(c) THEN c ELSE inGateway
  /\ UNCHANGED <<taskVars, clientVars, finished, canceling, navVars>>

\* ExecuteTool: a motion goes to Nav2 unless it is invalid or Nav2 is not
\* there; stop_motion asks Nav2 to cancel all the motions it has accepted.
ExecuteTool(c) ==
  /\ goal[c] = "validating"
  /\ \/ /\ tool[c] = "motion"
        /\ goal' = [goal EXCEPT ![c] = "asking"]
        /\ motion' = [motion EXCEPT ![c] = "requested"]
        /\ UNCHANGED halting
     \/ /\ tool[c] = "stop"
        /\ goal' = [goal EXCEPT ![c] = "succeeding"]
        /\ halting' = halting \cup {d \in Calls : motion[d] = "moving"}
        /\ UNCHANGED motion
     \/ /\ goal' = [goal EXCEPT ![c] = "aborting"]
        /\ UNCHANGED navVars
  /\ UNCHANGED <<taskVars, clientVars, inGateway, finished, canceling>>

\* The answer of Nav2 to the goal, or two seconds without one.
MotionAnswered(c) ==
  /\ goal[c] = "asking"
  /\ \/ motion[c] \in {"moving", "arrived", "failed"} /\ goal' = [goal EXCEPT ![c] = "moving"]
     \/ goal' = [goal EXCEPT ![c] = "aborting"]
  /\ UNCHANGED <<taskVars, clientVars, inGateway, finished, canceling, navVars>>

\* WaitMotion: the result, or the cancellation or the deadline, on which Nav2 is
\* asked to stop and the tool ends without waiting for it.
WaitMotion(c) ==
  /\ goal[c] = "moving"
  /\ \/ /\ motion[c] \in {"arrived", "failed"}
        /\ goal' = [goal EXCEPT ![c] = IF motion[c] = "arrived" THEN "succeeding" ELSE "aborting"]
        /\ UNCHANGED halting
     \/ /\ goal' = [goal EXCEPT ![c] = "aborting"]
        /\ halting' = halting \cup {c}
  /\ UNCHANGED <<taskVars, clientVars, inGateway, finished, canceling, motion>>

\* Whether the goal is being canceled is looked at before the gateway is released, and
\* the handle gets its terminal state after it.
EndOf(c) == IF c \in canceling THEN "toCancel"
            ELSE IF goal[c] = "succeeding" THEN "toSucceed" ELSE "toAbort"
Released == NoCall

ReleaseGateway(c) ==
  /\ goal[c] \in {"succeeding", "aborting"}
  /\ goal' = [goal EXCEPT ![c] = EndOf(c)]
  /\ finished' = finished \cup {c} /\ inGateway' = Released
  /\ UNCHANGED <<taskVars, clientVars, canceling, navVars>>

CloseGoal(c) ==
  /\ \/ goal[c] = "toSucceed" /\ goal' = [goal EXCEPT ![c] = "succeeded"]
     \/ goal[c] = "toAbort"   /\ goal' = [goal EXCEPT ![c] = "aborted"]
     \/ goal[c] = "toCancel"  /\ goal' = [goal EXCEPT ![c] = "canceled"]
  /\ canceling' = canceling \ {c}
  /\ UNCHANGED <<taskVars, clientVars, inGateway, finished, navVars>>

-----------------------------------------------------------------------------
(* Nav2 (external): answers a goal, and ends a motion in the time it was   *)
(* allowed or some time after it was asked to stop.                        *)

NavAnswers(c) ==
  /\ motion[c] = "requested"
  /\ \E answer \in {"moving", "refused"} : motion' = [motion EXCEPT ![c] = answer]
  /\ UNCHANGED <<taskVars, clientVars, gatewayVars, halting>>

NavEnds(c) ==
  /\ motion[c] = "moving"
  /\ \E result \in {"arrived", "failed"} : motion' = [motion EXCEPT ![c] = result]
  /\ UNCHANGED <<taskVars, clientVars, gatewayVars, halting>>

-----------------------------------------------------------------------------
ManagerStep ==
  /\ \/ \E t \in Tasks : Submit(t) \/ HandOver(t)
     \/ CancelActive \/ (MayStop /\ StopLocked) \/ ShutdownTasks \/ ShutdownNotices
     \/ Take \/ Report \/ Notify
  /\ UNCHANGED <<clientVars, gatewayVars, navVars>>

RunnerStep == (\E name \in Tools : BeginTool(name)) \/ ToolSucceeds
              \/ \E failed \in BOOLEAN : RunnerReturns(failed)
CallStep(c) == CallStarts(c) \/ CallSends(c) \/ CallAnswered(c) \/ CallReturns(c) \/ CallCancels(c)
GatewayStep(c) == AcceptGoal(c) \/ ExecuteTool(c) \/ MotionAnswered(c) \/ WaitMotion(c)
                  \/ ReleaseGateway(c) \/ CloseGoal(c)
NavStep(c) == NavAnswers(c) \/ NavEnds(c)

ChainNext ==
  \/ ManagerStep \/ RunnerStep
  \/ \E c \in Calls : CallStep(c) \/ GatewayStep(c) \/ NavStep(c)

ChainSpec == ChainInit /\ [][ChainNext]_chainVars

\* Every thread goes on, and no wait of the chain is without a timeout.
FairChainSpec ==
  /\ ChainSpec
  /\ \A t \in Tasks : WF_chainVars(HandOver(t) /\ UNCHANGED <<clientVars, gatewayVars, navVars>>)
  /\ WF_chainVars(Take /\ UNCHANGED <<clientVars, gatewayVars, navVars>>)
  /\ WF_chainVars(Report /\ UNCHANGED <<clientVars, gatewayVars, navVars>>)
  /\ WF_chainVars(Notify /\ UNCHANGED <<clientVars, gatewayVars, navVars>>)
  /\ WF_chainVars(RunnerStep)
  /\ \A c \in Calls : WF_chainVars(CallStep(c)) /\ WF_chainVars(GatewayStep(c))

-----------------------------------------------------------------------------
(* Properties.                                                             *)

\* A task is reported as completed only when every motion it asked for has
\* arrived, whatever timed out or was cancelled on the way.
CompletedMeansArrived ==
  \A t \in Tasks : status[t] = "completed" =>
    \A n \in 1 .. steps[t] :
      /\ call[<<t, n>>] = "ok"
      /\ tool[<<t, n>>] = "motion" => motion[<<t, n>>] = "arrived"

\* The gateway runs one tool at a time, although clients give goals up
\* and send others.
OneToolAtATime == \A c \in Calls : goal[c] \in Executing => c = inGateway

\* At most one goal leaves for the robot after the cancellation of its task: the
\* one whose thread had looked at the token already.
OneLateGoalAtMost == \A t \in Tasks : late[t] <= 1

\* The gateway comes free again, whatever became of the client and of Nav2.
GatewayComesFree == inGateway # NoCall ~> inGateway = NoCall

\* llm_agent/docs/architecture.md line 116: the client cancels the goal that is executing.
CancelReachesGateway ==
  \A c \in Calls : TaskOf(c) \in cancelled /\ call[c] = "failed" =>
    c \in canceling \/ goal[c] \notin {"validating", "asking", "moving"}

\* Three more promises the code breaks (see the README).
\* llm_agent/docs/architecture.md line 117: no further action begins after the cancellation.
NoGoalAfterCancel == \A t \in Tasks : late[t] = 0

\* robot_host/docs/navigation.md line 55: a motion is refused while another has not ended.
AcceptsOnlyAtRest ==
  [][\A c \in Calls :
       goal[c] = "validating" /\ goal'[c] = "asking" =>
         \A d \in Calls : motion[d] # "moving"]_chainVars

\* robot_host/docs/navigation.md line 55: "stop" cancels the motion: no stop request
\* is turned down while a motion goes on that nobody has asked to stop.
StopStops ==
  [][\A c \in Calls :
       tool[c] = "stop" /\ goal[c] = "sent" /\ goal'[c] = "rejected" =>
         \A d \in Calls : motion[d] = "moving" => d \in halting \cup canceling]_chainVars
=============================================================================

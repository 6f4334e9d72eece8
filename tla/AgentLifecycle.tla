--------------------------- MODULE AgentLifecycle ---------------------------
(***************************************************************************)
(* What the transitions of AgentRecord promise, each taken at once and by  *)
(* itself: an agent works on one task at a time, takes one only while it   *)
(* runs, is not stopped with a task in its hands, and loses the task when  *)
(* it fails.  A failed agent is not started again.                         *)
(***************************************************************************)
CONSTANTS AgentIds, TaskIds

VARIABLE agents   \* [AgentIds -> [status, task]]

Nobody == "nobody"
Idle == "none"

Start(a) == /\ agents[a].status \in {"registered", "stopped"}
            /\ agents' = [agents EXCEPT ![a].status = "running"]

Assign(a, t) == /\ agents[a] = [status |-> "running", task |-> Idle]
                /\ agents' = [agents EXCEPT ![a].task = t]

Release(a) == /\ agents[a].status = "running" /\ agents[a].task # Idle
              /\ agents' = [agents EXCEPT ![a].task = Idle]

Fail(a) == agents' = [agents EXCEPT ![a] = [status |-> "failed", task |-> Idle]]

Stop(a) == /\ agents[a] = [status |-> "running", task |-> Idle]
           /\ agents' = [agents EXCEPT ![a].status = "stopped"]

Register(a) == /\ agents[a].status = Nobody
               /\ agents' = [agents EXCEPT ![a].status = "registered"]

LifecycleInit == agents = [a \in AgentIds |-> [status |-> Nobody, task |-> Idle]]

LifecycleNext ==
  \E a \in AgentIds :
    \/ Register(a) \/ Start(a) \/ Release(a) \/ Stop(a)
    \/ agents[a].task # Idle /\ Fail(a)
    \/ \E t \in TaskIds : Assign(a, t)

LifecycleSpec == LifecycleInit /\ [][LifecycleNext]_agents
=============================================================================

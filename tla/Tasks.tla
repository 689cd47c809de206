-------------------------------- MODULE Tasks --------------------------------
(***************************************************************************)
(* The pure algorithms of the system, one input after another: an          *)
(* algorithm is asked, takes one of its inputs, and the next may be asked. *)
(* What it makes of the input is an operator of its own module.            *)
(***************************************************************************)
CONSTANT Inputs   \* the inputs of each algorithm, by its name

ASSUME TasksAssumption == {"idle", "ask"} \intersect DOMAIN Inputs = {}

VARIABLE task

Idle == [kind |-> "idle"]

TaskInit == task = Idle

Ask == task = Idle /\ \E kind \in DOMAIN Inputs : task' = [kind |-> "ask", of |-> kind]

Take ==
  /\ task.kind = "ask"
  /\ \E input \in Inputs[task.of] : task' = [kind |-> task.of, input |-> input]

Forget == task.kind \notin {"idle", "ask"} /\ task' = Idle

TaskNext == Ask \/ Take \/ Forget

TaskSpec == TaskInit /\ [][TaskNext]_task

\* The algorithm has its input.
Given(kind) == task.kind = kind
=============================================================================

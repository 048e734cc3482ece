------------------------------ MODULE WrapperTool ------------------------------
(***************************************************************************)
(* The arguments of the wrapper's own tool, from src/src/tools/schema.rs:  *)
(* which calls of "mcp.wrapper" become a control and which are refused     *)
(* before they get near the backend.                                       *)
(***************************************************************************)

Actions == [status |-> "backend.status", ping |-> "backend.ping",
            refresh |-> "backend.refresh", restart |-> "backend.restart",
            stop |-> "backend.stop"]

\* What a call may say: arguments that are no object, an action (or none, or one
\* that is not in the enum), a target, parameters and, in them, force.
Argument(action, target, params, force) ==
    [action |-> action, target |-> target, params |-> params, force |-> force]

NoArguments == Argument("absent", "absent", "absent", "absent")

\* from_arguments, with the checks in the order of the code.
Refused(args) ==
    \/ args.action = "absent"
    \/ \A x \in DOMAIN Actions : Actions[x] # args.action
    \/ args.target \notin {"absent", "default"}
    \/ args.params = "other"
    \/ args.action = "backend.restart" /\ args.force = "other"

ActionOf(args) == CHOOSE x \in DOMAIN Actions : Actions[x] = args.action

Forces(args) == args.params = "object" /\ args.force = "true"
=============================================================================

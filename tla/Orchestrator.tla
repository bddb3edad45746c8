---------------------------- MODULE Orchestrator ----------------------------
(***************************************************************************)
(* What an orchestrated operation promises (spec 4.2): its steps run in   *)
(* their declared order; each executed step adds one message, success or   *)
(* error; a failed required step ends the run and fails it; a failed       *)
(* optional step is reported and the run goes on; an optional step that   *)
(* does not apply (no sidecar to mirror) is skipped without a message.     *)
(* A run refused by the access gate executes no step and answers one      *)
(* error.  Operations outside Ops are not constrained here.                *)
(*                                                                         *)
(* op, log and ok are the operation, the categories of its message log    *)
(* and the overall status of the last answer.                              *)
(***************************************************************************)
EXTENDS Naturals, Sequences

CONSTANTS
    Ops,          \* the operations that follow this policy
    Plan          \* Plan[o]: the criticality of each step of o, in order

ASSUME \A o \in Ops: Plan[o] \in Seq({"required", "optional"})

VARIABLES op, log, ok

Cats == {"success", "warning", "error"}

\* The outcome of each step of one run of o.
Outcomes(o) ==
    {out \in [1..Len(Plan[o]) -> {"success", "error", "skipped"}]:
        \A i \in 1..Len(Plan[o]): out[i] = "skipped" => Plan[o][i] = "optional"}

RequiredFailed(o, out, i) == Plan[o][i] = "required" /\ out[i] = "error"

\* The steps executed: all of them, or up to the first failed required one.
Executed(o, out) ==
    IF \E i \in DOMAIN out: RequiredFailed(o, out, i)
    THEN CHOOSE i \in DOMAIN out:
             RequiredFailed(o, out, i) /\ \A j \in 1..(i - 1): ~RequiredFailed(o, out, j)
    ELSE Len(Plan[o])

LogOf(o, out) ==
    SelectSeq([i \in 1..Executed(o, out) |-> out[i]], LAMBDA x: x # "skipped")

Run(o) ==
    \E out \in Outcomes(o):
        /\ op' = o
        /\ log' = LogOf(o, out)
        /\ ok' = ~\E i \in DOMAIN out: RequiredFailed(o, out, i)

Refuse(o) == op' = o /\ log' = <<"error">> /\ ok' = FALSE

Other == op' \notin Ops /\ log' \in Seq(Cats) /\ ok' \in BOOLEAN

Init == op \notin Ops /\ log \in Seq(Cats) /\ ok \in BOOLEAN

Next == \/ \E o \in Ops: Run(o) \/ Refuse(o)
        \/ Other

Spec == Init /\ [][Next]_<<op, log, ok>>
=============================================================================

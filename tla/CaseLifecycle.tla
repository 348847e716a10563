---------------------------- MODULE CaseLifecycle ----------------------------
(***************************************************************************)
(* What a compile case promises its callers, with no files and no          *)
(* processes: one checkpoint that moves by atomic transitions.  A case is  *)
(* opened once; a selection decision is taken at most once, before any     *)
(* binding; a binding ends the offline part; every other state is final    *)
(* (a corrected source or a physical read starts a new case).              *)
(***************************************************************************)
VARIABLE checkpoint

FinalStates == {"awaiting-source-decision", "awaiting-physical-read",
                "offline-complete", "partial", "complete"}
States == FinalStates \cup {"awaiting-selection-decision", "awaiting-binding"}

Init == checkpoint = [state |-> "absent", answered |-> {}]

Open ==
    /\ checkpoint.state = "absent"
    /\ \E s \in States : checkpoint' = [state |-> s, answered |-> {}]

\* A selection decision never asks again and never finds the source missing.
Decide ==
    /\ checkpoint.state = "awaiting-selection-decision"
    /\ checkpoint.answered = {}
    /\ \E s \in States \ {"awaiting-selection-decision", "awaiting-source-decision"} :
        checkpoint' = [state |-> s, answered |-> {"provide-selection-decision"}]

\* A binding leads to targets: it never reopens the selection, and never ends
\* a case for want of points or of targets.
Bind ==
    /\ checkpoint.state = "awaiting-binding"
    /\ \E s \in {"awaiting-physical-read", "partial", "complete"} :
        checkpoint' = [state |-> s,
                       answered |-> checkpoint.answered \cup {"provide-binding"}]

Next == Open \/ Decide \/ Bind

Spec == Init /\ [][Next]_checkpoint

====

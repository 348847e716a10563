---------------------------- MODULE OutputRecord ----------------------------
(***************************************************************************)
(* What a reader of result.json is promised: the document is always the    *)
(* last of a line of passes, each of which announces itself before it      *)
(* polls and concludes at most once; the values of a pass stay current     *)
(* until the next pass announces itself, and no pass ever returns.         *)
(***************************************************************************)
CONSTANTS Runs, None

VARIABLES
    shown,      \* the document: None, or a run and its status
    past        \* the runs that have announced themselves

vars == <<shown, past>>

Init == shown = None /\ past = {}

Announce(r) ==
    /\ r \notin past
    /\ past' = past \cup {r}
    /\ shown' = [run |-> r, status |-> "running"]

Conclude(r, status) ==
    /\ shown = [run |-> r, status |-> "running"]
    /\ shown' = [run |-> r, status |-> status]
    /\ past' = past

Next == \E r \in Runs :
    Announce(r) \/ \E status \in {"succeeded", "failed"} : Conclude(r, status)

Spec == Init /\ [][Next]_vars

=============================================================================

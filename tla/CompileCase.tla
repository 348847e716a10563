---------------------------- MODULE CompileCase ----------------------------
(***************************************************************************)
(* One durable compile case of modbus_skills/compiler.py: the files of a   *)
(* case root, and the processes that start, rerun, resume and inspect it.  *)
(*                                                                         *)
(* Every artifact is written by its own atomic replace (_atomic_write);    *)
(* compile-result.json and then case.json are written last (_commit).      *)
(* case.json holds the hash of every artifact.  A process reads what it    *)
(* needs, computes the whole transition in memory, and then performs its   *)
(* writes one at a time, so other processes and crashes interleave with    *)
(* the writes.  Nothing locks the root.                                    *)
(*                                                                         *)
(* Abstractions.  An artifact is deterministic in what it was built from,  *)
(* so its bytes, and its SHA-256, are its provenance: two artifacts have   *)
(* equal hashes iff they have equal provenance.  The four output files of  *)
(* a bundle are one artifact, "user_map", and the files under targets/ are *)
(* one artifact, "targets".  The reads one invocation makes before its     *)
(* first write are one step.                                               *)
(***************************************************************************)
EXTENDS Naturals, FiniteSets

CONSTANTS
    Procs,          \* compiler processes (invocations of the command line)
    Points,         \* OEM point identifiers
    Targets,        \* selectable export targets
    Bindings,       \* device bindings that pass validate_device_binding
    Requests,       \* requests that pass _validate_request
    Elapsed,        \* values of elapsed_ms, the only clock-dependent byte
    Crashes,        \* BOOLEAN: may a process die or meet an I/O error?
    None,           \* an absent file, packet, selection or binding
    Error           \* what an invocation answers when it raises

(***************************************************************************)
(* Data                                                                    *)
(***************************************************************************)

\* The dispositions of a selection.  "decided" holds the points whose entry
\* was rewritten by a typed decision (selection_basis "typed-decision").
Selection == [included : SUBSET Points, suggested : SUBSET Points,
              excluded : SUBSET Points, decided : SUBSET Points]

\* overridesSupported: every point override has only fields that
\* link_selected_map accepts (validate_device_binding does not look).
\* generated, ordered: the points for which every target can be generated,
\* and whose byte order is resolved, once bound.
BindingType == [overridesSupported : BOOLEAN,
                generated : SUBSET Points, ordered : SUBSET Points]

\* fromSource: a local source descriptor, not an inline OEM map.
\* ambiguous: points whose candidate match quality is near, ambiguous, weak.
\* held: points with a blocking hold or unconfirmed PDF evidence.
\* covered: source coverage is complete and no blocking hold is source-wide.
\* packable: build_tool_pack accepts the target options.
RequestType == [fromSource : BOOLEAN, points : SUBSET Points,
                candidate : Selection, ambiguous : SUBSET Points,
                held : SUBSET Points, covered : BOOLEAN,
                targets : SUBSET Targets, packable : BOOLEAN,
                binding : Bindings \cup {None}]

ASSUME BindingsAssumption == Bindings \subseteq BindingType
ASSUME RequestsAssumption == Requests \subseteq RequestType
ASSUME CrashesAssumption == Crashes \in BOOLEAN

InputArtifacts == {"request_identity", "request", "oem_map"}
SelectionArtifacts == {"selection", "selection_packet", "selection_decision",
                       "user_map", "linked_map", "read_plan", "targets"}
BoundArtifacts == {"binding", "linked_map", "read_plan", "targets"}
Artifacts == InputArtifacts \cup {"source_packet"}
                \cup SelectionArtifacts \cup BoundArtifacts

\* The order in which the code stores artifacts; every path through the
\* compiler stores a subset of them in this order.
Rank == [request_identity |-> 1, request |-> 2, oem_map |-> 3,
         source_packet |-> 4, selection_decision |-> 5, selection |-> 6,
         selection_packet |-> 7, user_map |-> 8, binding |-> 9,
         linked_map |-> 10, read_plan |-> 11, targets |-> 12]

\* What artifact a is built from; it stands for its bytes and its hash.
Provenance == [request : Requests, selection : Selection \cup {None},
               binding : Bindings \cup {None}]

\* Mutant: every artifact but the selection is built from the candidate of
\* the request, not from the selection a decision led to.
ContentFromCandidate(a, r, s, b) ==
    [request |-> r,
     selection |-> IF a = "selection" THEN s
                   ELSE IF a \in SelectionArtifacts THEN r.candidate ELSE None,
     binding |-> IF a \in BoundArtifacts THEN b ELSE None]

Content(a, r, s, b) ==
    [request |-> r,
     selection |-> IF a \in SelectionArtifacts THEN s ELSE None,
     binding |-> IF a \in BoundArtifacts THEN b ELSE None]

ASSUME NoneAssumption ==
    None # Error /\ None \notin Bindings \cup Selection \cup Provenance

Index == [Artifacts -> Provenance \cup {None}]
NoArtifacts == [a \in Artifacts |-> None]

CaseStates == {"awaiting-source-decision", "awaiting-selection-decision",
               "awaiting-binding", "awaiting-physical-read",
               "offline-complete", "partial", "complete"}

\* The content of a case root before case.json is written for the first time.
NoCase == [state |-> "absent", request |-> None, artifacts |-> NoArtifacts,
           receipts |-> {}, packet |-> None, result |-> None]

(***************************************************************************)
(* The transition function: what one invocation computes in memory.        *)
(***************************************************************************)

\* Candidate entries of ambiguous quality become suggestions; an entry that a
\* typed decision rewrote carries quality "override" and stays included.
Normalized(r, c) ==
    LET demoted == (c.included \cap r.ambiguous) \ c.decided
    IN [c EXCEPT !.included = @ \ demoted, !.suggested = @ \cup demoted]

Disposed(s) == s.included \cup s.suggested \cup s.excluded

\* compile_user_map_bundle asks for a decision when nothing is included,
\* unless a decision was already taken and left nothing merely suggested.
Resolved(receipts) ==
    \E x \in receipts : x.action = "provide-selection-decision"

NeedsDecision(s, receipts) ==
    s.included = {} /\ ~(Resolved(receipts) /\ s.suggested = {})

\* The points a selection packet offers.
PacketSubjects(r, s) ==
    IF s.suggested # {} THEN s.suggested
    ELSE IF s.excluded # {} THEN s.excluded
    ELSE r.points

\* Mutant: the subjects that were not chosen stay suggested.
SelectionKeepingSuggested(s, subjects, chosen) ==
    [included |-> chosen,
     suggested |-> s.suggested \ chosen,
     excluded |-> s.excluded \ subjects,
     decided |-> s.decided \cup subjects]

\* Include exactly the chosen subjects of the packet, exclude the others.
SelectionFromDecision(s, subjects, chosen) ==
    [included |-> chosen,
     suggested |-> s.suggested \ subjects,
     excluded |-> (s.excluded \ subjects) \cup (subjects \ chosen),
     decided |-> s.decided \cup subjects]

Blocked(r, s) == ~r.covered \/ s.included \cap r.held # {}

\* The state the early returns of _advance lead to, or "raise" when an
\* exception leaves _advance before _commit.
Outcome(r, s, receipts, b) ==
    IF NeedsDecision(s, receipts)
      THEN IF PacketSubjects(r, s) = {} THEN "raise"
           ELSE "awaiting-selection-decision"
    ELSE IF Blocked(r, s) THEN "partial"
    ELSE IF s.included = {} \/ r.targets = {} THEN "offline-complete"
    ELSE IF b = None THEN "awaiting-binding"
    ELSE IF ~b.overridesSupported \/ ~r.packable THEN "raise"
    ELSE IF s.included \subseteq b.generated THEN "complete"
    ELSE IF ~(s.included \subseteq b.ordered) THEN "awaiting-physical-read"
    ELSE "partial"

\* _advance reaches the targets: past every early return, with a binding.
Binds(r, s, receipts, b) ==
    /\ ~NeedsDecision(s, receipts)
    /\ ~Blocked(r, s)
    /\ s.included # {} /\ r.targets # {}
    /\ b # None

\* The artifacts _advance stores before it commits or raises.
Stored(r, s, receipts, b) ==
    {a \in Artifacts :
        \/ a = "selection"
           /\ ~(NeedsDecision(s, receipts) /\ PacketSubjects(r, s) = {})
        \/ a = "selection_packet"
           /\ NeedsDecision(s, receipts) /\ PacketSubjects(r, s) # {}
        \/ a = "user_map" /\ ~NeedsDecision(s, receipts)
        \/ /\ a \in {"binding", "linked_map", "read_plan"}
           /\ Binds(r, s, receipts, b) /\ b.overridesSupported
        \/ /\ a = "targets"
           /\ Binds(r, s, receipts, b) /\ b.overridesSupported /\ r.packable}

\* A transition in memory: the case it starts from, the artifacts it has
\* still to store, and the case it will commit (without its result).
Transition(base, r, s, b, stored, state, receipts) ==
    LET artifacts == [a \in Artifacts |-> IF a \in stored
                                          THEN Content(a, r, s, b)
                                          ELSE base.artifacts[a]]
    IN [base |-> base,
        todo |-> stored,
        next |-> [state |-> state, request |-> r, artifacts |-> artifacts,
                  receipts |-> receipts,
                  packet |-> CASE state = "awaiting-selection-decision" ->
                                    artifacts["selection_packet"]
                               [] state = "awaiting-source-decision" ->
                                    artifacts["source_packet"]
                               [] OTHER -> None,
                  result |-> None]]

Advance(base, r, candidate, b, extra, receipts) ==
    LET s == Normalized(r, candidate)
    IN Transition(base, r, s, b, extra \cup Stored(r, s, receipts, b),
                  Outcome(r, s, receipts, b), receipts)

\* A new case: the inputs, and either a pause for a better source or _advance.
StartTransition(r) ==
    IF r.fromSource /\ r.points = {}
      THEN Transition(NoCase, r, None, None,
                      InputArtifacts \cup {"source_packet"},
                      "awaiting-source-decision", {})
      ELSE Advance(NoCase, r, r.candidate, r.binding, InputArtifacts, {})

\* The reply x taken on case c: a decision is translated into a selection and
\* meets the binding of the request; a binding meets the selection of c.
ResumeTransition(c, x) ==
    LET r == c.artifacts["request"].request
        prior == c.artifacts["selection"].selection
        receipts == c.receipts \cup {x}
    IN IF x.action = "provide-selection-decision"
         THEN Advance(c, r,
                      SelectionFromDecision(prior, PacketSubjects(r, prior), x.chosen),
                      r.binding, {"selection_decision"}, receipts)
         ELSE Advance(c, r, prior, x.binding, {}, receipts)

(***************************************************************************)
(* State                                                                   *)
(***************************************************************************)
VARIABLES
    caseFile,   \* case.json, NoCase while it does not exist
    resultFile, \* compile-result.json, or None
    disk,       \* every other artifact: its provenance, or None
    litter,     \* the root held a directory or temporary file before any artifact
    phase,      \* per process: idle, storing artifacts, or committing
    job,        \* per process: the transition it is writing
    (* History: what callers saw, and what went wrong. *)
    told,       \* per process: what its last finished invocation returned
    seen,       \* every case.json a caller may have read
    mishaps     \* whether an invocation was interrupted or raised mid-way

files == <<caseFile, resultFile, disk, litter>>
vars == <<caseFile, resultFile, disk, litter, phase, job, told, seen, mishaps>>

Phases == {"idle", "storing", "committing"}
Mishaps == {"interrupt", "raise"}
NoJob == [base |-> NoCase, todo |-> {}, next |-> NoCase]

Quiet == \A p \in Procs : phase[p] = "idle"
RootEmpty == /\ caseFile = NoCase /\ resultFile = None
             /\ disk = NoArtifacts /\ ~litter

\* The indexed artifact a is on disk with the hash case.json records.
Fresh(a) == caseFile.artifacts[a] # None /\ disk[a] = caseFile.artifacts[a]

\* The decision or binding replies a caller can build from a case it read.
Replies(c) ==
    {[base |-> c, action |-> "provide-selection-decision",
      chosen |-> chosen, binding |-> None] : chosen \in SUBSET Points}
    \cup {[base |-> c, action |-> "provide-binding",
           chosen |-> {}, binding |-> b] : b \in Bindings}

\* validate_decision_candidate and _selection_candidate_from_decision let the
\* reply pass: it stays within the offered points, and the offered points
\* have a disposition in the recorded selection.
DecisionFits(x) ==
    LET s == caseFile.artifacts["selection"].selection
        packet == caseFile.artifacts["selection_packet"]
        offered == PacketSubjects(packet.request, packet.selection)
    IN /\ x.action = "provide-selection-decision"
       /\ caseFile.state = "awaiting-selection-decision"
       /\ Fresh("selection_packet") /\ Fresh("selection")
       /\ x.chosen \subseteq offered
       /\ offered \subseteq Disposed(s)

BindingFits(x) ==
    /\ x.action = "provide-binding"
    /\ caseFile.state = "awaiting-binding"
    /\ Fresh("selection")

\* Mutant: the case hash of the reply is not compared.
AcceptedStale(x) ==
    /\ x \notin caseFile.receipts
    /\ Fresh("request") /\ Fresh("oem_map")
    /\ DecisionFits(x) \/ BindingFits(x)

\* A resume that gets past every check _resume_case makes before it writes.
Accepted(x) ==
    /\ x \notin caseFile.receipts
    /\ x.base = caseFile
    /\ Fresh("request") /\ Fresh("oem_map")
    /\ DecisionFits(x) \/ BindingFits(x)

\* inspect_compile_case finds the case valid.
InspectOk ==
    /\ caseFile.state # "absent"
    /\ \A a \in Artifacts : caseFile.artifacts[a] # None => Fresh(a)
    /\ resultFile = caseFile.result
    /\ resultFile.state = caseFile.state
    /\ (caseFile.packet # None /\ caseFile.artifacts["selection_packet"] # None)
          => caseFile.packet = caseFile.artifacts["selection_packet"]

(***************************************************************************)
(* Steps of an invocation                                                  *)
(***************************************************************************)
Begin(p, t) ==
    /\ phase' = [phase EXCEPT ![p] = "storing"]
    /\ job' = [job EXCEPT ![p] = t]
    /\ told' = [told EXCEPT ![p] = None]
    /\ UNCHANGED <<files, seen, mishaps>>

\* The invocation ends with this answer: a result, Error, or None.
End(p, answer) ==
    /\ phase' = [phase EXCEPT ![p] = "idle"]
    /\ job' = [job EXCEPT ![p] = NoJob]
    /\ told' = [told EXCEPT ![p] = answer]

Answer(p, answer) == End(p, answer) /\ UNCHANGED <<files, seen, mishaps>>

\* _read_result: the file as it is now, whatever case.json says.
StoredResult == IF resultFile = None THEN Error ELSE resultFile

\* A request on an empty root.
Start(p, r) ==
    /\ phase[p] = "idle"
    /\ RootEmpty
    /\ Begin(p, StartTransition(r))

\* A request on a root that is not empty and holds no case.json.
StartRefused(p, r) ==
    /\ phase[p] = "idle"
    /\ caseFile = NoCase /\ ~RootEmpty
    /\ Answer(p, Error)

\* A request on a root that holds a case.
Rerun(p, r) ==
    /\ phase[p] = "idle"
    /\ caseFile # NoCase
    /\ IF Fresh("request_identity")
          /\ caseFile.artifacts["request_identity"].request = r
         THEN Answer(p, StoredResult)
         ELSE Answer(p, Error)

\* A resume whose receipt the case already holds.
Replay(p, x) ==
    /\ phase[p] = "idle"
    /\ x \in caseFile.receipts
    /\ Answer(p, StoredResult)

Resume(p, x) ==
    /\ phase[p] = "idle"
    /\ Accepted(x)
    /\ Begin(p, ResumeTransition(caseFile, x))

ResumeRejected(p, x) ==
    /\ phase[p] = "idle"
    /\ caseFile # NoCase
    /\ x \notin caseFile.receipts /\ ~Accepted(x)
    /\ Answer(p, Error)

\* _store_json, _store_bytes: replace the next artifact.
StoreArtifact(p) ==
    /\ phase[p] = "storing"
    /\ \E a \in job[p].todo :
        /\ \A other \in job[p].todo : Rank[a] <= Rank[other]
        /\ disk' = [disk EXCEPT ![a] = job[p].next.artifacts[a]]
        /\ job' = [job EXCEPT ![p].todo = @ \ {a}]
    /\ UNCHANGED <<caseFile, resultFile, litter, phase, told, seen, mishaps>>

\* An exception leaves _advance after it has stored what it had to store.
Raise(p) ==
    /\ phase[p] = "storing" /\ job[p].todo = {}
    /\ job[p].next.state = "raise"
    /\ End(p, Error)
    /\ mishaps' = mishaps \cup {"raise"}
    /\ UNCHANGED <<files, seen>>

\* Mutant: an existing compile-result.json is not replaced.
WriteResultOnce(p) ==
    /\ phase[p] = "storing" /\ job[p].todo = {}
    /\ job[p].next.state # "raise"
    /\ \E ms \in Elapsed :
        LET result == [state |-> job[p].next.state,
                       artifacts |-> job[p].next.artifacts, elapsed_ms |-> ms]
        IN /\ resultFile' = IF resultFile = None THEN result ELSE resultFile
           /\ job' = [job EXCEPT ![p].next.result = result]
    /\ phase' = [phase EXCEPT ![p] = "committing"]
    /\ UNCHANGED <<caseFile, disk, litter, told, seen, mishaps>>

\* _commit, first write: compile-result.json.
WriteResult(p) ==
    /\ phase[p] = "storing" /\ job[p].todo = {}
    /\ job[p].next.state # "raise"
    /\ \E ms \in Elapsed :
        LET result == [state |-> job[p].next.state,
                       artifacts |-> job[p].next.artifacts, elapsed_ms |-> ms]
        IN /\ resultFile' = result
           /\ job' = [job EXCEPT ![p].next.result = result]
    /\ phase' = [phase EXCEPT ![p] = "committing"]
    /\ UNCHANGED <<caseFile, disk, litter, told, seen, mishaps>>

\* Mutant: case.json keeps the record of the previous result.
WriteCaseOldResult(p) ==
    /\ phase[p] = "committing"
    /\ LET c == [job[p].next EXCEPT !.result = caseFile.result]
       IN caseFile' = c /\ seen' = seen \cup {c}
    /\ End(p, job[p].next.result)
    /\ UNCHANGED <<resultFile, disk, litter, mishaps>>

\* _commit, last write: case.json.
WriteCase(p) ==
    /\ phase[p] = "committing"
    /\ caseFile' = job[p].next
    /\ seen' = seen \cup {job[p].next}
    /\ End(p, job[p].next.result)
    /\ UNCHANGED <<resultFile, disk, litter, mishaps>>

\* The process dies, or a write fails, between two replaces.  It may leave a
\* new directory or temporary file behind.
Interrupt(p) ==
    /\ Crashes
    /\ phase[p] # "idle"
    /\ End(p, None)
    /\ litter' \in {litter, litter \/ disk = NoArtifacts}
    /\ mishaps' = mishaps \cup {"interrupt"}
    /\ UNCHANGED <<caseFile, resultFile, disk, seen>>

Init ==
    /\ caseFile = NoCase /\ resultFile = None
    /\ disk = NoArtifacts /\ litter = FALSE
    /\ phase = [p \in Procs |-> "idle"]
    /\ job = [p \in Procs |-> NoJob]
    /\ told = [p \in Procs |-> None]
    /\ seen = {} /\ mishaps = {}

Next ==
    \E p \in Procs :
        \/ \E r \in Requests : Start(p, r) \/ StartRefused(p, r) \/ Rerun(p, r)
        \/ \E c \in seen : \E x \in Replies(c) :
              Replay(p, x) \/ Resume(p, x) \/ ResumeRejected(p, x)
        \/ StoreArtifact(p) \/ Raise(p)
        \/ WriteResult(p) \/ WriteCase(p)
        \/ Interrupt(p)

Spec == Init /\ [][Next]_vars

(***************************************************************************)
(* Properties                                                              *)
(***************************************************************************)
ResultType == [state : CaseStates, artifacts : Index, elapsed_ms : Elapsed]

\* c is a case file, or the case a transition is about to write.  An artifact
\* built from a selection was built from some selection.
CaseTyped(c) ==
    /\ DOMAIN c = DOMAIN NoCase
    /\ c.state \in CaseStates \cup {"absent", "raise"}
    /\ c.request \in Requests \cup {None}
    /\ c.artifacts \in Index
    /\ \A a \in SelectionArtifacts :
          c.artifacts[a] # None => c.artifacts[a].selection \in Selection
    /\ c.packet \in Provenance \cup {None}
    /\ c.result \in ResultType \cup {None}

JobTyped(j) ==
    /\ DOMAIN j = DOMAIN NoJob
    /\ CaseTyped(j.base) /\ CaseTyped(j.next) /\ j.todo \subseteq Artifacts

\* Every variable has its type: the case root holds only artifacts the
\* compiler makes, each process is in one of its phases, and no case is
\* committed in a state that an exception leaves behind.
TypeOK ==
    /\ CaseTyped(caseFile) /\ caseFile.state # "raise"
    /\ resultFile \in ResultType \cup {None}
    /\ disk \in Index
    /\ litter \in BOOLEAN
    /\ phase \in [Procs -> Phases]
    /\ DOMAIN job = Procs /\ \A p \in Procs : JobTyped(job[p])
    /\ told \in [Procs -> ResultType \cup {None, Error}]
    /\ \A c \in seen : CaseTyped(c) /\ c.state \in CaseStates
    /\ mishaps \subseteq Mishaps

\* The artifacts c indexes were all built from one request, one selection (the
\* packet alone belongs to the selection it asked about) and one binding.
Lineage(c) ==
    \A a \in Artifacts :
        c.artifacts[a] # None =>
            /\ c.artifacts[a].request = c.request
            /\ a \in SelectionArtifacts \ {"selection_packet"} =>
                  c.artifacts[a].selection = c.artifacts["selection"].selection
            /\ a \in BoundArtifacts =>
                  c.artifacts[a].binding = c.artifacts["binding"].binding

\* Lineage.  Whatever replies a case went through, a decision or a binding
\* leaves no descendant of an older input in the index of case.json.
IndexLineage == Lineage(caseFile)

\* c waits for a decision: no reply was taken yet, the packet asks about the
\* indexed selection, and nothing was built from that selection.
ReadyForDecision(c) ==
    /\ c.receipts = {}
    /\ c.packet = c.artifacts["selection_packet"] /\ c.packet # None
    /\ c.packet.selection = c.artifacts["selection"].selection
    /\ c.packet.selection.included = {}
    /\ \A a \in (SelectionArtifacts \cup BoundArtifacts)
                  \ {"selection", "selection_packet"} : c.artifacts[a] = None

\* c waits for a binding: the indexed selection includes points, none of them
\* blocked or still ambiguous, targets were asked for, the request carried no
\* binding, at most a decision was taken, and nothing was bound.
ReadyForBinding(c) ==
    LET s == c.artifacts["selection"].selection
    IN /\ c.artifacts["selection"] # None
       /\ s.included # {} /\ s.included \cap c.request.held = {}
       /\ s.included \cap c.request.ambiguous \subseteq s.decided
       /\ c.request.covered /\ c.request.targets # {}
       /\ c.request.binding = None
       /\ \A x \in c.receipts : x.action = "provide-selection-decision"
       /\ \A a \in BoundArtifacts : c.artifacts[a] = None

Ready(c) ==
    /\ c.state = "awaiting-selection-decision" => ReadyForDecision(c)
    /\ c.state = "awaiting-binding" => ReadyForBinding(c)

\* A checkpoint that waits for a reply holds what the reply needs, and nothing
\* that the reply could make stale.
CheckpointReady == Ready(caseFile)

\* No checkpoint is answered twice: two receipts of a case never answer the
\* same case hash, so an exact reply is applied at most once.
AnsweredOnce(c) == \A x, y \in c.receipts : x.base = y.base => x = y
CheckpointAnsweredOnce == AnsweredOnce(caseFile)

\* Crashes, failed resumes and refused requests never touch the inputs: with
\* one compiler process at a time, the request, its identity and the OEM map
\* on disk always match case.json.
InputsIntact ==
    caseFile # NoCase => \A a \in InputArtifacts : Fresh(a)

\* Until an invocation dies or raises between two writes, a case at rest
\* passes its own inspection.
CleanCaseInspects ==
    (Quiet /\ caseFile # NoCase /\ mishaps = {}) => InspectOk

\* A reply is bound to one case hash: case.json, once written, is only ever
\* replaced by the outcome of one more reply, to the very case it holds, so a
\* superseded reply never commits and no receipt is lost.
SupersededRejected ==
    [][(caseFile # NoCase /\ caseFile' # caseFile) =>
         \E x \in caseFile'.receipts \ caseFile.receipts :
            x.base = caseFile /\ caseFile'.receipts = caseFile.receipts \cup {x}]_vars

\* A rerun or an exact replay returns the committed result, as long as no
\* invocation died or raised between two writes.
CleanAnswersCommitted ==
    [][\A p \in Procs :
         (mishaps = {} /\ told'[p] # told[p] /\ told'[p] \notin {None, Error})
            => told'[p] = caseFile'.result]_vars

Lifecycle == INSTANCE CaseLifecycle
    WITH checkpoint <- [state |-> caseFile.state,
                        answered |-> {x.action : x \in caseFile.receipts}]

\* case.json implements the atomic lifecycle of CaseLifecycle.
ImplementsLifecycle == Lifecycle!Spec

====

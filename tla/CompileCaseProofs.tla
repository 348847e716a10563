------------------------- MODULE CompileCaseProofs -------------------------
(***************************************************************************)
(* What is proved of CompileCase for every set of requests, bindings and   *)
(* processes.  The inductive invariant IInv says that case.json, every     *)
(* case a caller may have read, and every case a process is about to       *)
(* commit are sound: typed, of one lineage, ready for the reply their      *)
(* state asks for, and answered at most once per checkpoint.               *)
(***************************************************************************)
EXTENDS CompileCase, TLAPS

USE DEF InputArtifacts, SelectionArtifacts, BoundArtifacts, Artifacts

(***************************************************************************)
(* The data operators keep their types.                                    *)
(***************************************************************************)

\* Demoting ambiguous entries yields a selection.
LEMMA NormalizedType ==
    ASSUME NEW r \in Requests, NEW c \in Selection
    PROVE  Normalized(r, c) \in Selection
BY RequestsAssumption DEF Normalized, Selection, RequestType

\* The points a packet offers are points of the request or of its selection.
LEMMA SubjectsType ==
    ASSUME NEW r \in Requests, NEW s \in Selection
    PROVE  PacketSubjects(r, s) \subseteq Points
BY RequestsAssumption DEF PacketSubjects, Selection, RequestType

\* A decision on a selection yields a selection.
LEMMA DecisionType ==
    ASSUME NEW s \in Selection, NEW subjects \in SUBSET Points,
           NEW chosen \in SUBSET Points
    PROVE  SelectionFromDecision(s, subjects, chosen) \in Selection
BY DEF SelectionFromDecision, Selection

\* An artifact has a provenance; one built from a selection says which.
LEMMA ContentType ==
    ASSUME NEW a \in Artifacts, NEW r \in Requests,
           NEW s \in Selection \cup {None}, NEW b \in Bindings \cup {None}
    PROVE  /\ Content(a, r, s, b) \in Provenance
           /\ Content(a, r, s, b) # None
           /\ Content(a, r, s, b).request = r
           /\ a \in SelectionArtifacts => Content(a, r, s, b).selection = s
           /\ a \in BoundArtifacts => Content(a, r, s, b).binding = b
<1>1. Content(a, r, s, b) \in Provenance
  BY DEF Content, Provenance
<1> QED BY <1>1, NoneAssumption DEF Content

\* _advance ends in a state of the case, or raises.
LEMMA OutcomeType ==
    ASSUME NEW r, NEW s, NEW receipts, NEW b
    PROVE  Outcome(r, s, receipts, b) \in CaseStates \cup {"raise"}
BY DEF Outcome, CaseStates

\* _advance stores none of the inputs.
LEMMA StoredType ==
    ASSUME NEW r, NEW s, NEW receipts, NEW b
    PROVE  Stored(r, s, receipts, b) \subseteq SelectionArtifacts \cup BoundArtifacts
BY DEF Stored

(***************************************************************************)
(* A transition keeps the types.                                           *)
(***************************************************************************)

\* The artifacts of a transition are those it stores, new, and those it
\* inherits, unchanged.
LEMMA TransitionArtifacts ==
    ASSUME NEW base, NEW r, NEW s, NEW b, NEW stored, NEW state, NEW receipts,
           NEW a \in Artifacts
    PROVE  Transition(base, r, s, b, stored, state, receipts).next.artifacts[a]
              = IF a \in stored THEN Content(a, r, s, b) ELSE base.artifacts[a]
BY DEF Transition

\* The same of _advance, and the other fields of the case it leads to.
LEMMA AdvanceFields ==
    ASSUME NEW base, NEW r, NEW c, NEW b, NEW extra, NEW receipts
    PROVE  LET s == Normalized(r, c)
               stored == extra \cup Stored(r, s, receipts, b)
               t == Advance(base, r, c, b, extra, receipts)
           IN /\ \A a \in Artifacts : t.next.artifacts[a] =
                    IF a \in stored THEN Content(a, r, s, b) ELSE base.artifacts[a]
              /\ t.next.state = Outcome(r, s, receipts, b)
              /\ t.next.request = r /\ t.next.receipts = receipts
              /\ t.next.state = "awaiting-selection-decision" =>
                    t.next.packet = t.next.artifacts["selection_packet"]
              /\ t.base = base /\ t.todo = stored
BY TransitionArtifacts DEF Advance, Transition

LEMMA NoCaseArtifacts == \A a \in Artifacts : NoCase.artifacts[a] = None
BY DEF NoCase, NoArtifacts

LEMMA TransitionType ==
    ASSUME NEW base, CaseTyped(base), NEW r \in Requests,
           NEW s \in Selection \cup {None}, NEW b \in Bindings \cup {None},
           NEW stored \in SUBSET Artifacts, NEW receipts,
           s = None => stored \cap SelectionArtifacts = {},
           NEW state \in CaseStates \cup {"raise"}
    PROVE  JobTyped(Transition(base, r, s, b, stored, state, receipts))
<1> DEFINE t == Transition(base, r, s, b, stored, state, receipts)
<1>1. \A a \in Artifacts : t.next.artifacts[a] \in Provenance \cup {None}
  <2> SUFFICES ASSUME NEW a \in Artifacts
               PROVE  t.next.artifacts[a] \in Provenance \cup {None}
    OBVIOUS
  <2>1. base.artifacts[a] \in Provenance \cup {None}
    BY DEF CaseTyped, Index
  <2>2. Content(a, r, s, b) \in Provenance
    BY ContentType
  <2>3. t.next.artifacts[a] = IF a \in stored THEN Content(a, r, s, b)
                                              ELSE base.artifacts[a]
    BY TransitionArtifacts
  <2> HIDE DEF t
  <2> QED BY <2>1, <2>2, <2>3
<1>2. t.next.artifacts \in Index
  <2>1. t.next.artifacts = [a \in Artifacts |-> t.next.artifacts[a]]
    BY DEF Transition
  <2> QED BY <1>1, <2>1 DEF Index
<1>3. \A a \in SelectionArtifacts :
        t.next.artifacts[a] # None => t.next.artifacts[a].selection \in Selection
  BY TransitionArtifacts, ContentType DEF CaseTyped
<1>4. t.next.packet \in Provenance \cup {None}
  BY <1>1 DEF Transition
<1>5. /\ DOMAIN t.next = DOMAIN NoCase
      /\ t.next.state = state /\ t.next.request = r /\ t.next.result = None
  BY DEF Transition, NoCase
<1>6. CaseTyped(t.next)
  BY <1>2, <1>3, <1>4, <1>5 DEF CaseTyped
<1>7. DOMAIN t = DOMAIN NoJob /\ t.base = base /\ t.todo = stored
  BY DEF Transition, NoJob
<1> QED BY <1>6, <1>7 DEF JobTyped

LEMMA NoCaseTyped == CaseTyped(NoCase)
BY DEF CaseTyped, NoCase, Index, NoArtifacts

LEMMA NoJobTyped == JobTyped(NoJob)
BY NoCaseTyped DEF JobTyped, NoJob

LEMMA AdvanceType ==
    ASSUME NEW base, CaseTyped(base), NEW r \in Requests, NEW c \in Selection,
           NEW b \in Bindings \cup {None},
           NEW extra \in SUBSET Artifacts, NEW receipts
    PROVE  JobTyped(Advance(base, r, c, b, extra, receipts))
<1> DEFINE s == Normalized(r, c)
<1>1. s \in Selection BY NormalizedType
<1>2. s # None BY <1>1, NoneAssumption
<1>3. extra \cup Stored(r, s, receipts, b) \in SUBSET Artifacts BY StoredType
<1> HIDE DEF s
<1> QED
  BY <1>1, <1>2, <1>3, OutcomeType, TransitionType DEF Advance, s

LEMMA StartType ==
    ASSUME NEW r \in Requests
    PROVE  JobTyped(StartTransition(r))
<1>1. r.candidate \in Selection /\ r.binding \in Bindings \cup {None}
  BY RequestsAssumption DEF RequestType
<1>2. CASE r.fromSource /\ r.points = {}
  <2>1. InputArtifacts \cup {"source_packet"} \in SUBSET Artifacts OBVIOUS
  <2>2. "awaiting-source-decision" \in CaseStates BY DEF CaseStates
  <2> QED BY <1>2, <2>1, <2>2, NoCaseTyped, TransitionType DEF StartTransition
<1>3. CASE ~(r.fromSource /\ r.points = {})
  BY <1>1, <1>3, NoCaseTyped, AdvanceType DEF StartTransition
<1> QED BY <1>2, <1>3

(***************************************************************************)
(* A transition keeps the lineage.                                         *)
(***************************************************************************)

\* Unless it raises for want of subjects, _advance stores the selection; and
\* it stores the binding with whatever else depends on it.
LEMMA StoredTogether ==
    ASSUME NEW r, NEW s, NEW receipts, NEW b
    PROVE  /\ Outcome(r, s, receipts, b) # "raise"
                => "selection" \in Stored(r, s, receipts, b)
           /\ Stored(r, s, receipts, b) \cap BoundArtifacts # {}
                => "binding" \in Stored(r, s, receipts, b)
<1>1. Outcome(r, s, receipts, b) # "raise"
        => ~(NeedsDecision(s, receipts) /\ PacketSubjects(r, s) = {})
  BY DEF Outcome
<1> QED BY <1>1 DEF Stored

\* A transition that rebuilds or inherits nothing of another selection, and
\* inherits nothing bound, leads to a case of one lineage.
LEMMA AdvanceLineage ==
    ASSUME NEW base, CaseTyped(base), NEW r \in Requests, NEW c \in Selection,
           NEW b \in Bindings \cup {None},
           NEW extra \in SUBSET (InputArtifacts \cup {"selection_decision"}),
           NEW receipts,
           Outcome(r, Normalized(r, c), receipts, b) # "raise",
           \A a \in Artifacts :
              base.artifacts[a] # None => base.artifacts[a].request = r,
           \A a \in SelectionArtifacts \ {"selection_packet", "selection"} :
              base.artifacts[a] # None =>
                base.artifacts[a].selection = Normalized(r, c),
           \A a \in BoundArtifacts : base.artifacts[a] = None
    PROVE  Lineage(Advance(base, r, c, b, extra, receipts).next)
<1> DEFINE s == Normalized(r, c)
           stored == extra \cup Stored(r, s, receipts, b)
           next == Advance(base, r, c, b, extra, receipts).next
<1>1. s \in Selection BY NormalizedType
<1>2. next.request = r BY DEF Advance, Transition
<1>3. \A a \in Artifacts : next.artifacts[a] =
        IF a \in stored THEN Content(a, r, s, b) ELSE base.artifacts[a]
  BY TransitionArtifacts DEF Advance
<1>4. "selection" \in stored BY StoredTogether
<1>5. stored \cap BoundArtifacts # {} => "binding" \in stored
  BY StoredTogether
<1> SUFFICES Lineage(next) OBVIOUS
<1> HIDE DEF next, stored
<1> SUFFICES ASSUME NEW a \in Artifacts, next.artifacts[a] # None
             PROVE  /\ next.artifacts[a].request = r
                    /\ a \in SelectionArtifacts \ {"selection_packet"} =>
                          next.artifacts[a].selection
                             = next.artifacts["selection"].selection
                    /\ a \in BoundArtifacts =>
                          next.artifacts[a].binding
                             = next.artifacts["binding"].binding
  BY <1>2 DEF Lineage
<1>6. next.artifacts[a].request = r
  BY <1>1, <1>3, ContentType
<1>7. next.artifacts["selection"].selection = s
  BY <1>1, <1>3, <1>4, ContentType
<1>8. a \in SelectionArtifacts \ {"selection_packet"} =>
        next.artifacts[a].selection = s
  BY <1>1, <1>3, <1>4, ContentType DEF s
<1>9. a \in BoundArtifacts =>
        next.artifacts[a].binding = next.artifacts["binding"].binding
  <2> SUFFICES ASSUME a \in BoundArtifacts
               PROVE  next.artifacts[a].binding = next.artifacts["binding"].binding
    OBVIOUS
  <2>1. a \in stored BY <1>3
  <2>2. "binding" \in stored BY <1>5, <2>1
  <2> QED BY <1>1, <1>3, <2>1, <2>2, ContentType
<1> QED BY <1>6, <1>7, <1>8, <1>9

(***************************************************************************)
(* A transition is ready for the reply its state asks for.                 *)
(***************************************************************************)

\* What each outcome that waits for a reply says of its inputs, and where a
\* binding can lead.
LEMMA OutcomeFacts ==
    ASSUME NEW r, NEW s, NEW receipts, NEW b
    PROVE  /\ Outcome(r, s, receipts, b) # "awaiting-source-decision"
           /\ Outcome(r, s, receipts, b) = "awaiting-selection-decision" =>
                NeedsDecision(s, receipts) /\ PacketSubjects(r, s) # {}
           /\ Outcome(r, s, receipts, b) = "awaiting-binding" =>
                /\ ~NeedsDecision(s, receipts) /\ ~Blocked(r, s)
                /\ s.included # {} /\ r.targets # {} /\ b = None
           /\ (s.included # {} /\ ~Blocked(r, s) /\ r.targets # {} /\ b # None) =>
                Outcome(r, s, receipts, b) \in
                    {"raise", "complete", "awaiting-physical-read", "partial"}
BY DEF Outcome, NeedsDecision

\* After a normalization no ambiguous point is included but by decision.
LEMMA NormalizedAmbiguous ==
    ASSUME NEW r \in Requests, NEW c \in Selection
    PROVE  Normalized(r, c).included \cap r.ambiguous \subseteq Normalized(r, c).decided
BY DEF Normalized, Selection

LEMMA AdvanceReadyForDecision ==
    ASSUME NEW r \in Requests, NEW c \in Selection, NEW b \in Bindings \cup {None},
           Outcome(r, Normalized(r, c), {}, b) = "awaiting-selection-decision"
    PROVE  ReadyForDecision(
              Advance(NoCase, r, c, b, InputArtifacts, {}).next)
<1> DEFINE s == Normalized(r, c)
           stored == InputArtifacts \cup Stored(r, s, {}, b)
           next == Advance(NoCase, r, c, b, InputArtifacts, {}).next
<1>1. s \in Selection BY NormalizedType
<1>2. NeedsDecision(s, {}) /\ PacketSubjects(r, s) # {}
  BY OutcomeFacts
<1>3. stored = InputArtifacts \cup {"selection", "selection_packet"}
  BY <1>2 DEF Stored, Binds
<1>4. \A a \in Artifacts : next.artifacts[a] =
        IF a \in stored THEN Content(a, r, s, b) ELSE None
  BY AdvanceFields, NoCaseArtifacts
<1>5. next.receipts = {} /\ next.packet = next.artifacts["selection_packet"]
  BY DEF Advance, Transition
<1>6. s.included = {} BY <1>2 DEF NeedsDecision
<1>7. /\ next.artifacts["selection"] = Content("selection", r, s, b)
      /\ next.artifacts["selection_packet"] = Content("selection_packet", r, s, b)
  BY <1>3, <1>4
<1> SUFFICES ReadyForDecision(next) OBVIOUS
<1> HIDE DEF next, stored, s
<1>8. /\ next.packet # None
      /\ next.packet.selection = s
      /\ next.artifacts["selection"].selection = s
  BY <1>1, <1>5, <1>7, ContentType
<1>9. \A a \in (SelectionArtifacts \cup BoundArtifacts)
                  \ {"selection", "selection_packet"} : next.artifacts[a] = None
  BY <1>3, <1>4
<1> QED BY <1>5, <1>6, <1>8, <1>9 DEF ReadyForDecision

LEMMA AdvanceReadyForBinding ==
    ASSUME NEW base, NEW r \in Requests, NEW c \in Selection,
           NEW extra \in SUBSET (InputArtifacts \cup {"selection_decision"}),
           NEW receipts,
           Outcome(r, Normalized(r, c), receipts, r.binding) = "awaiting-binding",
           \A a \in BoundArtifacts : base.artifacts[a] = None,
           \A x \in receipts : x.action = "provide-selection-decision"
    PROVE  ReadyForBinding(
              Advance(base, r, c, r.binding, extra, receipts).next)
<1> DEFINE s == Normalized(r, c)
           stored == extra \cup Stored(r, s, receipts, r.binding)
           next == Advance(base, r, c, r.binding, extra, receipts).next
<1>1. s \in Selection BY NormalizedType
<1>2. /\ ~NeedsDecision(s, receipts) /\ ~Blocked(r, s)
      /\ s.included # {} /\ r.targets # {} /\ r.binding = None
  BY OutcomeFacts
<1>3. "selection" \in stored /\ stored \cap BoundArtifacts = {}
  BY <1>2 DEF Stored, Binds
<1>4. \A a \in Artifacts : next.artifacts[a] =
        IF a \in stored THEN Content(a, r, s, r.binding) ELSE base.artifacts[a]
  BY TransitionArtifacts DEF Advance
<1>5. next.receipts = receipts /\ next.request = r
  BY DEF Advance, Transition
<1>6. s.included \cap r.ambiguous \subseteq s.decided
  BY NormalizedAmbiguous
<1>7. r.covered /\ s.included \cap r.held = {} BY <1>2 DEF Blocked
<1>8. next.artifacts["selection"] = Content("selection", r, s, r.binding)
  BY <1>3, <1>4
<1> SUFFICES ReadyForBinding(next) OBVIOUS
<1> HIDE DEF next, stored, s
<1>9. next.artifacts["selection"] # None /\ next.artifacts["selection"].selection = s
  BY <1>1, <1>2, <1>8, ContentType
<1>10. \A a \in BoundArtifacts : next.artifacts[a] = None
  BY <1>3, <1>4
<1> QED BY <1>2, <1>5, <1>6, <1>7, <1>9, <1>10 DEF ReadyForBinding

(***************************************************************************)
(* The transitions of a start and of an accepted reply are sound.          *)
(***************************************************************************)

\* A case fit to be committed, and to be answered.  A receipt is not among the
\* receipts of the case it answered, so no case answers itself.
Sound(c) ==
    /\ CaseTyped(c) /\ c.state \in CaseStates /\ c.request \in Requests
    /\ Lineage(c) /\ Ready(c) /\ AnsweredOnce(c)
    /\ \A x \in c.receipts : x \notin x.base.receipts

\* The request opens a case with no receipt.
StartSound(t) ==
    /\ t.base = NoCase /\ t.next.receipts = {}
    /\ t.next.state # "raise" => Sound(t.next)

LEMMA StartIsSound ==
    ASSUME NEW r \in Requests
    PROVE  StartSound(StartTransition(r))
<1> DEFINE t == StartTransition(r)
<1>1. JobTyped(t) BY StartType
<1>2. r.candidate \in Selection /\ r.binding \in Bindings \cup {None}
  BY RequestsAssumption DEF RequestType
<1>3. t.base = NoCase /\ t.next.receipts = {} /\ t.next.request = r
  BY DEF StartTransition, Advance, Transition
<1>4. AnsweredOnce(t.next) /\ \A x \in t.next.receipts : x \notin x.base.receipts
  BY <1>3 DEF AnsweredOnce
<1>5. CASE r.fromSource /\ r.points = {}
  <2> DEFINE stored == InputArtifacts \cup {"source_packet"}
  <2>1. t = Transition(NoCase, r, None, None, stored,
                       "awaiting-source-decision", {})
    BY <1>5 DEF StartTransition
  <2>2. t.next.state = "awaiting-source-decision"
    BY <2>1 DEF Transition
  <2>3. \A a \in Artifacts : t.next.artifacts[a] =
          IF a \in stored THEN Content(a, r, None, None) ELSE None
    BY <2>1, NoCaseArtifacts, TransitionArtifacts
  <2> HIDE DEF t
  <2>4. Lineage(t.next)
    <3>1. \A a \in stored : Content(a, r, None, None).request = r
      BY DEF Content
    <3> QED BY <1>3, <2>3, <3>1 DEF Lineage
  <2>5. Ready(t.next) /\ t.next.state \in CaseStates
    BY <2>2 DEF Ready, CaseStates
  <2> QED BY <1>1, <1>3, <1>4, <2>4, <2>5 DEF StartSound, Sound, JobTyped, t
<1>6. CASE ~(r.fromSource /\ r.points = {})
  <2> DEFINE s == Normalized(r, r.candidate)
  <2>1. t = Advance(NoCase, r, r.candidate, r.binding, InputArtifacts, {})
    BY <1>6 DEF StartTransition
  <2>2. t.next.state = Outcome(r, s, {}, r.binding)
    BY <2>1, AdvanceFields
  <2> SUFFICES ASSUME t.next.state # "raise" PROVE Sound(t.next)
    BY <1>3 DEF StartSound
  <2>4. t.next.state \in CaseStates
    BY <2>2, OutcomeType
  <2>5. Lineage(t.next)
    BY <1>2, <2>1, <2>2, NoCaseArtifacts, NoCaseTyped, AdvanceLineage
  <2>6. t.next.state = "awaiting-selection-decision" => ReadyForDecision(t.next)
    BY <1>2, <2>1, <2>2, AdvanceReadyForDecision
  <2>7. t.next.state = "awaiting-binding" => ReadyForBinding(t.next)
    BY <1>2, <2>1, <2>2, NoCaseArtifacts, AdvanceReadyForBinding
  <2> HIDE DEF t
  <2> QED BY <1>1, <1>3, <1>4, <2>4, <2>5, <2>6, <2>7 DEF Sound, Ready, JobTyped
<1> QED BY <1>5, <1>6

\* A decision settles every point it was offered: nothing is demoted again,
\* nothing stays suggested, and no further decision is asked for.
LEMMA DecisionSettles ==
    ASSUME NEW r \in Requests, NEW s \in Selection,
           NEW chosen \in SUBSET PacketSubjects(r, s),
           NEW receipts, Resolved(receipts)
    PROVE  ~NeedsDecision(
              Normalized(r, SelectionFromDecision(s, PacketSubjects(r, s), chosen)),
              receipts)
<1> DEFINE subjects == PacketSubjects(r, s)
           d == SelectionFromDecision(s, subjects, chosen)
<1>1. subjects \in SUBSET Points /\ chosen \in SUBSET Points BY SubjectsType
<1>2. d \in Selection BY <1>1, DecisionType
<1>3. d.included \ d.decided = {} /\ d.suggested = s.suggested \ subjects
  BY <1>1 DEF SelectionFromDecision
<1>4. s.suggested \ subjects = {} BY DEF PacketSubjects
<1> HIDE DEF d
<1>5. Normalized(r, d).suggested = {}
  BY <1>2, <1>3, <1>4 DEF Normalized, Selection
<1> QED BY <1>5 DEF NeedsDecision, d

\* A selection with no undecided ambiguous entry is normal already.
LEMMA NormalizedAgain ==
    ASSUME NEW r \in Requests, NEW s \in Selection,
           s.included \cap r.ambiguous \subseteq s.decided
    PROVE  Normalized(r, s) = s
<1>1. (s.included \cap r.ambiguous) \ s.decided = {} OBVIOUS
<1> QED BY <1>1 DEF Normalized, Selection

\* The reply x to case c adds its receipt, moves c as the lifecycle allows and,
\* unless it raises, leads to a sound case.
ReplySound(c, x, t) ==
    /\ t.base = c /\ t.next.receipts = c.receipts \cup {x}
    /\ x \notin c.receipts /\ x.base = c
    /\ t.next.state # "raise" => Sound(t.next)
    /\ \/ /\ x.action = "provide-selection-decision"
          /\ c.state = "awaiting-selection-decision"
          /\ t.next.state \notin {"awaiting-selection-decision",
                                  "awaiting-source-decision"}
       \/ /\ x.action = "provide-binding"
          /\ c.state = "awaiting-binding"
          /\ t.next.state \in {"raise", "complete", "awaiting-physical-read", "partial"}

\* The checks a reply passes before anything is written.
Fits(c, x) ==
    /\ x \in Replies(c) /\ x \notin c.receipts
    /\ c.artifacts["request"] # None /\ c.artifacts["selection"] # None
    /\ \/ /\ x.action = "provide-selection-decision"
          /\ c.state = "awaiting-selection-decision"
          /\ x.chosen \subseteq
                PacketSubjects(c.artifacts["selection_packet"].request,
                               c.artifacts["selection_packet"].selection)
       \/ /\ x.action = "provide-binding"
          /\ c.state = "awaiting-binding"

\* The receipts of the next case stay well founded and one per checkpoint.
LEMMA ReceiptsGrow ==
    ASSUME NEW c, AnsweredOnce(c), \A y \in c.receipts : y \notin y.base.receipts,
           NEW x, x \notin c.receipts, x.base = c,
           NEW next, next.receipts = c.receipts \cup {x}
    PROVE  AnsweredOnce(next) /\ \A y \in next.receipts : y \notin y.base.receipts
<1>1. \A y \in c.receipts : y.base # c OBVIOUS
<1> QED BY <1>1 DEF AnsweredOnce

LEMMA ReplyFacts ==
    ASSUME NEW c, Sound(c), NEW x, Fits(c, x)
    PROVE  /\ c.artifacts["request"].request = c.request
           /\ c.artifacts["selection"].selection \in Selection
           /\ x.base = c /\ x.binding \in Bindings \cup {None}
           /\ x.action = "provide-binding" => x.binding \in Bindings
           /\ \A a \in Artifacts : c.artifacts[a] # None =>
                c.artifacts[a].request = c.request
<1>1. x.base = c /\ x.binding \in Bindings \cup {None}
  BY DEF Fits, Replies
<1>2. x.action = "provide-binding" => x.binding \in Bindings
  BY DEF Fits, Replies
<1> QED BY <1>1, <1>2 DEF Sound, Lineage, CaseTyped, Fits

LEMMA DecisionIsSound ==
    ASSUME NEW c, Sound(c), NEW x, Fits(c, x),
           x.action = "provide-selection-decision",
           c.state = "awaiting-selection-decision"
    PROVE  ReplySound(c, x, ResumeTransition(c, x)) /\ JobTyped(ResumeTransition(c, x))
<1> DEFINE r == c.request
           prior == c.artifacts["selection"].selection
           subjects == PacketSubjects(r, prior)
           d == SelectionFromDecision(prior, subjects, x.chosen)
           receipts == c.receipts \cup {x}
           t == ResumeTransition(c, x)
<1>1. r \in Requests /\ prior \in Selection /\ CaseTyped(c)
  BY ReplyFacts DEF Sound
<1>2. r.binding \in Bindings \cup {None}
  BY <1>1, RequestsAssumption DEF RequestType
<1>3. t = Advance(c, r, d, r.binding, {"selection_decision"}, receipts)
  BY ReplyFacts DEF ResumeTransition
<1>4. ReadyForDecision(c) BY DEF Sound, Ready
<1>5. x.chosen \in SUBSET subjects
  BY <1>1, <1>4, ReplyFacts DEF Fits, ReadyForDecision
<1>6. subjects \in SUBSET Points /\ x.chosen \in SUBSET Points
  BY <1>1, <1>5, SubjectsType
<1>7. d \in Selection BY <1>1, <1>6, DecisionType
<1>8. Resolved(receipts) BY DEF Resolved
<1>9. ~NeedsDecision(Normalized(r, d), receipts)
  BY <1>1, <1>5, <1>8, DecisionSettles
<1>10. /\ t.next.state = Outcome(r, Normalized(r, d), receipts, r.binding)
       /\ t.next.receipts = receipts /\ t.base = c /\ t.next.request = r
  BY <1>3, AdvanceFields
<1> HIDE DEF d, t, receipts, r, subjects
<1>11. JobTyped(t)
  BY <1>1, <1>2, <1>3, <1>7, AdvanceType
<1>12. t.next.state \notin {"awaiting-selection-decision", "awaiting-source-decision"}
  BY <1>9, <1>10, OutcomeFacts
<1>13. \A a \in BoundArtifacts \cup
            (SelectionArtifacts \ {"selection_packet", "selection"}) :
          c.artifacts[a] = None
  BY <1>4 DEF ReadyForDecision
<1>14. ASSUME t.next.state # "raise" PROVE Sound(t.next)
  <2>1. Lineage(t.next)
    BY <1>1, <1>2, <1>3, <1>7, <1>10, <1>13, <1>14, ReplyFacts, AdvanceLineage DEF r
  <2>2. Ready(t.next)
    <3>1. SUFFICES ASSUME t.next.state = "awaiting-binding"
                   PROVE  ReadyForBinding(t.next)
      BY <1>12 DEF Ready
    <3>2. \A y \in receipts : y.action = "provide-selection-decision"
      BY <1>4 DEF ReadyForDecision, receipts
    <3> QED BY <1>1, <1>3, <1>7, <1>10, <1>13, <3>1, <3>2, AdvanceReadyForBinding
  <2>3. AnsweredOnce(t.next) /\ \A y \in t.next.receipts : y \notin y.base.receipts
    BY <1>10, ReplyFacts, ReceiptsGrow DEF Sound, Fits, receipts
  <2>4. t.next.state \in CaseStates BY <1>10, <1>14, OutcomeType
  <2> QED BY <1>1, <1>10, <1>11, <2>1, <2>2, <2>3, <2>4 DEF Sound, JobTyped
<1> QED
  BY <1>10, <1>11, <1>12, <1>14, ReplyFacts DEF ReplySound, Fits, t, receipts

LEMMA BindingIsSound ==
    ASSUME NEW c, Sound(c), NEW x, Fits(c, x),
           x.action = "provide-binding", c.state = "awaiting-binding"
    PROVE  ReplySound(c, x, ResumeTransition(c, x)) /\ JobTyped(ResumeTransition(c, x))
<1> DEFINE r == c.request
           prior == c.artifacts["selection"].selection
           receipts == c.receipts \cup {x}
           t == ResumeTransition(c, x)
<1>1. r \in Requests /\ prior \in Selection /\ CaseTyped(c) /\ x.binding \in Bindings
  BY ReplyFacts DEF Sound
<1>2. t = Advance(c, r, prior, x.binding, {}, receipts)
  BY ReplyFacts DEF ResumeTransition
<1>3. ReadyForBinding(c) BY DEF Sound, Ready
<1>4. Normalized(r, prior) = prior
  BY <1>1, <1>3, NormalizedAgain DEF ReadyForBinding
<1>5. /\ t.next.state = Outcome(r, prior, receipts, x.binding)
      /\ t.next.receipts = receipts /\ t.base = c /\ t.next.request = r
  BY <1>2, <1>4, AdvanceFields
<1>6. prior.included # {} /\ ~Blocked(r, prior) /\ r.targets # {} /\ x.binding # None
  BY <1>1, <1>3, NoneAssumption DEF ReadyForBinding, Blocked
<1> HIDE DEF t, receipts, r, prior
<1>7. t.next.state \in {"raise", "complete", "awaiting-physical-read", "partial"}
  BY <1>5, <1>6, OutcomeFacts
<1>8. JobTyped(t)
  BY <1>1, <1>2, AdvanceType
<1>9. ASSUME t.next.state # "raise" PROVE Sound(t.next)
  <2>1. \A a \in BoundArtifacts : c.artifacts[a] = None
    BY <1>3 DEF ReadyForBinding
  <2>2. \A a \in SelectionArtifacts \ {"selection_packet", "selection"} :
          c.artifacts[a] # None => c.artifacts[a].selection = prior
    BY DEF Sound, Lineage, prior
  <2>3. Lineage(t.next)
    BY <1>1, <1>2, <1>4, <1>5, <1>9, <2>1, <2>2, ReplyFacts, AdvanceLineage DEF r
  <2>4. Ready(t.next) BY <1>7 DEF Ready
  <2>5. AnsweredOnce(t.next) /\ \A y \in t.next.receipts : y \notin y.base.receipts
    BY <1>5, ReplyFacts, ReceiptsGrow DEF Sound, Fits, receipts
  <2>6. t.next.state \in CaseStates BY <1>7, <1>9 DEF CaseStates
  <2> QED BY <1>1, <1>5, <1>8, <2>3, <2>4, <2>5, <2>6 DEF Sound, JobTyped
<1> QED
  BY <1>5, <1>7, <1>8, <1>9, ReplyFacts DEF ReplySound, Fits, t, receipts

(***************************************************************************)
(* The inductive invariant.                                                *)
(***************************************************************************)

\* What process p is writing is the outcome of a start, or of a reply to the
\* case it read; what it commits did not raise and has its result.
JobSound(p) ==
    phase[p] # "idle" =>
        /\ StartSound(job[p]) \/ \E x : ReplySound(job[p].base, x, job[p])
        /\ phase[p] = "committing" =>
              job[p].next.state # "raise" /\ job[p].next.result \in ResultType

IInv ==
    /\ TypeOK
    /\ caseFile = NoCase \/ Sound(caseFile)
    /\ \A c \in seen : Sound(c)
    /\ \A p \in Procs : JobSound(p)

LEMMA InitIInv == Init => IInv
<1> SUFFICES ASSUME Init PROVE IInv OBVIOUS
<1>1. TypeOK
  BY NoCaseTyped, NoJobTyped
  DEF Init, TypeOK, NoCase, NoArtifacts, Index, Phases, Mishaps
<1> QED BY <1>1 DEF Init, IInv, JobSound

\* The result field of a case takes no part in its soundness.
LEMMA SoundWithResult ==
    ASSUME NEW c, Sound(c), NEW result \in ResultType
    PROVE  Sound([c EXCEPT !.result = result])
<1> DEFINE d == [c EXCEPT !.result = result]
<1>1. DOMAIN c = DOMAIN NoCase BY DEF Sound, CaseTyped
<1>2. /\ DOMAIN d = DOMAIN NoCase /\ d.result = result
      /\ d.state = c.state /\ d.request = c.request /\ d.artifacts = c.artifacts
      /\ d.receipts = c.receipts /\ d.packet = c.packet
  BY <1>1 DEF NoCase
<1> HIDE DEF d
<1>3. CaseTyped(d) BY <1>2 DEF Sound, CaseTyped
<1>4. Lineage(d) BY <1>2 DEF Sound, Lineage
<1>5. Ready(d)
  BY <1>2 DEF Sound, Ready, ReadyForDecision, ReadyForBinding
<1>6. AnsweredOnce(d) BY <1>2 DEF Sound, AnsweredOnce
<1>7. Sound(d) BY <1>2, <1>3, <1>4, <1>5, <1>6 DEF Sound
<1> QED BY <1>7 DEF d

\* A job in progress leads to a sound case, unless it raises.
LEMMA JobIsSound ==
    ASSUME NEW p \in Procs, JobSound(p), phase[p] # "idle",
           job[p].next.state # "raise"
    PROVE  Sound(job[p].next)
BY DEF JobSound, StartSound, ReplySound

\* An accepted reply fits the case it answers.
LEMMA AcceptedFits ==
    ASSUME IInv, NEW c \in seen, NEW x \in Replies(c), Accepted(x)
    PROVE  Sound(caseFile) /\ Fits(caseFile, x)
<1>1. x.base = c BY DEF Replies
<1>2. c = caseFile BY <1>1 DEF Accepted
<1>3. Sound(caseFile) BY <1>2 DEF IInv
<1>4. /\ caseFile.artifacts["request"] # None
      /\ caseFile.artifacts["selection"] # None
  BY DEF Accepted, Fresh, DecisionFits, BindingFits
<1>5. CASE DecisionFits(x)
  BY <1>2, <1>3, <1>4, <1>5 DEF Fits, DecisionFits, Accepted
<1>6. CASE BindingFits(x)
  BY <1>2, <1>3, <1>4, <1>6 DEF Fits, BindingFits, Accepted
<1> QED BY <1>5, <1>6 DEF Accepted

\* Starting a sound, well-typed transition keeps the invariant.
LEMMA BeginKeepsIInv ==
    ASSUME IInv, NEW p \in Procs, NEW t, JobTyped(t), Begin(p, t),
           StartSound(t) \/ \E x : ReplySound(t.base, x, t)
    PROVE  IInv'
<1>1. TypeOK'
  BY DEF IInv, TypeOK, Begin, files, Phases
<1>2. JobSound(p)'
  BY DEF IInv, TypeOK, JobSound, Begin, files, StartSound, ReplySound
<1>3. \A q \in Procs \ {p} : JobSound(q)'
  BY DEF IInv, TypeOK, JobSound, Begin, files
<1> QED BY <1>1, <1>2, <1>3 DEF IInv, Begin, files

\* Ending an invocation without touching a file keeps the invariant.
LEMMA EndKeepsIInv ==
    ASSUME IInv, NEW p \in Procs, NEW answer \in ResultType \cup {None, Error},
           End(p, answer), UNCHANGED <<caseFile, resultFile, disk, seen>>,
           litter' \in BOOLEAN, mishaps' \subseteq Mishaps
    PROVE  IInv'
<1>1. TypeOK'
  BY NoJobTyped DEF IInv, TypeOK, End, Phases
<1>2. JobSound(p)' BY DEF IInv, TypeOK, JobSound, End
<1>3. \A q \in Procs \ {p} : JobSound(q)'
  BY DEF IInv, TypeOK, JobSound, End
<1> QED BY <1>1, <1>2, <1>3 DEF IInv

LEMMA StoredResultType == IInv => StoredResult \in ResultType \cup {None, Error}
BY DEF IInv, TypeOK, StoredResult

LEMMA NextIInv == IInv /\ [Next]_vars => IInv'
<1> SUFFICES ASSUME IInv, [Next]_vars PROVE IInv' OBVIOUS
<1>1. ASSUME NEW p \in Procs, NEW r \in Requests, Start(p, r) PROVE IInv'
  BY <1>1, StartType, StartIsSound, BeginKeepsIInv DEF Start
<1>2. ASSUME NEW p \in Procs, NEW answer \in ResultType \cup {None, Error},
             Answer(p, answer)
      PROVE  IInv'
  BY <1>2, EndKeepsIInv DEF Answer, files, IInv, TypeOK
<1>3. ASSUME NEW p \in Procs, NEW r \in Requests, StartRefused(p, r) \/ Rerun(p, r)
      PROVE  IInv'
  BY <1>2, <1>3, StoredResultType DEF StartRefused, Rerun
<1>4. ASSUME NEW p \in Procs, NEW x, Replay(p, x) \/ ResumeRejected(p, x)
      PROVE  IInv'
  BY <1>2, <1>4, StoredResultType DEF Replay, ResumeRejected
<1>5. ASSUME NEW p \in Procs, NEW c \in seen, NEW x \in Replies(c), Resume(p, x)
      PROVE  IInv'
  <2> DEFINE t == ResumeTransition(caseFile, x)
  <2>1. Sound(caseFile) /\ Fits(caseFile, x)
    BY <1>5, AcceptedFits DEF Resume
  <2>2. ReplySound(caseFile, x, t) /\ JobTyped(t)
    BY <2>1, DecisionIsSound, BindingIsSound DEF Fits
  <2>3. t.base = caseFile BY <2>2 DEF ReplySound
  <2> HIDE DEF t
  <2>4. Begin(p, t) BY <1>5 DEF Resume, t
  <2> QED BY <2>2, <2>3, <2>4, BeginKeepsIInv
<1>6. ASSUME NEW p \in Procs, StoreArtifact(p) PROVE IInv'
  <2>1. PICK a \in job[p].todo :
          /\ disk' = [disk EXCEPT ![a] = job[p].next.artifacts[a]]
          /\ job' = [job EXCEPT ![p].todo = @ \ {a}]
    BY <1>6 DEF StoreArtifact
  <2>2. JobTyped(job[p]) /\ a \in Artifacts BY DEF IInv, TypeOK, JobTyped
  <2>3. /\ DOMAIN job'[p] = DOMAIN NoJob
        /\ job'[p].base = job[p].base /\ job'[p].next = job[p].next
        /\ job'[p].todo = job[p].todo \ {a}
    BY <2>1, <2>2 DEF IInv, TypeOK, JobTyped, NoJob
  <2>4. JobTyped(job'[p]) BY <2>2, <2>3 DEF JobTyped
  <2>5. disk' \in Index
    BY <2>1, <2>2 DEF IInv, TypeOK, JobTyped, CaseTyped, Index
  <2>6. DOMAIN job' = Procs /\ \A q \in Procs \ {p} : job'[q] = job[q]
    BY <2>1 DEF IInv, TypeOK
  <2>7. TypeOK'
    BY <1>6, <2>4, <2>5, <2>6 DEF IInv, TypeOK, StoreArtifact
  <2>8. JobSound(p)'
    BY <1>6, <2>3 DEF IInv, JobSound, StoreArtifact, StartSound, ReplySound
  <2>9. \A q \in Procs \ {p} : JobSound(q)'
    BY <1>6, <2>6 DEF IInv, JobSound, StoreArtifact
  <2> QED BY <1>6, <2>7, <2>8, <2>9 DEF IInv, StoreArtifact
<1>7. ASSUME NEW p \in Procs, Raise(p) PROVE IInv'
  BY <1>7, EndKeepsIInv DEF Raise, files, IInv, TypeOK, Mishaps
<1>8. ASSUME NEW p \in Procs, WriteResult(p) PROVE IInv'
  <2>1. PICK result :
          /\ \E ms \in Elapsed :
                result = [state |-> job[p].next.state,
                          artifacts |-> job[p].next.artifacts, elapsed_ms |-> ms]
          /\ resultFile' = result
          /\ job' = [job EXCEPT ![p].next.result = result]
    BY <1>8 DEF WriteResult
  <2>2. Sound(job[p].next) /\ JobTyped(job[p])
    BY <1>8, JobIsSound DEF IInv, TypeOK, WriteResult
  <2>3. result \in ResultType
    BY <2>1, <2>2 DEF ResultType, Sound, CaseTyped
  <2>4. /\ DOMAIN job'[p] = DOMAIN NoJob
        /\ job'[p].base = job[p].base /\ job'[p].todo = job[p].todo
        /\ job'[p].next = [job[p].next EXCEPT !.result = result]
    BY <2>1, <2>2 DEF IInv, TypeOK, JobTyped, NoJob
  <2>5. Sound(job'[p].next) BY <2>2, <2>3, <2>4, SoundWithResult
  <2>6. /\ job'[p].next.state = job[p].next.state
        /\ job'[p].next.receipts = job[p].next.receipts
        /\ job'[p].next.result = result
    BY <2>2, <2>4 DEF JobTyped, CaseTyped, NoCase
  <2>7. JobTyped(job'[p]) BY <2>2, <2>4, <2>5 DEF JobTyped, Sound
  <2>8. DOMAIN job' = Procs /\ \A q \in Procs \ {p} : job'[q] = job[q]
    BY <2>1 DEF IInv, TypeOK
  <2>9. TypeOK'
    BY <1>8, <2>1, <2>3, <2>7, <2>8 DEF IInv, TypeOK, WriteResult, Phases
  <2>10. JobSound(p)'
    <3>1. StartSound(job[p]) => StartSound(job'[p])
      BY <2>4, <2>5, <2>6 DEF StartSound
    <3>2. ASSUME NEW x, ReplySound(job[p].base, x, job[p])
          PROVE  ReplySound(job'[p].base, x, job'[p])
      BY <2>4, <2>5, <2>6, <3>2 DEF ReplySound
    <3> QED BY <1>8, <2>3, <2>6, <3>1, <3>2 DEF IInv, JobSound, WriteResult
  <2>11. \A q \in Procs \ {p} : JobSound(q)'
    BY <1>8, <2>8 DEF IInv, TypeOK, JobSound, WriteResult
  <2> QED BY <1>8, <2>9, <2>10, <2>11 DEF IInv, WriteResult
<1>9. ASSUME NEW p \in Procs, WriteCase(p) PROVE IInv'
  <2>1. Sound(job[p].next) /\ job[p].next.result \in ResultType
    BY <1>9, JobIsSound DEF IInv, JobSound, WriteCase
  <2>2. TypeOK'
    BY <1>9, <2>1, NoJobTyped
    DEF IInv, TypeOK, WriteCase, End, Phases, Sound, CaseStates
  <2>3. JobSound(p)' BY <1>9 DEF IInv, TypeOK, JobSound, WriteCase, End
  <2>4. \A q \in Procs \ {p} : JobSound(q)'
    BY <1>9 DEF IInv, TypeOK, JobSound, WriteCase, End
  <2> QED BY <1>9, <2>1, <2>2, <2>3, <2>4 DEF IInv, WriteCase
<1>10. ASSUME NEW p \in Procs, Interrupt(p) PROVE IInv'
  <2>1. litter' \in BOOLEAN /\ mishaps' \subseteq Mishaps
    BY <1>10 DEF Interrupt, IInv, TypeOK, Mishaps
  <2> QED BY <1>10, <2>1, EndKeepsIInv DEF Interrupt
<1>11. CASE UNCHANGED vars
  BY <1>11 DEF vars, IInv, TypeOK, JobSound
<1> QED
  BY <1>1, <1>3, <1>4, <1>5, <1>6, <1>7, <1>8, <1>9, <1>10, <1>11 DEF Next

(***************************************************************************)
(* What holds for any number of processes, crashing or not.                *)
(***************************************************************************)

\* The inductive invariant holds in every reachable state.
THEOREM Invariance == Spec => []IInv
BY InitIInv, NextIInv, PTL DEF Spec

\* Every variable keeps its type.
THEOREM TypeCorrect == Spec => []TypeOK
<1>1. IInv => TypeOK BY DEF IInv
<1> QED BY <1>1, Invariance, PTL

\* case.json never indexes artifacts of two lineages, whatever processes,
\* replies and crashes interleave.
THEOREM LineageAlways == Spec => []IndexLineage
<1>1. IInv => IndexLineage
  BY NoCaseArtifacts DEF IInv, Sound, IndexLineage, Lineage
<1> QED BY <1>1, Invariance, PTL

\* A checkpoint that waits for a reply is always ready for it.
THEOREM ReadyAlways == Spec => []CheckpointReady
<1>1. IInv => CheckpointReady
  BY DEF IInv, Sound, CheckpointReady, Ready, NoCase
<1> QED BY <1>1, Invariance, PTL

\* No two receipts of a case answer the same checkpoint.
THEOREM AnsweredOnceAlways == Spec => []CheckpointAnsweredOnce
<1>1. IInv => CheckpointAnsweredOnce
  BY DEF IInv, Sound, CheckpointAnsweredOnce, AnsweredOnce, NoCase
<1> QED BY <1>1, Invariance, PTL

(***************************************************************************)
(* What holds when one process at a time works on the root.                *)
(***************************************************************************)
Alone == \A p, q \in Procs : p = q

\* The inputs of a job: a start has written them or will; a reply inherits
\* them and does not write them.
InputsKept(j) ==
    \A a \in InputArtifacts :
        IF j.base = NoCase
          THEN /\ j.next.artifacts[a] # None
               /\ a \in j.todo \/ disk[a] = j.next.artifacts[a]
          ELSE a \notin j.todo /\ j.next.artifacts[a] = j.base.artifacts[a]

\* The one process in progress works on the case that is on disk.
AloneInv ==
    /\ IInv
    /\ InputsIntact
    /\ \A p \in Procs : phase[p] # "idle" =>
          /\ job[p].base = caseFile
          /\ InputsKept(job[p])
          /\ phase[p] = "committing" => job[p].todo = {}

LEMMA InitAloneInv == Init => AloneInv
BY InitIInv DEF Init, AloneInv, InputsIntact

\* A start stores every input.
LEMMA StartStoresInputs ==
    ASSUME NEW r \in Requests, NEW a \in InputArtifacts
    PROVE  /\ a \in StartTransition(r).todo
           /\ StartTransition(r).next.artifacts[a] # None
<1> DEFINE t == StartTransition(r)
<1>1. CASE r.fromSource /\ r.points = {}
  <2>1. t = Transition(NoCase, r, None, None, InputArtifacts \cup {"source_packet"},
                       "awaiting-source-decision", {})
    BY <1>1 DEF StartTransition
  <2>2. t.todo = InputArtifacts \cup {"source_packet"} BY <2>1 DEF Transition
  <2>3. t.next.artifacts[a] = Content(a, r, None, None)
    BY <2>1, TransitionArtifacts
  <2> QED BY <2>2, <2>3, ContentType
<1>2. CASE ~(r.fromSource /\ r.points = {})
  <2>1. t = Advance(NoCase, r, r.candidate, r.binding, InputArtifacts, {})
    BY <1>2 DEF StartTransition
  <2>2. /\ a \in t.todo
        /\ t.next.artifacts[a] = Content(a, r, Normalized(r, r.candidate), r.binding)
    BY <2>1, AdvanceFields
  <2>3. /\ Normalized(r, r.candidate) \in Selection
        /\ r.binding \in Bindings \cup {None}
    BY NormalizedType, RequestsAssumption DEF RequestType
  <2> QED BY <2>2, <2>3, ContentType
<1> QED BY <1>1, <1>2

\* A reply stores no input, and inherits them all.
LEMMA ResumeKeepsInputs ==
    ASSUME NEW c, NEW x, NEW a \in InputArtifacts
    PROVE  /\ a \notin ResumeTransition(c, x).todo
           /\ ResumeTransition(c, x).next.artifacts[a] = c.artifacts[a]
<1> DEFINE r == c.artifacts["request"].request
           prior == c.artifacts["selection"].selection
           d == SelectionFromDecision(prior, PacketSubjects(r, prior), x.chosen)
           receipts == c.receipts \cup {x}
           t == ResumeTransition(c, x)
<1>1. CASE x.action = "provide-selection-decision"
  <2>1. t = Advance(c, r, d, r.binding, {"selection_decision"}, receipts)
    BY <1>1 DEF ResumeTransition
  <2> HIDE DEF t, r, prior, d, receipts
  <2>2. t.todo \subseteq SelectionArtifacts \cup BoundArtifacts
    BY <2>1, AdvanceFields, StoredType
  <2>3. t.next.artifacts[a] = IF a \in t.todo
          THEN Content(a, r, Normalized(r, d), r.binding) ELSE c.artifacts[a]
    BY <2>1, AdvanceFields
  <2>4. a \notin t.todo BY <2>2
  <2>5. a \notin t.todo /\ t.next.artifacts[a] = c.artifacts[a]
    BY <2>3, <2>4
  <2> QED BY <2>5 DEF t
<1>2. CASE x.action # "provide-selection-decision"
  <2>1. t = Advance(c, r, prior, x.binding, {}, receipts)
    BY <1>2 DEF ResumeTransition
  <2> HIDE DEF t, r, prior, d, receipts
  <2>2. t.todo \subseteq SelectionArtifacts \cup BoundArtifacts
    BY <2>1, AdvanceFields, StoredType
  <2>3. t.next.artifacts[a] = IF a \in t.todo
          THEN Content(a, r, Normalized(r, prior), x.binding) ELSE c.artifacts[a]
    BY <2>1, AdvanceFields
  <2>4. a \notin t.todo BY <2>2
  <2>5. a \notin t.todo /\ t.next.artifacts[a] = c.artifacts[a]
    BY <2>3, <2>4
  <2> QED BY <2>5 DEF t
<1> QED BY <1>1, <1>2

LEMMA NextAloneInv ==
    ASSUME Alone
    PROVE  AloneInv /\ [Next]_vars => AloneInv'
<1> SUFFICES ASSUME AloneInv, [Next]_vars PROVE AloneInv' OBVIOUS
<1>1. IInv' BY NextIInv DEF AloneInv
<1>2. ASSUME NEW p \in Procs, NEW answer, End(p, answer),
             UNCHANGED <<caseFile, disk>>
      PROVE  AloneInv'
  BY <1>1, <1>2 DEF Alone, AloneInv, IInv, TypeOK, End, InputsIntact, Fresh
<1>3. ASSUME NEW p \in Procs, NEW t, Begin(p, t), t.base = caseFile, InputsKept(t)
      PROVE  AloneInv'
  BY <1>1, <1>3
  DEF Alone, AloneInv, IInv, TypeOK, Begin, files, InputsIntact, Fresh, InputsKept
<1>4. ASSUME NEW p \in Procs, NEW r \in Requests, Start(p, r) PROVE AloneInv'
  <2> DEFINE t == StartTransition(r)
  <2>1. t.base = caseFile /\ caseFile = NoCase
    BY <1>4, StartIsSound DEF Start, RootEmpty, StartSound
  <2>2. InputsKept(t) BY <2>1, StartStoresInputs DEF InputsKept
  <2>3. Begin(p, t) BY <1>4 DEF Start
  <2> HIDE DEF t
  <2> QED BY <1>3, <2>1, <2>2, <2>3
<1>5. ASSUME NEW p \in Procs, NEW r \in Requests, StartRefused(p, r) \/ Rerun(p, r)
      PROVE  AloneInv'
  BY <1>2, <1>5 DEF StartRefused, Rerun, Answer, files
<1>6. ASSUME NEW p \in Procs, NEW x, Replay(p, x) \/ ResumeRejected(p, x)
      PROVE  AloneInv'
  BY <1>2, <1>6 DEF Replay, ResumeRejected, Answer, files
<1>7. ASSUME NEW p \in Procs, NEW c \in seen, NEW x \in Replies(c), Resume(p, x)
      PROVE  AloneInv'
  <2> DEFINE t == ResumeTransition(caseFile, x)
  <2>1. Sound(caseFile) /\ Fits(caseFile, x)
    BY <1>7, AcceptedFits DEF Resume, AloneInv
  <2>2. t.base = caseFile
    BY <2>1, DecisionIsSound, BindingIsSound DEF Fits, ReplySound
  <2>3. caseFile # NoCase BY <2>1 DEF Fits, NoCase
  <2>4. InputsKept(t) BY <2>2, <2>3, ResumeKeepsInputs DEF InputsKept
  <2>5. Begin(p, t) BY <1>7 DEF Resume
  <2> HIDE DEF t
  <2> QED BY <1>3, <2>2, <2>4, <2>5
<1>8. ASSUME NEW p \in Procs, StoreArtifact(p) PROVE AloneInv'
  <2>1. PICK b \in job[p].todo :
          /\ disk' = [disk EXCEPT ![b] = job[p].next.artifacts[b]]
          /\ job' = [job EXCEPT ![p].todo = @ \ {b}]
    BY <1>8 DEF StoreArtifact
  <2>2. JobTyped(job[p]) BY DEF AloneInv, IInv, TypeOK
  <2>3. /\ job'[p].base = job[p].base /\ job'[p].next = job[p].next
        /\ job'[p].todo = job[p].todo \ {b}
    BY <2>1, <2>2 DEF AloneInv, IInv, TypeOK, JobTyped, NoJob
  <2>4. \A a \in Artifacts : disk'[a] = IF a = b THEN job[p].next.artifacts[a]
                                                 ELSE disk[a]
    BY <2>1 DEF AloneInv, IInv, TypeOK, Index
  <2>5. InputsKept(job[p]) /\ job[p].base = caseFile
    BY <1>8 DEF AloneInv, StoreArtifact
  <2>6. InputsKept(job[p])'
    BY <2>3, <2>4, <2>5 DEF InputsKept
  <2>7. InputsIntact'
    <3> SUFFICES ASSUME caseFile # NoCase, NEW a \in InputArtifacts
                 PROVE  caseFile.artifacts[a] # None /\ disk'[a] = caseFile.artifacts[a]
      BY <1>8 DEF StoreArtifact, InputsIntact, Fresh
    <3>1. a # b BY <2>5 DEF InputsKept
    <3> QED BY <2>4, <3>1 DEF AloneInv, InputsIntact, Fresh
  <2>8. phase' = phase /\ caseFile' = caseFile /\ phase[p] = "storing"
    BY <1>8 DEF StoreArtifact
  <2> QED BY <1>1, <2>3, <2>5, <2>6, <2>7, <2>8 DEF Alone, AloneInv
<1>9. ASSUME NEW p \in Procs, Raise(p) PROVE AloneInv'
  BY <1>2, <1>9 DEF Raise, files
<1>10. ASSUME NEW p \in Procs, WriteResult(p) PROVE AloneInv'
  <2>1. PICK result : job' = [job EXCEPT ![p].next.result = result]
    BY <1>10 DEF WriteResult
  <2>2. JobTyped(job[p]) BY DEF AloneInv, IInv, TypeOK
  <2>3. /\ job'[p].base = job[p].base /\ job'[p].todo = job[p].todo
        /\ job'[p].next.artifacts = job[p].next.artifacts
    BY <2>1, <2>2 DEF AloneInv, IInv, TypeOK, JobTyped, CaseTyped, NoJob, NoCase
  <2>4. InputsKept(job[p])'
    BY <1>10, <2>3 DEF AloneInv, WriteResult, InputsKept
  <2>5. InputsIntact'
    BY <1>10 DEF AloneInv, WriteResult, InputsIntact, Fresh
  <2> QED BY <1>1, <1>10, <2>3, <2>4, <2>5 DEF Alone, AloneInv, WriteResult
<1>11. ASSUME NEW p \in Procs, WriteCase(p) PROVE AloneInv'
  <2>1. InputsKept(job[p]) /\ job[p].todo = {} /\ job[p].base = caseFile
    BY <1>11 DEF AloneInv, WriteCase
  <2>2. \A a \in InputArtifacts : job[p].next.artifacts[a] # None
                                  /\ disk[a] = job[p].next.artifacts[a]
    BY <2>1 DEF AloneInv, InputsIntact, Fresh, InputsKept
  <2>3. InputsIntact' BY <1>11, <2>2 DEF WriteCase, InputsIntact, Fresh
  <2>4. \A q \in Procs : phase'[q] = "idle"
    BY <1>11 DEF Alone, AloneInv, IInv, TypeOK, WriteCase, End
  <2> QED BY <1>1, <2>3, <2>4 DEF AloneInv
<1>12. ASSUME NEW p \in Procs, Interrupt(p) PROVE AloneInv'
  BY <1>2, <1>12 DEF Interrupt
<1>13. CASE UNCHANGED vars
  BY <1>1, <1>13 DEF vars, AloneInv, InputsIntact, Fresh, InputsKept
<1> QED
  BY <1>4, <1>5, <1>6, <1>7, <1>8, <1>9, <1>10, <1>11, <1>12, <1>13 DEF Next

\* Only WriteCase changes case.json, and it commits a sound outcome of a start
\* or of a reply to the case it replaces.
LEMMA CaseChange ==
    ASSUME AloneInv, [Next]_vars, caseFile' # caseFile
    PROVE  \E p \in Procs :
              /\ job[p].base = caseFile /\ caseFile' = job[p].next
              /\ Sound(caseFile')
              /\ \/ StartSound(job[p])
                 \/ \E x : ReplySound(caseFile, x, job[p])
<1>1. PICK p \in Procs : WriteCase(p)
  BY DEF Next, vars, Start, StartRefused, Rerun, Replay, Resume, ResumeRejected,
         StoreArtifact, Raise, WriteResult, Interrupt, Begin, Answer, End, files
<1>2. job[p].base = caseFile /\ caseFile' = job[p].next
  BY <1>1 DEF WriteCase, AloneInv
<1>3. JobSound(p) BY DEF AloneInv, IInv
<1>4. StartSound(job[p]) \/ \E x : ReplySound(job[p].base, x, job[p])
  BY <1>1, <1>3 DEF WriteCase, JobSound
<1>5. Sound(caseFile') BY <1>1, <1>2, <1>3, JobIsSound DEF WriteCase, JobSound
<1> QED BY <1>2, <1>4, <1>5

\* The inputs of a case are never touched once it is committed.
THEOREM InputsIntactAlone ==
    ASSUME Alone
    PROVE  Spec => []InputsIntact
<1>1. AloneInv => InputsIntact BY DEF AloneInv
<1> QED BY <1>1, InitAloneInv, NextAloneInv, PTL DEF Spec

\* A superseded reply never commits, and no receipt is lost.
THEOREM SupersededRejectedAlone ==
    ASSUME Alone
    PROVE  Spec => SupersededRejected
<1>1. AloneInv /\ [Next]_vars =>
        [(caseFile # NoCase /\ caseFile' # caseFile) =>
           \E x \in caseFile'.receipts \ caseFile.receipts :
              x.base = caseFile
              /\ caseFile'.receipts = caseFile.receipts \cup {x}]_vars
  <2> SUFFICES ASSUME AloneInv, [Next]_vars, caseFile # NoCase, caseFile' # caseFile
               PROVE  \E x \in caseFile'.receipts \ caseFile.receipts :
                         x.base = caseFile
                         /\ caseFile'.receipts = caseFile.receipts \cup {x}
    OBVIOUS
  <2>1. PICK p \in Procs :
          /\ job[p].base = caseFile /\ caseFile' = job[p].next
          /\ \/ StartSound(job[p])
             \/ \E x : ReplySound(caseFile, x, job[p])
    BY CaseChange
  <2>2. PICK x : ReplySound(caseFile, x, job[p])
    BY <2>1 DEF StartSound
  <2> QED BY <2>1, <2>2 DEF ReplySound
<1> QED BY <1>1, InitAloneInv, NextAloneInv, PTL DEF Spec, SupersededRejected

\* case.json, seen by its state and by the kinds of reply it has taken, moves
\* by the atomic steps of CaseLifecycle.
THEOREM LifecycleAlone ==
    ASSUME Alone
    PROVE  Spec => ImplementsLifecycle
<1> DEFINE kinds(c) == {x.action : x \in c.receipts}
           point == [state |-> caseFile.state, answered |-> kinds(caseFile)]
<1>1. Init => Lifecycle!Init
  BY DEF Init, Lifecycle!Init, NoCase
<1>2. AloneInv /\ [Next]_vars => [Lifecycle!Next]_point
  <2> SUFFICES ASSUME AloneInv, [Next]_vars, caseFile' # caseFile
               PROVE  Lifecycle!Next
    OBVIOUS
  <2>1. PICK p \in Procs :
          /\ job[p].base = caseFile /\ caseFile' = job[p].next
          /\ Sound(caseFile')
          /\ \/ StartSound(job[p])
             \/ \E x : ReplySound(caseFile, x, job[p])
    BY CaseChange
  <2>2. caseFile'.state \in Lifecycle!States
    BY <2>1 DEF Sound, CaseStates, Lifecycle!States, Lifecycle!FinalStates
  <2>3. CASE StartSound(job[p])
    <3>1. caseFile = NoCase /\ kinds(caseFile)' = {}
      BY <2>1, <2>3 DEF StartSound
    <3>2. Lifecycle!Open
      BY <2>2, <3>1 DEF Lifecycle!Open, NoCase
    <3> QED BY <3>2 DEF Lifecycle!Next
  <2>4. ASSUME NEW x, ReplySound(caseFile, x, job[p]) PROVE Lifecycle!Next
    <3>1. caseFile'.receipts = caseFile.receipts \cup {x}
      BY <2>1, <2>4 DEF ReplySound
    <3>2. kinds(caseFile)' = kinds(caseFile) \cup {x.action}
      BY <3>1
    <3>3. CASE caseFile.state = "awaiting-selection-decision"
      <4>1. /\ x.action = "provide-selection-decision"
            /\ caseFile'.state \notin {"awaiting-selection-decision",
                                       "awaiting-source-decision"}
        BY <2>1, <2>4, <3>3 DEF ReplySound
      <4>2. kinds(caseFile) = {}
        BY <3>3 DEF AloneInv, IInv, Sound, Ready, ReadyForDecision, NoCase
      <4>3. Lifecycle!Decide
        BY <2>2, <3>2, <3>3, <4>1, <4>2 DEF Lifecycle!Decide
      <4> QED BY <4>3 DEF Lifecycle!Next
    <3>4. CASE caseFile.state = "awaiting-binding"
      <4>1. /\ x.action = "provide-binding"
            /\ caseFile'.state \in {"complete", "awaiting-physical-read", "partial"}
        BY <2>1, <2>2, <2>4, <3>4
        DEF ReplySound, Lifecycle!States, Lifecycle!FinalStates
      <4>2. Lifecycle!Bind
        BY <3>2, <3>4, <4>1 DEF Lifecycle!Bind
      <4> QED BY <4>2 DEF Lifecycle!Next
    <3> QED BY <2>4, <3>3, <3>4 DEF ReplySound
  <2> QED BY <2>1, <2>3, <2>4
<1> QED
  BY <1>1, <1>2, InitAloneInv, NextAloneInv, PTL
  DEF Spec, ImplementsLifecycle, Lifecycle!Spec

(***************************************************************************)
(* What holds, alone, until an invocation dies or raises mid-way.          *)
(***************************************************************************)

\* The packet a case carries is the selection packet it indexes, if it does.
PacketAgrees(c) ==
    (c.packet # None /\ c.artifacts["selection_packet"] # None)
       => c.packet = c.artifacts["selection_packet"]

\* Every artifact a case indexes is on disk, but for those still to be stored.
OnDisk(c, todo) ==
    \A a \in Artifacts \ todo :
        c.artifacts[a] # None => disk[a] = c.artifacts[a]

\* The two records of the result agree: case.json's own and the one of a case
\* about to be committed.
ResultAgrees(c) ==
    resultFile = c.result /\ (c # NoCase => c.result.state = c.state)

\* Until an invocation dies or raises between two writes, whatever the case
\* root does not agree on yet is still to be written by the process at work.
CleanInv ==
    /\ AloneInv
    /\ PacketAgrees(caseFile)
    /\ \A p \in Procs : phase[p] # "idle" => PacketAgrees(job[p].next)
    /\ mishaps = {} =>
        /\ Quiet => OnDisk(caseFile, {})
        /\ \A p \in Procs : phase[p] # "idle" => OnDisk(job[p].next, job[p].todo)
        /\ (\A p \in Procs : phase[p] # "committing") => ResultAgrees(caseFile)
        /\ \A p \in Procs : phase[p] = "committing" => ResultAgrees(job[p].next)

LEMMA InitCleanInv == Init => CleanInv
BY InitAloneInv
DEF Init, CleanInv, PacketAgrees, OnDisk, ResultAgrees, NoCase, NoArtifacts

\* A transition inherits what it does not store, and carries the packet it
\* indexes: only a start asks for a source, and it indexes no other packet.
Inherits(t) ==
    /\ \A a \in Artifacts \ t.todo : t.next.artifacts[a] = t.base.artifacts[a]
    /\ PacketAgrees(t.next)

LEMMA AdvanceInherits ==
    ASSUME NEW base, NEW r, NEW c, NEW b, NEW extra, NEW receipts
    PROVE  Inherits(Advance(base, r, c, b, extra, receipts))
<1> DEFINE t == Advance(base, r, c, b, extra, receipts)
<1>1. /\ t.base = base
      /\ \A a \in Artifacts \ t.todo : t.next.artifacts[a] = base.artifacts[a]
  BY AdvanceFields
<1>2. t.next.state # "awaiting-source-decision"
  BY AdvanceFields, OutcomeFacts
<1>3. t.next.packet = IF t.next.state = "awaiting-selection-decision"
                        THEN t.next.artifacts["selection_packet"] ELSE None
  BY <1>2 DEF Advance, Transition
<1> HIDE DEF t
<1> QED BY <1>1, <1>3 DEF Inherits, PacketAgrees, t

LEMMA StartInherits ==
    ASSUME NEW r \in Requests
    PROVE  Inherits(StartTransition(r))
<1> DEFINE t == StartTransition(r)
           stored == InputArtifacts \cup {"source_packet"}
<1>1. CASE r.fromSource /\ r.points = {}
  <2>1. t = Transition(NoCase, r, None, None, stored, "awaiting-source-decision", {})
    BY <1>1 DEF StartTransition
  <2>2. t.base = NoCase /\ t.todo = stored
    BY <2>1 DEF Transition
  <2>3. \A a \in Artifacts \ stored : t.next.artifacts[a] = NoCase.artifacts[a]
    BY <2>1, TransitionArtifacts
  <2>4. t.next.artifacts["selection_packet"] = None
    BY <2>3, NoCaseArtifacts
  <2> HIDE DEF t, stored
  <2> QED BY <2>2, <2>3, <2>4 DEF Inherits, PacketAgrees, t
<1>2. CASE ~(r.fromSource /\ r.points = {})
  BY <1>2, AdvanceInherits DEF StartTransition
<1> QED BY <1>1, <1>2

LEMMA ResumeInherits ==
    ASSUME NEW c, NEW x
    PROVE  Inherits(ResumeTransition(c, x))
BY AdvanceInherits DEF ResumeTransition

LEMMA NextCleanInv ==
    ASSUME Alone
    PROVE  CleanInv /\ [Next]_vars => CleanInv'
<1> SUFFICES ASSUME CleanInv, [Next]_vars PROVE CleanInv' OBVIOUS
<1>1. AloneInv' BY NextAloneInv DEF CleanInv
\* An invocation that ends without a write was at rest, or is a mishap.
<1>2. ASSUME NEW p \in Procs, NEW answer, phase[p] = "idle", Answer(p, answer)
      PROVE  CleanInv'
  BY <1>1, <1>2
  DEF Alone, CleanInv, AloneInv, IInv, TypeOK, Answer, End, files, Quiet,
      PacketAgrees, OnDisk, ResultAgrees
<1>3. ASSUME NEW p \in Procs, NEW answer, End(p, answer), caseFile' = caseFile,
             mishaps' # {}
      PROVE  CleanInv'
  BY <1>1, <1>3
  DEF Alone, CleanInv, AloneInv, IInv, TypeOK, End, PacketAgrees
<1>4. ASSUME NEW p \in Procs, NEW t, phase[p] = "idle", Begin(p, t),
             t.base = caseFile, Inherits(t)
      PROVE  CleanInv'
  <2>1. Quiet BY <1>4 DEF Alone, Quiet
  <2>2. job'[p] = t /\ \A q \in Procs : phase'[q] = "storing"
    BY <1>4 DEF Alone, Begin, CleanInv, AloneInv, IInv, TypeOK
  <2>3. UNCHANGED <<caseFile, resultFile, disk, mishaps>>
    BY <1>4 DEF Begin, files
  <2>4. mishaps = {} => OnDisk(t.next, t.todo)'
    BY <1>4, <2>1, <2>3 DEF CleanInv, OnDisk, Inherits
  <2>5. mishaps = {} => ResultAgrees(caseFile)'
    BY <2>1, <2>3 DEF CleanInv, Quiet, ResultAgrees
  <2>6. PacketAgrees(caseFile)' /\ PacketAgrees(t.next)
    BY <1>4, <2>3 DEF CleanInv, Inherits, PacketAgrees
  <2> QED
    BY <1>1, <2>2, <2>3, <2>4, <2>5, <2>6
    DEF Alone, CleanInv, Quiet, OnDisk, PacketAgrees
<1>5. ASSUME NEW p \in Procs, NEW r \in Requests, Start(p, r) PROVE CleanInv'
  <2> DEFINE t == StartTransition(r)
  <2>1. t.base = caseFile
    BY <1>5, StartIsSound DEF Start, RootEmpty, StartSound
  <2>2. Begin(p, t) /\ phase[p] = "idle" BY <1>5 DEF Start
  <2>3. Inherits(t) BY StartInherits
  <2> HIDE DEF t
  <2> QED BY <1>4, <2>1, <2>2, <2>3
<1>6. ASSUME NEW p \in Procs, NEW r \in Requests, StartRefused(p, r) \/ Rerun(p, r)
      PROVE  CleanInv'
  BY <1>2, <1>6 DEF StartRefused, Rerun
<1>7. ASSUME NEW p \in Procs, NEW x, Replay(p, x) \/ ResumeRejected(p, x)
      PROVE  CleanInv'
  BY <1>2, <1>7 DEF Replay, ResumeRejected
<1>8. ASSUME NEW p \in Procs, NEW c \in seen, NEW x \in Replies(c), Resume(p, x)
      PROVE  CleanInv'
  <2> DEFINE t == ResumeTransition(caseFile, x)
  <2>1. Sound(caseFile) /\ Fits(caseFile, x)
    BY <1>8, AcceptedFits DEF Resume, CleanInv, AloneInv
  <2>2. t.base = caseFile
    BY <2>1, DecisionIsSound, BindingIsSound DEF Fits, ReplySound
  <2>3. Begin(p, t) /\ phase[p] = "idle" BY <1>8 DEF Resume
  <2>4. Inherits(t) BY ResumeInherits
  <2> HIDE DEF t
  <2> QED BY <1>4, <2>2, <2>3, <2>4
<1>9. ASSUME NEW p \in Procs, StoreArtifact(p) PROVE CleanInv'
  <2>1. PICK b \in job[p].todo :
          /\ disk' = [disk EXCEPT ![b] = job[p].next.artifacts[b]]
          /\ job' = [job EXCEPT ![p].todo = @ \ {b}]
    BY <1>9 DEF StoreArtifact
  <2>2. JobTyped(job[p]) BY DEF CleanInv, AloneInv, IInv, TypeOK
  <2>3. job'[p].next = job[p].next /\ job'[p].todo = job[p].todo \ {b}
    BY <2>1, <2>2 DEF CleanInv, AloneInv, IInv, TypeOK, JobTyped, NoJob
  <2>4. \A a \in Artifacts : disk'[a] = IF a = b THEN job[p].next.artifacts[a]
                                                 ELSE disk[a]
    BY <2>1 DEF CleanInv, AloneInv, IInv, TypeOK, Index
  <2>5. /\ UNCHANGED <<caseFile, resultFile, phase, mishaps>>
        /\ phase[p] = "storing"
    BY <1>9 DEF StoreArtifact
  <2>6. mishaps = {} => OnDisk(job[p].next, job[p].todo)'
    BY <2>3, <2>4, <2>5 DEF CleanInv, OnDisk
  <2>7. PacketAgrees(caseFile)' /\ PacketAgrees(job[p].next)'
    BY <2>3, <2>5 DEF CleanInv, PacketAgrees
  <2>8. mishaps = {} => ResultAgrees(caseFile)'
    BY <2>5 DEF Alone, CleanInv, ResultAgrees
  <2> QED
    BY <1>1, <2>5, <2>6, <2>7, <2>8 DEF Alone, CleanInv, Quiet
<1>10. ASSUME NEW p \in Procs, Raise(p) PROVE CleanInv'
  BY <1>3, <1>10 DEF Raise, files
<1>11. ASSUME NEW p \in Procs, WriteResult(p) PROVE CleanInv'
  <2>1. PICK result :
          /\ result.state = job[p].next.state
          /\ resultFile' = result
          /\ job' = [job EXCEPT ![p].next.result = result]
    BY <1>11 DEF WriteResult
  <2>2. JobTyped(job[p]) BY DEF CleanInv, AloneInv, IInv, TypeOK
  <2>3. /\ job'[p].todo = job[p].todo
        /\ job'[p].next.artifacts = job[p].next.artifacts
        /\ job'[p].next.packet = job[p].next.packet
        /\ job'[p].next.state = job[p].next.state
        /\ job'[p].next.result = result
    BY <2>1, <2>2
    DEF CleanInv, AloneInv, IInv, TypeOK, JobTyped, CaseTyped, NoJob, NoCase
  <2>4. /\ UNCHANGED <<caseFile, disk, mishaps>>
        /\ phase[p] = "storing" /\ \A q \in Procs : phase'[q] = "committing"
    BY <1>11 DEF Alone, WriteResult, CleanInv, AloneInv, IInv, TypeOK
  <2>5. mishaps = {} => OnDisk(job[p].next, job[p].todo)'
    BY <2>3, <2>4 DEF CleanInv, OnDisk
  <2>6. PacketAgrees(caseFile)' /\ PacketAgrees(job[p].next)'
    BY <2>3, <2>4 DEF CleanInv, PacketAgrees
  <2>7. ResultAgrees(job[p].next)'
    BY <2>1, <2>3 DEF ResultAgrees
  <2> QED
    BY <1>1, <2>4, <2>5, <2>6, <2>7 DEF Alone, CleanInv, Quiet
<1>12. ASSUME NEW p \in Procs, WriteCase(p) PROVE CleanInv'
  <2>1. job[p].todo = {} /\ phase[p] = "committing"
    BY <1>12 DEF CleanInv, AloneInv, WriteCase
  <2>2. /\ caseFile' = job[p].next /\ UNCHANGED <<disk, resultFile, mishaps>>
        /\ \A q \in Procs : phase'[q] = "idle"
    BY <1>12 DEF Alone, WriteCase, End, CleanInv, AloneInv, IInv, TypeOK
  <2>3. PacketAgrees(caseFile)' BY <2>1, <2>2 DEF CleanInv, PacketAgrees
  <2>4. mishaps = {} => OnDisk(caseFile, {})'
    BY <2>1, <2>2 DEF CleanInv, OnDisk
  <2>5. mishaps = {} => ResultAgrees(caseFile)'
    BY <2>1, <2>2 DEF CleanInv, ResultAgrees
  <2> QED BY <1>1, <2>2, <2>3, <2>4, <2>5 DEF CleanInv, Quiet
<1>13. ASSUME NEW p \in Procs, Interrupt(p) PROVE CleanInv'
  BY <1>3, <1>13 DEF Interrupt
<1>14. CASE UNCHANGED vars
  BY <1>1, <1>14 DEF vars, CleanInv, Quiet, OnDisk, PacketAgrees, ResultAgrees
<1> QED
  BY <1>5, <1>6, <1>7, <1>8, <1>9, <1>10, <1>11, <1>12, <1>13, <1>14 DEF Next

\* Until an invocation dies or raises between two writes, a case at rest
\* passes its own inspection.
THEOREM CleanCaseInspectsAlone ==
    ASSUME Alone
    PROVE  Spec => []CleanCaseInspects
<1>1. CleanInv => CleanCaseInspects
  <2> SUFFICES ASSUME CleanInv, Quiet, caseFile # NoCase, mishaps = {}
               PROVE  InspectOk
    BY DEF CleanCaseInspects
  <2>1. caseFile.state # "absent"
    BY DEF CleanInv, AloneInv, IInv, Sound, CaseStates
  <2>2. OnDisk(caseFile, {}) /\ PacketAgrees(caseFile)
    BY DEF CleanInv
  <2>3. ResultAgrees(caseFile)
    BY DEF CleanInv, Quiet
  <2> QED
    BY <2>1, <2>2, <2>3 DEF InspectOk, OnDisk, Fresh, PacketAgrees, ResultAgrees
<1> QED BY <1>1, InitCleanInv, NextCleanInv, PTL DEF Spec

\* Until then, a rerun, an exact replay and the process that commits all
\* return the committed result.
THEOREM CleanAnswersCommittedAlone ==
    ASSUME Alone
    PROVE  Spec => CleanAnswersCommitted
<1> DEFINE Committed ==
      \A p \in Procs :
         (mishaps = {} /\ told'[p] # told[p] /\ told'[p] \notin {None, Error})
            => told'[p] = caseFile'.result
<1>1. ASSUME CleanInv, NEW p \in Procs, NEW answer, End(p, answer),
             mishaps = {} => answer \in {None, Error, caseFile'.result}
      PROVE  Committed
  BY <1>1 DEF End, CleanInv, AloneInv, IInv, TypeOK
<1>2. ASSUME CleanInv, NEW p \in Procs, phase[p] = "idle", Answer(p, StoredResult)
      PROVE  Committed
  <2>1. mishaps = {} => resultFile = caseFile.result
    BY <1>2 DEF Alone, CleanInv, ResultAgrees
  <2> QED BY <1>1, <1>2, <2>1 DEF Answer, files, StoredResult
<1>3. ASSUME CleanInv, NEW p \in Procs, NEW t, Begin(p, t)
      PROVE  Committed
  BY <1>3 DEF Begin, CleanInv, AloneInv, IInv, TypeOK
<1>4. CleanInv /\ [Next]_vars => [Committed]_vars
  <2> SUFFICES ASSUME CleanInv, [Next]_vars PROVE Committed OBVIOUS
  <2> HIDE DEF Committed
  <2>1. ASSUME NEW p \in Procs, NEW r \in Requests,
               Start(p, r) \/ StartRefused(p, r) \/ Rerun(p, r)
        PROVE  Committed
    BY <1>1, <1>2, <1>3, <2>1 DEF Start, StartRefused, Rerun, Answer
  <2>2. ASSUME NEW p \in Procs, NEW x,
               Replay(p, x) \/ Resume(p, x) \/ ResumeRejected(p, x)
        PROVE  Committed
    BY <1>1, <1>2, <1>3, <2>2 DEF Replay, Resume, ResumeRejected, Answer
  <2>3. ASSUME NEW p \in Procs, Raise(p) \/ WriteCase(p) \/ Interrupt(p)
        PROVE  Committed
    BY <1>1, <2>3 DEF Raise, WriteCase, Interrupt
  <2>4. CASE UNCHANGED told
    BY <2>4 DEF Committed
  <2> QED
    BY <2>1, <2>2, <2>3, <2>4 DEF Next, vars, StoreArtifact, WriteResult
<1> QED
  BY <1>4, InitCleanInv, NextCleanInv, PTL DEF Spec, CleanAnswersCommitted

====

--------------------------- MODULE CaptureAnalysis ---------------------------
(***************************************************************************)
(* The part of analyze_capture that judges a campaign: which samples of a  *)
(* capture document count, which of the planned requests and units they    *)
(* account for, and what the document says about the runtime that wrote    *)
(* it.  A capture document is a record of                                  *)
(*   expected   expected_request_ids, a sequence                           *)
(*   units      expected_unit_ids, a sequence                              *)
(*   completed  completed_request_ids, a sequence                          *)
(*   samples    a sequence of [point, id, time, request, unit, error]      *)
(*   runtime    runtime_metadata: [state, depth, flight]                   *)
(***************************************************************************)
EXTENDS Naturals, Sequences, FiniteSets

CONSTANT Absent         \* JSON's null and a field left out

Elements(s) == {s[i] : i \in DOMAIN s}

Repeated(s) == {s[i] : i \in {j \in DOMAIN s : \E k \in 1 .. j - 1 : s[k] = s[j]}}

\* A sample is known by its point and its sample id, or by its point and time.
Identity(sample) ==
    <<sample.point, IF sample.id # Absent THEN <<"id", sample.id>> ELSE <<"time", sample.time>>>>

\* By time, then by place in the document; the first of an identity counts.
Unique(samples) ==
    LET Earlier(i, j) == \/ samples[i].time < samples[j].time
                         \/ samples[i].time = samples[j].time /\ i < j
    IN  {i \in DOMAIN samples :
            \A j \in DOMAIN samples :
                Identity(samples[j]) = Identity(samples[i]) => i = j \/ Earlier(i, j)}

ErrorCount(c) == Cardinality({i \in Unique(c.samples) : c.samples[i].error})

\* The completed list where the document has one, else the samples' requests.
ObservedRequests(c) ==
    IF c.completed # Absent THEN Elements(c.completed) \ {Absent}
    ELSE {c.samples[i].request : i \in Unique(c.samples)} \ {Absent}

\* Nothing is unexpected in a document that expects nothing.
Unexpected(expected, observed) == IF expected = {} THEN {} ELSE observed \ expected

RequestsComplete(c) ==
    /\ Elements(c.expected) \subseteq ObservedRequests(c)
    /\ Unexpected(Elements(c.expected), ObservedRequests(c)) = {}
    /\ c.completed # Absent => Repeated(c.completed) = {}

\* The units the samples of a request name.
UnitsOf(c, request) ==
    {c.samples[i].unit : i \in {j \in Unique(c.samples) : c.samples[j].request = request}}

UnitsComplete(c) ==
    LET requests == {c.samples[i].request : i \in Unique(c.samples)} \ {Absent}
        named == [r \in requests |-> UnitsOf(c, r) \ {Absent}]
        observed == UNION {named[r] : r \in {q \in requests : Cardinality(named[q]) = 1}}
    IN  /\ Elements(c.units) \subseteq observed
        /\ Unexpected(Elements(c.units), observed) = {}
        /\ Repeated(c.units) = {}
        /\ \A r \in requests : Absent \notin UnitsOf(c, r) /\ Cardinality(named[r]) <= 1

BatchComplete(c) == RequestsComplete(c) /\ UnitsComplete(c)

\* runtime_metadata counts as evidence only when every field is there and legal.
RuntimeEvidence(c) ==
    LET m == c.runtime IN
    [valid |-> m # Absent /\ m.state # Absent /\ m.depth \in Nat /\ m.flight \in Nat \ {0},
     state |-> m.state, depth |-> m.depth, flight |-> m.flight]

=============================================================================

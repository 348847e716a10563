-------------------------- MODULE MapNormalization -------------------------
(***************************************************************************)
(* map_workflows.py, normalize_map: the records a parser took from a       *)
(* vendor document become candidate points, one record at a time, and then *)
(* the points are compared with each other.  What a record cannot settle   *)
(* is a hold; a point is confirmed exactly if nothing holds it.            *)
(*                                                                         *)
(* A field of a record is None if the source leaves it empty, Placeholder  *)
(* if it writes a dash or n/a, and Invalid if the code has no reading for  *)
(* what it says.                                                           *)
(***************************************************************************)
EXTENDS AddressResolution, Sequences

CONSTANTS
    Placeholder,    \* a token such as --- in place of a value
    Sources,        \* sources: records, a simulator profile, the parser's holds,
                    \* and what became of the rows it rejected
    DefaultSets     \* the defaults a caller may supply, by field

LayoutNames == [name : {"ABCD", "BADC", "CDAB", "DCBA"}]
Accesses == {"read-only", "read-write", "write-only"}

\* What a field leaves empty is neither a flag, nor an access, nor a byte order
\* in either form; the records of a source are a sequence.
ASSUME EmptyAssumption ==
    None \notin BOOLEAN /\ None \notin Accesses /\ None \notin Layout \cup LayoutNames
ASSUME RecordsAssumption == \A s \in Sources : Len(s.records) \in Nat

VARIABLES
    source, defaults,
    points,         \* the points made so far, in the order of the records
    holds,          \* what keeps points from being confirmed
    assumptions,    \* what was not read from the record, by record and field
    collated        \* the points have been compared with each other

vars == <<source, defaults, points, holds, assumptions, collated>>

-----------------------------------------------------------------------------
(* _get: the source first, then the workflow default. *)
Given(r, d, f) == IF r[f] # None THEN r[f] ELSE d[f]
Defaulted(r, d, f) == r[f] = None /\ d[f] # None
When(test, code, field) == IF test THEN {<<code, field>>} ELSE {}

\* _area_from_function_code: a read function implies its area.
AreaOf(r, d) ==
    LET area == Given(r, d, "area")  code == Given(r, d, "function_code")
    IN IF area \in Areas THEN area
       ELSE IF area = None /\ code # Invalid /\ code \in 1..4
            THEN CHOOSE a \in Areas : ReadFunction[a] = code
       ELSE None

\* The address claims of a record, in the order the code collects them.  A
\* source address is None or an object, a plain value being an object that only
\* has it as raw; one without a convention takes that of the record.  So does
\* an address, but only if it leaves the convention out: one that is there and
\* empty (None) is no convention.  Of the forms in one address object the
\* strongest is the claim and the others are passed over.
Claim(field, raw, convention) == [field |-> field, raw |-> raw, convention |-> convention]
Sourced(s, top) ==
    Claim("source_address", s.raw, IF s.convention # None THEN s.convention ELSE top)
RawOf(a, top) ==
    Claim("address.raw", a.raw, IF a.convention = "omitted" THEN top ELSE a.convention)
Strongest(a, top) ==
    IF a.protocol_offset # None
    THEN Claim("address.protocol_offset", a.protocol_offset, "protocol-offset")
    ELSE IF a.display_address # None
         THEN Claim("address.display_address", a.display_address, "modicon-reference")
    ELSE RawOf(a, top)
AddressInputs(r, d) ==
    LET top == Given(r, d, "address_convention")
        inputs ==
            (IF r.protocol_offset = None THEN <<>> ELSE
                <<Claim("protocol_offset", r.protocol_offset, "protocol-offset")>>)
            \o (IF r.display_address = None THEN <<>> ELSE
                <<Claim("display_address", r.display_address, "modicon-reference")>>)
            \o (IF r.source_address = None THEN <<>> ELSE <<Sourced(r.source_address, top)>>)
            \o (IF r.address = None THEN <<>> ELSE <<Strongest(r.address, top)>>)
    IN IF inputs = <<>> THEN <<Claim("address.raw", None, top)>> ELSE inputs
UsesDefaultConvention(r, d) ==
    /\ Defaulted(r, d, "address_convention")
    /\ \/ r.source_address # None /\ r.source_address.convention = None
       \/ /\ r.address # None /\ r.address.convention \in {None, "omitted"}
          /\ r.address.protocol_offset = None /\ r.address.display_address = None
       \/ {r.protocol_offset, r.display_address, r.source_address, r.address} = {None}

\* The point's address is that of the first claim that resolves.
Addressed(r, d) ==
    LET area == AreaOf(r, d)
        inputs == AddressInputs(r, d)
        found == [n \in DOMAIN inputs |-> Resolve(inputs[n].raw, inputs[n].convention, area)]
        resolved == {n \in DOMAIN inputs : found[n].offset # None}
        primary == IF resolved = {} THEN 1
                   ELSE CHOOSE n \in resolved : \A k \in resolved : n <= k
    IN [offset |-> found[primary].offset,
        raw |-> inputs[primary].raw,
        conflict |-> Cardinality({found[n].offset : n \in resolved}) > 1,
        unverified |-> Len(inputs) > 1 /\ resolved # DOMAIN inputs,
        findings |-> UNION {found[n].findings : n \in DOMAIN inputs}]
\* Faulty variant: claims that resolve to other registers are not compared.
AddressHoldsFirst(a) ==
    When(a.unverified, "point.address-secondary-unverifiable", "protocol_offset")
    \cup {<<code, "source_address">> : code \in a.findings}
AddressHolds(a) ==
    When(a.conflict, "point.address-representation-conflict", "protocol_offset")
    \cup When(a.unverified, "point.address-secondary-unverifiable", "protocol_offset")
    \cup {<<code, "source_address">> : code \in a.findings}

TypeOf(r, d) ==
    LET raw == Given(r, d, "datatype") IN IF raw \in DataTypes THEN raw ELSE None
\* A dash is no type and holds nothing, in a row of metadata or elsewhere.
TypeHolds(r, d) ==
    LET raw == Given(r, d, "datatype")
    IN When(raw = None, "point.datatype-unresolved", "datatype")
       \cup When(raw = Invalid, "point.datatype-unrecognized", "datatype")

SpanOf(r, d) ==
    LET raw == Given(r, d, "word_span")
    IN IF raw = None THEN FixedSpan[TypeOf(r, d)]
       ELSE IF raw # Invalid /\ raw \in 1..125 THEN raw ELSE None
SpanHolds(r, d) ==
    LET raw == Given(r, d, "word_span")
        span == SpanOf(r, d)
        fixed == FixedSpan[TypeOf(r, d)]
        offset == Addressed(r, d).offset
    IN When(raw # None /\ span = None, "point.span-invalid", "word_span")
       \cup When(raw = None /\ TypeOf(r, d) = "string", "point.span-unresolved", "word_span")
       \cup When(span # None /\ fixed # None /\ span # fixed,
                 "point.datatype-span-mismatch", "word_span")
       \cup When(offset # None /\ span # None /\ offset + span - 1 > MaxProtocolOffset,
                 "point.range-out-of-bounds", "word_span")

-----------------------------------------------------------------------------
(***************************************************************************)
(* Byte order.  A source writes the name of a layout of four bytes, or the *)
(* permutation itself; it may say in two places whether it is confirmed.   *)
(***************************************************************************)
LayoutOf(raw, registers) == [registers |-> registers, swapped |-> raw.name # "ABCD"]
ByteOrder(raw, span) ==
    IF raw \in Layout THEN (IF raw.registers = span THEN raw ELSE None)
    ELSE IF raw \notin LayoutNames THEN None
    ELSE CASE span = None -> LayoutOf(raw, 2)
           [] span = 1 /\ raw.name # "CDAB" -> LayoutOf(raw, 1)
           [] span = 2 -> LayoutOf(raw, 2)
           [] span = 4 /\ raw.name \in {"ABCD", "DCBA"} -> LayoutOf(raw, 4)
           [] OTHER -> None
OrderApplies(r, d) == ~(SpanOf(r, d) = 1 /\ TypeOf(r, d) \in {"bool", "uint16"})
OrderOf(r, d) ==
    IF OrderApplies(r, d) THEN ByteOrder(Given(r, d, "byte_order"), SpanOf(r, d)) ELSE None
Stated(v) == IF v = Invalid THEN FALSE ELSE v
\* Faulty variant: a flag that confirms outweighs a status that does not.
OrderConfirmedByFlag(r, d) ==
    /\ OrderApplies(r, d)
    /\ IF r.byte_order_confirmed # None THEN Stated(r.byte_order_confirmed)
       ELSE IF r.byte_order_status \in BOOLEAN THEN r.byte_order_status
       ELSE OrderOf(r, d) # None
OrderConfirmed(r, d) ==
    /\ OrderApplies(r, d) /\ r.byte_order_status # FALSE
    /\ IF r.byte_order_confirmed # None THEN Stated(r.byte_order_confirmed)
       ELSE IF r.byte_order_status \in BOOLEAN THEN r.byte_order_status
       ELSE OrderOf(r, d) # None
OrderHolds(r, d) ==
    LET raw == Given(r, d, "byte_order")
        order == OrderOf(r, d)
        span == SpanOf(r, d)
    IN When(r.byte_order_status = Invalid,
            "point.byte-order-status-unrecognized", "byte_order_status")
       \cup When(r.byte_order_confirmed = Invalid,
                 "point.byte-order-confirmation-invalid", "byte_order_confirmed")
       \cup When(/\ r.byte_order_confirmed # None /\ r.byte_order_status \in BOOLEAN
                 /\ Stated(r.byte_order_confirmed) # r.byte_order_status,
                 "point.byte-order-confirmation-conflict", "byte_order_confirmed")
       \cup When(OrderApplies(r, d) /\ raw # None /\ order = None,
                 "point.byte-order-unrecognized", "byte_order")
       \cup When(/\ span # None /\ span > 1 /\ TypeOf(r, d) # "string"
                 /\ order = None /\ raw = None,
                 "point.byte-order-unresolved", "byte_order")
       \cup When(order # None /\ ~OrderConfirmed(r, d),
                 "point.byte-order-unconfirmed", "byte_order_confirmed")

-----------------------------------------------------------------------------
(***************************************************************************)
(* Numbers.  A scale is withheld unless every conversion rule found beside *)
(* it says one and the same factor and the record says it too.             *)
(***************************************************************************)
Numeric(v) == IF v = Invalid THEN None ELSE v
RawScale(r, d) ==
    IF r.scale = None /\ \E c \in r.scale_claims : c.absent THEN None
    ELSE Given(r, d, "scale")
ScaleWithheld(r, d) ==
    /\ r.scale_claims # {}
    /\ ~(/\ {c.factor : c \in r.scale_claims} = {r.scale} /\ r.scale \notin {None, Invalid}
         /\ Numeric(RawScale(r, d)) # None)
ScaleOf(r, d) == IF ScaleWithheld(r, d) THEN None ELSE Numeric(RawScale(r, d))
NumberHolds(r, d) ==
    When(RawScale(r, d) = Invalid, "point.scale-invalid", "scale")
    \cup When(ScaleWithheld(r, d), "source.scale-conversion-unresolved", "scale")
    \cup When(/\ Numeric(r.minimum) # None /\ Numeric(r.maximum) # None
              /\ r.minimum > r.maximum, "point.range-invalid", "minimum")
    \cup When(r.minimum = Invalid, "point.minimum-invalid", "minimum")
    \cup When(r.maximum = Invalid, "point.maximum-invalid", "maximum")

-----------------------------------------------------------------------------
(***************************************************************************)
(* Access.  A source has one column, flags, or both; when they do not      *)
(* establish that the point can be read, its access is write-only, which   *)
(* the planner never reads.                                                *)
(***************************************************************************)
CanRead(access) == access \in {"read-only", "read-write"}
CanWrite(access) == access \in {"write-only", "read-write"}
Flag(v) == IF v \in BOOLEAN THEN v ELSE None
Readable(r) == Flag(r.access_readable)
Writable(r) == Flag(IF r.access_writable # None THEN r.access_writable ELSE r.writable)
StatedAccess(r) ==
    IF r.access \in Accesses THEN r.access
    ELSE CASE Readable(r) = TRUE /\ Writable(r) = TRUE -> "read-write"
           [] Readable(r) = TRUE /\ Writable(r) = FALSE -> "read-only"
           [] Readable(r) = FALSE /\ Writable(r) = TRUE -> "write-only"
           [] OTHER -> None
\* Faulty variant: only a flag that says no blocks reading.
BlockedByFlag(r) == Readable(r) = FALSE
ReadBlocked(r) ==
    \/ Readable(r) = FALSE
    \/ StatedAccess(r) = None /\ r.access_columns /\ Readable(r) # TRUE
AccessOf(r) == IF ReadBlocked(r) THEN "write-only" ELSE StatedAccess(r)
AccessHolds(r) ==
    LET access == StatedAccess(r)  readable == Readable(r)  writable == Writable(r)
    IN When(r.access = Invalid, "point.access-unrecognized", "access")
       \cup When(r.access_readable = Invalid, "point.access-readable-invalid", "access_readable")
       \cup When(\/ r.access_writable = Invalid
                 \/ r.access_writable = None /\ r.writable = Invalid,
                 "point.access-writable-invalid", "access_writable")
       \cup When(/\ r.access_writable \in BOOLEAN /\ r.writable \in BOOLEAN
                 /\ r.access_writable # r.writable,
                 "point.access-writable-conflict", "access_writable")
       \cup When(readable = FALSE /\ writable = FALSE, "point.access-invalid", "access")
       \cup When(/\ access # None
                 /\ \/ readable # None /\ readable # CanRead(access)
                    \/ writable # None /\ writable # CanWrite(access),
                 "point.access-conflict", "access")
       \cup When(access = None /\ r.access_columns /\ (readable = None \/ writable = None),
                 "point.access-unresolved", "access")
       \cup When(readable = FALSE /\ access # "write-only",
                 "point.not-readable", "access_readable")
       \cup When(access = "write-only", "point.write-only-not-readable", "access")

\* Function codes: what the record says, or what its area implies.
ReadCodes(r) == IF r.read_function_codes = Invalid THEN {} ELSE r.read_function_codes
AreaCode(r, d) == IF AreaOf(r, d) = None THEN None ELSE ReadFunction[AreaOf(r, d)]
FunctionFromList(r, d) ==
    \/ AreaCode(r, d) # None /\ AreaCode(r, d) \in ReadCodes(r)
    \/ Cardinality(ReadCodes(r)) = 1
FunctionOf(r, d) ==
    LET raw == Given(r, d, "function_code")
    IN IF raw # None THEN (IF raw # Invalid /\ raw \in 1..255 THEN raw ELSE None)
       ELSE IF AccessOf(r) = "write-only" THEN None
       ELSE IF AreaCode(r, d) # None /\ AreaCode(r, d) \in ReadCodes(r) THEN AreaCode(r, d)
       ELSE IF Cardinality(ReadCodes(r)) = 1 THEN CHOOSE c \in ReadCodes(r) : TRUE
       ELSE AreaCode(r, d)
FunctionHolds(r, d) ==
    LET raw == Given(r, d, "function_code")
        code == FunctionOf(r, d)
        expected == AreaCode(r, d)
    IN When(r.read_function_codes = Invalid,
            "point.read-function-codes-invalid", "read_function_codes")
       \cup When(~(ReadCodes(r) \subseteq 1..4),
                 "point.read-function-code-unsafe", "read_function_codes")
       \cup When(raw = None /\ ReadCodes(r) # {} /\ expected # None
                 /\ expected \notin ReadCodes(r),
                 "function-code.area-mismatch", "read_function_codes")
       \cup When(raw # None /\ code = None, "function-code.invalid", "function_code")
       \cup When(raw # None /\ code # None /\ code \notin 1..4,
                 "function-code.unsupported", "function_code")
       \cup When(/\ raw # None /\ code # None /\ code \in 1..4
                 /\ expected # None /\ code # expected,
                 "function-code.area-mismatch", "function_code")

-----------------------------------------------------------------------------
\* What the source says of its own row.
RowHolds(r) ==
    When(r.include = Invalid, "point.source-include-invalid", "include")
    \cup When(r.reviewed = Invalid, "point.source-reviewed-invalid", "reviewed")
    \cup When(r.include = FALSE, "point.source-excluded", "include")
    \cup When(r.reviewed = FALSE, "point.source-review-incomplete", "reviewed")

UnitOf(r, d) ==
    LET raw == Given(r, d, "unit_id")
    IN IF raw \notin {None, Invalid} /\ raw \in 1..247 THEN raw ELSE None
IdentityHolds(r, d) ==
    LET area == Given(r, d, "area")
    IN When(Given(r, d, "route_id") = None, "point.route-id-unresolved", "route_id")
       \cup When(Given(r, d, "unit_id") = None, "point.unit-id-unresolved", "unit_id")
       \cup When(Given(r, d, "unit_id") # None /\ UnitOf(r, d) = None,
                 "point.unit-id-invalid", "unit_id")
       \cup When(area = None /\ AreaOf(r, d) = None, "point.area-unresolved", "area")
       \cup When(area # None /\ AreaOf(r, d) = None, "point.area-unrecognized", "area")

\* _stable_point_id: a hash of the name and where the point is; of more where
\* there is no name.
StableId(r, d) ==
    LET a == Addressed(r, d)
        Plain(v) == IF v = Placeholder THEN None ELSE v
    IN [name |-> r.name, route_id |-> Given(r, d, "route_id"), unit_id |-> UnitOf(r, d),
        area |-> AreaOf(r, d),
        rest |-> IF r.name # None THEN None
                 ELSE <<a.raw, a.offset, r.description,
                        Plain(r.datatype), Plain(r.access), r.row>>]
IdOf(r, d) ==
    IF r.logical_point_id # None THEN [explicit |-> r.logical_point_id] ELSE StableId(r, d)

RecordHolds(r, d) ==
    RowHolds(r) \cup IdentityHolds(r, d) \cup AddressHolds(Addressed(r, d))
    \cup TypeHolds(r, d) \cup SpanHolds(r, d) \cup OrderHolds(r, d) \cup NumberHolds(r, d)
    \cup AccessHolds(r) \cup FunctionHolds(r, d)
Assumed(r, d) ==
    {f \in {"route_id", "unit_id", "area", "datatype", "byte_order", "bit_order",
            "function_code"} : Defaulted(r, d, f)}
    \cup {f \in {"address_convention"} : UsesDefaultConvention(r, d)}
    \cup {f \in {"area"} : Given(r, d, "area") = None /\ AreaOf(r, d) # None}
    \cup {f \in {"word_span"} : Given(r, d, "word_span") = None /\ SpanOf(r, d) # None}
    \cup {f \in {"function_code"} : /\ Given(r, d, "function_code") = None
                                    /\ FunctionOf(r, d) # None /\ ~FunctionFromList(r, d)}
    \cup {f \in {"logical_point_id"} : r.logical_point_id = None}

\* _normalize_one.
Point(r, d) ==
    [route_id |-> Given(r, d, "route_id"), unit_id |-> UnitOf(r, d), area |-> AreaOf(r, d),
     protocol_offset |-> Addressed(r, d).offset, datatype |-> TypeOf(r, d),
     word_span |-> SpanOf(r, d), byte_order |-> OrderOf(r, d),
     byte_order_confirmed |-> OrderConfirmed(r, d), bit_order |-> Given(r, d, "bit_order"),
     access |-> AccessOf(r), function_code |-> FunctionOf(r, d),
     scale |-> ScaleOf(r, d), logical_point_id |-> IdOf(r, d),
     status |-> IF RecordHolds(r, d) = {} THEN "confirmed" ELSE "pending"]

-----------------------------------------------------------------------------
\* _source_hold_items: a hold of the parser stays open unless it says that it
\* does not block or was resolved; one that cannot be read stays open.
Dispositions == {"accepted", "corrected", "excluded", "resolved"}
OpenHolds(given) ==
    {IF h = Invalid THEN Finding("source.hold-invalid", {}, None)
     ELSE Finding(h.code, h.ids, None) :
        h \in {g \in given : g = Invalid \/ (g.blocking # FALSE /\ g.disposition \notin Dispositions)}}

Init ==
    /\ source \in Sources /\ defaults \in DefaultSets
    /\ points = <<>> /\ holds = OpenHolds(source.holds) /\ assumptions = <<>>
    /\ collated = FALSE

NormalizeRecord ==
    /\ Len(points) < Len(source.records)
    /\ LET n == Len(points) + 1  r == source.records[n] IN
       /\ points' = Append(points, Point(r, defaults))
       /\ holds' = holds \cup {Finding(h[1], {IdOf(r, defaults)}, h[2]) :
                                   h \in RecordHolds(r, defaults)}
       /\ assumptions' = Append(assumptions, Assumed(r, defaults))
    /\ UNCHANGED <<source, defaults, collated>>

\* A generated id that two records share, and what the simulator cannot hold.
Generated == {points[n].logical_point_id : n \in
                 {k \in DOMAIN points : source.records[k].logical_point_id = None}}
Collisions ==
    {id \in Generated :
        Cardinality({n \in DOMAIN points : points[n].logical_point_id = id}) > 1}
Collate ==
    /\ Len(points) = Len(source.records) /\ ~collated
    /\ LET found == {Finding("point.generated-logical-id-collision", {id},
                             "logical_point_id") : id \in Collisions}
               \cup {Finding(h.code, {points[n].logical_point_id : n \in h.ids}, h.field) :
                        h \in SimulatorFindings(points, source.profile)}
       IN /\ holds' = holds \cup found
          /\ points' = [n \in DOMAIN points |->
                 IF \E h \in found : points[n].logical_point_id \in h.ids
                 THEN [points[n] EXCEPT !.status = "pending"] ELSE points[n]]
    /\ collated' = TRUE
    /\ UNCHANGED <<source, defaults, assumptions>>

Next == NormalizeRecord \/ Collate
Spec == Init /\ [][Next]_vars

-----------------------------------------------------------------------------
(***************************************************************************)
(* Properties                                                              *)
(***************************************************************************)
Confirmed == {n \in DOMAIN points : points[n].status = "confirmed"}

\* What an address written in a convention means, said from the register and
\* not by reading digits: the references of a register are its five digits, if
\* it has them, its six digits, and for a coil the number alone.
References(area, offset) ==
    {[form |-> "decimal", width |-> 6, value |-> Prefix[area] * 100000 + offset + 1]}
    \cup IF offset > 9998 THEN {} ELSE
         {[form |-> "decimal", width |-> 5, value |-> Prefix[area] * 10000 + offset + 1]}
Denotes(claim, area, offset) ==
    LET raw == claim.raw IN
    CASE claim.convention = "protocol-offset" -> raw.value = offset
      [] claim.convention = "one-based-offset" -> raw.value = offset + 1
      [] claim.convention = "modicon-reference" ->
            IF area = "coil" /\ raw.form = "integer" THEN raw.value = offset + 1
            ELSE [raw EXCEPT !.form = "decimal"] \in References(area, offset)
      [] OTHER -> FALSE

\* Every address a record writes, wherever it writes it, and those of them that
\* an address object has beside a stronger form.
AnyForm(r, d) ==
    LET top == Given(r, d, "address_convention")  a == r.address IN
    {Claim("protocol_offset", r.protocol_offset, "protocol-offset"),
     Claim("display_address", r.display_address, "modicon-reference")}
    \cup (IF r.source_address = None THEN {} ELSE {Sourced(r.source_address, top)})
    \cup (IF a = None THEN {} ELSE
        {Claim("address.protocol_offset", a.protocol_offset, "protocol-offset"),
         Claim("address.display_address", a.display_address, "modicon-reference"),
         RawOf(a, top)})
Writings(r, d) == {c \in AnyForm(r, d) : c.raw # None}
PassedOver(c, r) ==
    \/ c.field = "address.display_address" /\ r.address.protocol_offset # None
    \/ /\ c.field = "address.raw"
       /\ r.address.protocol_offset # None \/ r.address.display_address # None

\* Every address a source writes for a confirmed point denotes the register
\* the point has, in its convention, and so does the reference shown for it:
\* every address in a field of its own, and the strongest form in an address
\* object.  The forms beside that one in the same object are the exception:
\* nothing compares them, so a point is confirmed that they contradict.
OneRegister ==
    \A n \in Confirmed :
        LET p == points[n]  r == source.records[n]
        IN /\ \A c \in Writings(r, defaults) :
                  PassedOver(c, r) \/ Denotes(c, p.area, p.protocol_offset)
           /\ Reference(p.area, p.protocol_offset)
                  \in References(p.area, p.protocol_offset)

\* A point that any claim of its record keeps from being read, or that leaves
\* open whether it can be, is not confirmed; and where nothing else in the
\* record says that it can be read, the planner sees a write-only point that
\* has no read function but the one the source insists on.
DenialsHold ==
    \A n \in DOMAIN points :
        LET r == source.records[n]
            denies == \/ r.access = "write-only" \/ r.access_readable \in {FALSE, Invalid}
                      \/ r.include = FALSE \/ r.reviewed = FALSE
            open == /\ r.access \notin Accesses /\ r.access_columns
                    /\ r.access_readable # TRUE
        IN /\ denies \/ open => n \notin Confirmed
           /\ r.access_readable = FALSE \/ r.access = "write-only" \/ open =>
                 /\ points[n].access = "write-only"
                 /\ points[n].function_code \in {None, Given(r, defaults, "function_code")}

\* No value is made up.  A byte order is confirmed only if no claim denies it;
\* a scale is a number of the record that no conversion rule contradicts; what
\* the record does not say is a default or one of the derivations, and is
\* recorded as an assumption; and in a finished map no two confirmed points
\* share an id that was generated.
NothingInvented ==
    /\ \A n \in DOMAIN points :
        LET r == source.records[n]  p == points[n] IN
        /\ p.byte_order_confirmed => /\ r.byte_order_status # FALSE
                                     /\ r.byte_order_confirmed \notin {FALSE, Invalid}
        /\ p.scale # None => /\ p.scale \in {r.scale, defaults.scale}
                             /\ \A c \in r.scale_claims : c.factor = p.scale
        /\ \A f \in {"route_id", "unit_id", "area", "datatype", "byte_order",
                     "bit_order", "function_code"} :
              (p[f] # None /\ r[f] = None) =>
                  \/ f \in assumptions[n]
                  \/ f = "function_code" /\ p[f] \in ReadCodes(r)
    /\ collated => \A n, k \in Confirmed :
          (n # k /\ source.records[n].logical_point_id = None) =>
              points[n].logical_point_id # points[k].logical_point_id

=============================================================================

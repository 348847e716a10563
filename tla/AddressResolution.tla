------------------------- MODULE AddressResolution -------------------------
(***************************************************************************)
(* address.py: what a declared source address denotes.  A raw value is an  *)
(* integer, a text of decimal digits (width counts them) or a hexadecimal  *)
(* text; a text with a sign has width 0, as no reference may carry one.    *)
(***************************************************************************)
EXTENDS PointValidation

CONSTANT Invalid    \* a value that the source gives and the code cannot read

ASSUME UnreadAssumption == None # Invalid /\ None \notin Int /\ Invalid \notin Int

Conventions == {"protocol-offset", "one-based-offset", "modicon-reference"}

RawAddress == [form : {"integer", "decimal", "hex"}, value : Int, width : 0..6]
Prefix == [a \in Areas |-> CASE a = "coil" -> 0 [] a = "discrete-input" -> 1
                             [] a = "input-register" -> 3 [] a = "holding-register" -> 4]

\* What the leading digit of a reference of five or six digits is worth.
LeadingUnit(width) == IF width = 5 THEN 10000 ELSE 100000
MaxForWidth(width) == IF width = 5 THEN 9998 ELSE MaxProtocolOffset

\* The reference of an offset: five digits when they suffice, six beyond.
Reference(area, offset) ==
    LET width == IF offset <= 9998 THEN 5 ELSE 6
    IN [form |-> "decimal", width |-> width,
        value |-> Prefix[area] * LeadingUnit(width) + offset + 1]

\* _parse_modicon_reference.
ParseReference(raw, area) ==
    LET unit == LeadingUnit(raw.width)
        offset == (raw.value % unit) - 1
    IN IF raw.form = "hex" THEN Invalid
       ELSE IF area = "coil" /\ raw.form = "integer"
            THEN IF raw.value \in 1..MaxProtocolOffset + 1 THEN raw.value - 1 ELSE Invalid
       ELSE IF /\ raw.width \in {5, 6} /\ raw.value >= 0
               /\ raw.value \div unit = Prefix[area]
               /\ offset \in 0..MaxForWidth(raw.width)
            THEN offset ELSE Invalid

\* The offset a raw value denotes, or Invalid.  The area and the convention
\* are known.
OffsetOf(raw, convention, area) ==
    IF raw \notin RawAddress THEN Invalid ELSE
    LET offset == CASE convention = "protocol-offset" -> raw.value
                    [] convention = "one-based-offset" -> raw.value - 1
                    [] convention = "modicon-reference" -> ParseReference(raw, area)
    IN IF offset = Invalid THEN Invalid
       ELSE IF offset \in 0..MaxProtocolOffset THEN offset ELSE Invalid

\* resolve_address: an offset, or the findings that say why there is none.
Resolve(raw, convention, area) ==
    LET undeclared == (IF area \notin Areas THEN {"address.area-unresolved"} ELSE {})
            \cup (IF convention \notin Conventions
                  THEN {"address.convention-unresolved"} ELSE {})
        offset == OffsetOf(raw, convention, area)
    IN IF undeclared # {} THEN [offset |-> None, findings |-> undeclared]
       ELSE IF offset = Invalid THEN [offset |-> None, findings |-> {"address.invalid"}]
       ELSE [offset |-> offset, findings |-> {}]
=============================================================================

------------------------------ MODULE MapProofs -----------------------------
(***************************************************************************)
(* What resolve_address of address.py promises of every source address,    *)
(* what normalize_map and review_parse_evidence of map_workflows.py        *)
(* promise of every source, whatever its records, its holds, the defaults  *)
(* and the profile of the simulator, and what apply_review_decisions of    *)
(* decisions.py promises of every map that is reviewed.                    *)
(***************************************************************************)
EXTENDS EvidenceReview, ReviewDecisions, TLAPS, FiniteSetTheorems, SequenceTheorems

\* Whatever text or number a source gives, an address that resolves is one of
\* the 65536 of the protocol, and one that does not resolve says why.
THEOREM ResolvedInRange ==
    ASSUME NEW raw, NEW convention, NEW area
    PROVE  LET r == Resolve(raw, convention, area) IN
           \/ r.offset \in 0..MaxProtocolOffset /\ r.findings = {}
           \/ r.offset = None /\ r.findings # {}
<1> DEFINE found == OffsetOf(raw, convention, area)
<1>1. found = Invalid \/ found \in 0..MaxProtocolOffset BY DEF OffsetOf
<1> HIDE DEF found
<1> QED BY <1>1 DEF Resolve, found

\* The value of a reference, taken apart again.
LEMMA Digits ==
    ASSUME NEW p \in 0..4, NEW unit \in Int, unit > 0,
           NEW offset \in Int, 0 <= offset, offset + 1 < unit
    PROVE  /\ p * unit + offset + 1 \in Int /\ p * unit + offset + 1 >= 0
           /\ (p * unit + offset + 1) \div unit = p
           /\ (p * unit + offset + 1) % unit = offset + 1
<1>1. p * unit \in Int /\ p * unit >= 0 BY SMT
<1>2. (p * unit + offset + 1) = p * unit + (offset + 1) BY <1>1, SMT
<1>3. (p * unit + (offset + 1)) \div unit = p BY SMT
<1>4. (p * unit + (offset + 1)) % unit = offset + 1 BY SMT
<1> QED BY <1>1, <1>2, <1>3, <1>4, SMT

LEMMA LastOffsetIs == MaxProtocolOffset \in Int
BY SMT DEF MaxProtocolOffset

LEMMA SixDigits == ASSUME NEW x \in Int, x <= MaxProtocolOffset PROVE x + 1 < 100000
BY SMT DEF MaxProtocolOffset

\* Every offset fits its width, and its number of digits is that of the width.
LEMMA Fits ==
    ASSUME NEW offset, offset \in 0..MaxProtocolOffset
    PROVE  LET width == IF offset <= 9998 THEN 5 ELSE 6 IN
           /\ width \in {5, 6} /\ offset \in 0..MaxForWidth(width) /\ offset \in Int
           /\ LeadingUnit(width) \in Int /\ LeadingUnit(width) > 0
           /\ offset + 1 < LeadingUnit(width)
<1> DEFINE width == IF offset <= 9998 THEN 5 ELSE 6
<1>1. offset \in Int /\ 0 <= offset /\ offset <= MaxProtocolOffset BY SMT
<1>2. offset + 1 < 100000 BY <1>1, SixDigits, SMT
<1>3. CASE offset <= 9998
  <2>1. LeadingUnit(width) = 10000 /\ MaxForWidth(width) = 9998
    BY <1>3, SMT DEF LeadingUnit, MaxForWidth
  <2> QED BY <1>1, <1>3, <2>1, SMT
<1>4. CASE ~(offset <= 9998)
  <2>1. LeadingUnit(width) = 100000 /\ MaxForWidth(width) = MaxProtocolOffset
    BY <1>4, SMT DEF LeadingUnit, MaxForWidth
  <2> QED BY <1>1, <1>2, <1>4, <2>1, SMT
<1> QED BY <1>3, <1>4

LEMMA PrefixType == ASSUME NEW area \in Areas PROVE Prefix[area] \in 0..4
BY DEF Prefix, Areas

\* What a reference is written as.
LEMMA Written ==
    ASSUME NEW area, NEW offset
    PROVE  LET width == IF offset <= 9998 THEN 5 ELSE 6 IN
           Reference(area, offset) = [form |-> "decimal", width |-> width,
               value |-> Prefix[area] * LeadingUnit(width) + offset + 1]
BY DEF Reference

\* The reference written for an offset reads back as that offset, at both ends
\* of the five and the six digit form: 40001, 49999, 410000 and 465536.
THEOREM ReferenceRoundTrip ==
    ASSUME NEW area \in Areas, NEW offset \in 0..MaxProtocolOffset
    PROVE  Resolve(Reference(area, offset), "modicon-reference", area)
               = [offset |-> offset, findings |-> {}]
<1> DEFINE width == IF offset <= 9998 THEN 5 ELSE 6
           raw == Reference(area, offset)
           unit == LeadingUnit(width)
<1>1. Prefix[area] \in 0..4 BY PrefixType
<1>2. /\ width \in {5, 6} /\ offset \in 0..MaxForWidth(width) /\ offset \in Int
      /\ unit \in Int /\ unit > 0 /\ 0 <= offset /\ offset + 1 < unit
  BY Fits, SMT
<1>3. raw = [form |-> "decimal", width |-> width,
             value |-> Prefix[area] * unit + offset + 1]
  BY Written
<1> HIDE DEF raw, width, unit
<1>4. /\ raw.value \in Int /\ raw.value >= 0
      /\ raw.value \div unit = Prefix[area]
      /\ raw.value % unit = offset + 1
  <2>1. raw.value = Prefix[area] * unit + offset + 1 BY <1>3
  <2> DEFINE prefix == Prefix[area]
             value == prefix * unit + offset + 1
  <2> HIDE DEF prefix
  <2>2. /\ value \in Int /\ value >= 0
        /\ value \div unit = prefix /\ value % unit = offset + 1
    <3>1. prefix \in 0..4 BY <1>1 DEF prefix
    <3>2. unit \in Int /\ unit > 0 /\ offset \in Int /\ 0 <= offset /\ offset + 1 < unit
      BY <1>2
    <3> QED BY <3>1, <3>2, Digits
  <2>3. raw.value = value BY <2>1 DEF prefix
  <2> HIDE DEF value
  <2> QED BY <2>2, <2>3 DEF prefix
<1>7. raw.form = "decimal" /\ raw.width = width BY <1>3
<1>8. raw \in RawAddress BY <1>2, <1>3, <1>4, SMT DEF RawAddress
<1>9. (raw.value % unit) - 1 = offset BY <1>2, <1>4
<1>10. ParseReference(raw, area) = offset
  BY <1>2, <1>4, <1>7, <1>9, SMT DEF ParseReference, unit
<1>11. offset # Invalid /\ offset \in 0..MaxProtocolOffset BY <1>2, UnreadAssumption, Zenon
<1>12. OffsetOf(raw, "modicon-reference", area) = offset
  BY <1>8, <1>10, <1>11 DEF OffsetOf
<1> QED BY <1>11, <1>12 DEF Resolve, Conventions, raw

\* A reference written with its leading digit denotes a point of one area only:
\* declared for any other area it is refused, never read as an offset there.
THEOREM ReferenceOfOneArea ==
    ASSUME NEW raw, raw.form # "integer", NEW a \in Areas, NEW b \in Areas,
           Resolve(raw, "modicon-reference", a).findings = {},
           Resolve(raw, "modicon-reference", b).findings = {}
    PROVE  a = b
<1>1. ASSUME NEW c \in Areas, Resolve(raw, "modicon-reference", c).findings = {}
      PROVE  raw.value \div LeadingUnit(raw.width) = Prefix[c]
  <2>1. OffsetOf(raw, "modicon-reference", c) # Invalid
    BY <1>1 DEF Resolve, Conventions
  <2>2. ParseReference(raw, c) # Invalid BY <2>1 DEF OffsetOf
  <2> QED BY <2>2 DEF ParseReference
<1>2. Prefix[a] = Prefix[b] BY <1>1
<1> QED BY <1>2 DEF Prefix, Areas

\* Two different references of one width and area never denote one offset: no
\* two rows of a source are silently put on one register.
THEOREM ReferencesDistinct ==
    ASSUME NEW r \in RawAddress, NEW s \in RawAddress, NEW area \in Areas,
           r.form = s.form, r.width = s.width,
           Resolve(r, "modicon-reference", area).findings = {},
           Resolve(r, "modicon-reference", area).offset
               = Resolve(s, "modicon-reference", area).offset
    PROVE  r.value = s.value
<1> DEFINE fr == ParseReference(r, area)
           fs == ParseReference(s, area)
           unit == LeadingUnit(r.width)
<1>1. OffsetOf(r, "modicon-reference", area) # Invalid
      /\ Resolve(r, "modicon-reference", area).offset
            = OffsetOf(r, "modicon-reference", area)
  BY DEF Resolve, Conventions
<1>2. fr # Invalid /\ OffsetOf(r, "modicon-reference", area) = fr
      /\ fr \in 0..MaxProtocolOffset
  BY <1>1 DEF OffsetOf
<1>3. OffsetOf(s, "modicon-reference", area) = fr
  <2>1. Resolve(s, "modicon-reference", area).offset = fr BY <1>1, <1>2
  <2>2. fr # None
      <3>1. MaxProtocolOffset \in Int BY SMT DEF MaxProtocolOffset
      <3> HIDE DEF fr
      <3>2. fr \in Int BY <1>2, <3>1, SMT
      <3> QED BY <3>2, UnreadAssumption, Zenon
  <2> QED BY <2>1, <2>2 DEF Resolve
<1>4. fs = fr BY <1>2, <1>3 DEF OffsetOf
<1>5. r.value \in Int /\ s.value \in Int BY DEF RawAddress
<1>6. CASE area = "coil" /\ r.form = "integer"
  BY <1>2, <1>4, <1>5, <1>6 DEF ParseReference
<1>7. CASE ~(area = "coil" /\ r.form = "integer")
  <2>1. unit = 10000 \/ unit = 100000 BY DEF LeadingUnit
  <2>2. r.value \div unit = s.value \div unit /\ r.value % unit = s.value % unit
    <3>1. /\ fr = (r.value % unit) - 1 /\ r.value \div unit = Prefix[area]
      BY <1>2, <1>7 DEF ParseReference
    <3>2. /\ fr = (s.value % unit) - 1 /\ s.value \div unit = Prefix[area]
      BY <1>2, <1>4, <1>7 DEF ParseReference
    <3>3. (r.value % unit) \in Int /\ (s.value % unit) \in Int BY <1>5, <2>1
    <3> HIDE DEF fr, fs, unit
    <3> QED BY <3>1, <3>2, <3>3
  <2> HIDE DEF unit
  <2> QED BY <1>5, <2>1, <2>2
<1> QED BY <1>6, <1>7

-----------------------------------------------------------------------------
(***************************************************************************)
(* What it means that nothing holds a record.                              *)
(***************************************************************************)

\* The digits of a number, put together again.
LEMMA Rejoined ==
    ASSUME NEW value \in Int, NEW width, NEW prefix, NEW offset \in Int,
           value \div LeadingUnit(width) = prefix,
           offset = (value % LeadingUnit(width)) - 1
    PROVE  value = prefix * LeadingUnit(width) + offset + 1
<1>1. CASE width = 5
  <2>1. LeadingUnit(width) = 10000 BY <1>1, SMT DEF LeadingUnit
  <2> QED BY <2>1, SMT
<1>2. CASE width # 5
  <2>1. LeadingUnit(width) = 100000 BY <1>2, SMT DEF LeadingUnit
  <2> QED BY <2>1, SMT
<1> QED BY <1>1, <1>2, Zenon

\* Digits that give an offset are those of a reference of that offset.
LEMMA DigitsDenote ==
    ASSUME NEW width \in {5, 6}, NEW value, NEW area, NEW offset \in Int,
           offset \in 0..MaxForWidth(width),
           value = Prefix[area] * LeadingUnit(width) + offset + 1
    PROVE  [form |-> "decimal", width |-> width, value |-> value]
               \in References(area, offset)
<1>1. CASE width = 5
  <2>1. ~(offset > 9998) BY <1>1, SMT DEF MaxForWidth
  <2>2. value = Prefix[area] * 10000 + offset + 1 BY <1>1, SMT DEF LeadingUnit
  <2>3. [form |-> "decimal", width |-> width, value |-> value]
           = [form |-> "decimal", width |-> 5, value |-> Prefix[area] * 10000 + offset + 1]
    BY <1>1, <2>2
  <2> QED BY <2>1, <2>3, SMT DEF References
<1>2. CASE width = 6
  <2>1. value = Prefix[area] * 100000 + offset + 1 BY <1>2, SMT DEF LeadingUnit
  <2>2. [form |-> "decimal", width |-> width, value |-> value]
           = [form |-> "decimal", width |-> 6, value |-> Prefix[area] * 100000 + offset + 1]
    BY <1>2, <2>1
  <2> QED BY <2>2, SMT DEF References
<1> QED BY <1>1, <1>2

LEMMA ReadDenotes ==
    ASSUME NEW raw \in RawAddress, NEW area, NEW offset \in Int,
           ParseReference(raw, area) = offset, offset # Invalid,
           ~(area = "coil" /\ raw.form = "integer")
    PROVE  [raw EXCEPT !.form = "decimal"] \in References(area, offset)
<1> DEFINE value == raw.value
           width == raw.width
           prefix == Prefix[area]
<1>1. /\ width \in {5, 6} /\ value \div LeadingUnit(width) = prefix
      /\ offset = (value % LeadingUnit(width)) - 1 /\ offset \in 0..MaxForWidth(width)
  BY DEF ParseReference
<1>2. value \in Int BY DEF RawAddress
<1>3. [raw EXCEPT !.form = "decimal"]
         = [form |-> "decimal", width |-> width, value |-> value]
  BY DEF RawAddress
<1>4. value = Prefix[area] * LeadingUnit(width) + offset + 1
  <2>1. prefix = Prefix[area] OBVIOUS
  <2> HIDE DEF value, width, prefix
  <2>2. value = prefix * LeadingUnit(width) + offset + 1 BY <1>1, <1>2, Rejoined
  <2> QED BY <2>1, <2>2
<1>5. [form |-> "decimal", width |-> width, value |-> value] \in References(area, offset)
  <2> HIDE DEF value, width, prefix
  <2> QED BY <1>1, <1>4, DigitsDenote
<1> QED BY <1>3, <1>5

\* A claim that resolves denotes the offset it resolves to, in its convention.
LEMMA ClaimDenotes ==
    ASSUME NEW claim, NEW area,
           Resolve(claim.raw, claim.convention, area).findings = {}
    PROVE  LET offset == Resolve(claim.raw, claim.convention, area).offset IN
           Denotes(claim, area, offset) /\ offset \in 0..MaxProtocolOffset
<1> DEFINE raw == claim.raw
           offset == OffsetOf(raw, claim.convention, area)
<1>1. /\ area \in Areas /\ claim.convention \in Conventions /\ offset # Invalid
      /\ Resolve(claim.raw, claim.convention, area).offset = offset
  <2> HIDE DEF offset
  <2> QED BY DEF Resolve, offset
<1>2. raw \in RawAddress /\ offset \in 0..MaxProtocolOffset BY <1>1 DEF OffsetOf
<1>3. raw.value \in Int BY <1>2 DEF RawAddress
<1>4. CASE claim.convention = "protocol-offset"
  <2>1. offset = raw.value BY <1>1, <1>2, <1>4 DEF OffsetOf
  <2> QED BY <1>1, <1>2, <1>4, <2>1 DEF Denotes
<1>5. CASE claim.convention = "one-based-offset"
  <2>1. offset = raw.value - 1 BY <1>1, <1>2, <1>5 DEF OffsetOf
  <2>2. raw.value = offset + 1 BY <1>3, <2>1
  <2> QED BY <1>1, <1>2, <1>5, <2>2 DEF Denotes
<1>6. CASE claim.convention = "modicon-reference"
  <2>1. offset = ParseReference(raw, area) BY <1>1, <1>2, <1>6 DEF OffsetOf
  <2>2. CASE area = "coil" /\ raw.form = "integer"
    <3>1. offset = raw.value - 1
      BY <1>1, <2>1, <2>2 DEF ParseReference, RawAddress
    <3>2. raw.value = offset + 1 BY <1>3, <3>1
    <3> QED BY <1>1, <1>2, <1>6, <2>2, <3>2 DEF Denotes
  <2>3. CASE ~(area = "coil" /\ raw.form = "integer")
    <3>1. offset \in Int
      <4>1. \A n \in 0..MaxProtocolOffset : n \in Int OBVIOUS
      <4> HIDE DEF offset
      <4> QED BY <1>2, <4>1, Zenon
    <3>2. [raw EXCEPT !.form = "decimal"] \in References(area, offset)
      <4> HIDE DEF offset, raw
      <4> QED BY <1>1, <1>2, <2>1, <2>3, <3>1, ReadDenotes
    <3> QED BY <1>1, <1>2, <1>6, <2>3, <3>2 DEF Denotes
  <2> QED BY <2>2, <2>3
<1> QED BY <1>1, <1>4, <1>5, <1>6 DEF Conventions

\* The reference shown for a point is one of those of its register.
LEMMA ReferenceShown ==
    ASSUME NEW area \in Areas, NEW offset \in 0..MaxProtocolOffset
    PROVE  Reference(area, offset) \in References(area, offset)
<1>1. offset \in Int OBVIOUS
<1>2. LeadingUnit(5) = 10000 /\ LeadingUnit(6) = 100000 BY DEF LeadingUnit
<1>3. CASE offset <= 9998
  <2>1. ~(offset > 9998) BY <1>1, <1>3
  <2>2. Reference(area, offset) = [form |-> "decimal", width |-> 5,
                                   value |-> Prefix[area] * LeadingUnit(5) + offset + 1]
    BY <1>3 DEF Reference
  <2> QED BY <1>2, <2>1, <2>2 DEF References
<1>4. CASE ~(offset <= 9998)
  <2>1. Reference(area, offset) = [form |-> "decimal", width |-> 6,
                                   value |-> Prefix[area] * LeadingUnit(6) + offset + 1]
    BY <1>4 DEF Reference
  <2> QED BY <1>2, <2>1 DEF References
<1> QED BY <1>3, <1>4

\* What a concatenation holds.
Has(s, x) == \E k \in DOMAIN s : s[k] = x
LEMMA ConcatHolds ==
    ASSUME NEW S, NEW s \in Seq(S), NEW t \in Seq(S)
    PROVE  s \o t \in Seq(S) /\ \A x : (Has(s, x) \/ Has(t, x)) => Has(s \o t, x)
<1>1. /\ s \o t \in Seq(S) /\ Len(s \o t) = Len(s) + Len(t)
      /\ \A k \in 1..Len(s) + Len(t) :
            (s \o t)[k] = IF k <= Len(s) THEN s[k] ELSE t[k - Len(s)]
  BY ConcatProperties
<1>2. DOMAIN s = 1..Len(s) /\ DOMAIN t = 1..Len(t) /\ Len(s) \in Nat /\ Len(t) \in Nat
      /\ DOMAIN (s \o t) = 1..Len(s) + Len(t)
  BY <1>1, LenProperties
<1>3. ASSUME NEW x, Has(s, x) PROVE Has(s \o t, x)
  <2>1. PICK i \in DOMAIN s : s[i] = x BY <1>3 DEF Has
  <2>2. i \in 1..Len(s) + Len(t) /\ i <= Len(s) BY <1>2
  <2> QED BY <1>1, <1>2, <2>1, <2>2 DEF Has
<1>4. ASSUME NEW x, Has(t, x) PROVE Has(s \o t, x)
  <2>1. PICK i \in DOMAIN t : t[i] = x BY <1>4 DEF Has
  <2>2. /\ i + Len(s) \in 1..Len(s) + Len(t) /\ ~(i + Len(s) <= Len(s))
        /\ (i + Len(s)) - Len(s) = i
    BY <1>2
  <2> QED BY <1>1, <1>2, <2>1, <2>2 DEF Has
<1> QED BY <1>1, <1>3, <1>4

\* The claims of a record are numbered from one, there is at least one, and
\* what the record writes is among them unless it is passed over.
LEMMA ClaimsNumbered ==
    ASSUME NEW r, NEW d
    PROVE  /\ 1 \in DOMAIN AddressInputs(r, d) /\ DOMAIN AddressInputs(r, d) \subseteq Nat \ {0}
           /\ \A c \in Writings(r, d) : PassedOver(c, r) \/
                  Has(AddressInputs(r, d), c)
<1> DEFINE top == Given(r, d, "address_convention")
           c1 == Claim("protocol_offset", r.protocol_offset, "protocol-offset")
           c2 == Claim("display_address", r.display_address, "modicon-reference")
           c3 == Sourced(r.source_address, top)
           c4 == Strongest(r.address, top)
           c5 == Claim("address.raw", None, top)
           Claims == {c1, c2, c3, c4, c5}
           s1 == IF r.protocol_offset = None THEN <<>> ELSE <<c1>>
           s2 == IF r.display_address = None THEN <<>> ELSE <<c2>>
           s3 == IF r.source_address = None THEN <<>> ELSE <<c3>>
           s4 == IF r.address = None THEN <<>> ELSE <<c4>>
           s12 == s1 \o s2
           s123 == s12 \o s3
           inputs == s123 \o s4
           taken == IF inputs = <<>> THEN <<c5>> ELSE inputs
<1>1. AddressInputs(r, d) = taken BY DEF AddressInputs
<1>2. c1 \in Claims /\ c2 \in Claims /\ c3 \in Claims /\ c4 \in Claims /\ c5 \in Claims
  OBVIOUS
<1>3. ASSUME NEW c \in Writings(r, d)
      PROVE  \/ r.protocol_offset # None /\ c = c1
             \/ r.display_address # None /\ c = c2
             \/ r.source_address # None /\ c = c3
             \/ r.address # None /\ (c = c4 \/ PassedOver(c, r))
  <2>1. c.raw # None /\ c \in AnyForm(r, d) BY Zenon DEF Writings
  <2>2. CASE c = c1 BY <2>1, <2>2 DEF Claim
  <2>3. CASE c = c2 BY <2>1, <2>3 DEF Claim
  <2>4. CASE r.source_address # None /\ c = c3 BY <2>4
  <2>5. CASE r.address # None /\ c = Claim("address.protocol_offset",
                                          r.address.protocol_offset, "protocol-offset")
    <3>1. c4 = c BY <2>1, <2>5 DEF Strongest, Claim
    <3> QED BY <2>5, <3>1
  <2>6. CASE r.address # None /\ c = Claim("address.display_address",
                                          r.address.display_address, "modicon-reference")
    <3>1. CASE r.address.protocol_offset = None
      <4>1. c4 = c BY <2>1, <2>6, <3>1 DEF Strongest, Claim
      <4> QED BY <2>6, <4>1
    <3>2. CASE r.address.protocol_offset # None
      BY <2>6, <3>2 DEF PassedOver, Claim
    <3> QED BY <3>1, <3>2
  <2>7. CASE r.address # None /\ c = RawOf(r.address, top)
    <3>1. CASE r.address.protocol_offset = None /\ r.address.display_address = None
      <4>1. c4 = c BY <2>7, <3>1 DEF Strongest
      <4> QED BY <2>7, <4>1
    <3>2. CASE ~(r.address.protocol_offset = None /\ r.address.display_address = None)
      BY <2>7, <3>2 DEF PassedOver, RawOf, Claim
    <3> QED BY <3>1, <3>2
  <2>8. c \in {c1, c2} \cup (IF r.source_address = None THEN {} ELSE {c3})
             \cup (IF r.address = None THEN {} ELSE
                  {Claim("address.protocol_offset", r.address.protocol_offset,
                         "protocol-offset"),
                   Claim("address.display_address", r.address.display_address,
                         "modicon-reference"), RawOf(r.address, top)})
    BY <2>1, Zenon DEF AnyForm
  <2> QED BY <2>2, <2>3, <2>4, <2>5, <2>6, <2>7, <2>8
<1> HIDE DEF c1, c2, c3, c4, c5, Claims
<1>4. s1 \in Seq(Claims) /\ s2 \in Seq(Claims) /\ s3 \in Seq(Claims) /\ s4 \in Seq(Claims)
  BY <1>2
<1>5. \A c : /\ (r.protocol_offset # None /\ c = c1) => Has(s1, c)
             /\ (r.display_address # None /\ c = c2) => Has(s2, c)
             /\ (r.source_address # None /\ c = c3) => Has(s3, c)
             /\ (r.address # None /\ c = c4) => Has(s4, c)
  <2>1. \A c : Has(<<c>>, c) BY DEF Has
  <2> QED BY <2>1
<1> HIDE DEF s1, s2, s3, s4
<1>6. s12 \in Seq(Claims) /\ \A c : (Has(s1, c) \/ Has(s2, c)) => Has(s12, c)
  BY <1>4, ConcatHolds
<1> HIDE DEF s12
<1>7. s123 \in Seq(Claims) /\ \A c : (Has(s12, c) \/ Has(s3, c)) => Has(s123, c)
  BY <1>4, <1>6, ConcatHolds
<1> HIDE DEF s123
<1>8. inputs \in Seq(Claims) /\ \A c : (Has(s123, c) \/ Has(s4, c)) => Has(inputs, c)
  BY <1>4, <1>7, ConcatHolds
<1> HIDE DEF inputs
<1>9. taken \in Seq(Claims) /\ taken # <<>> BY <1>2, <1>8
<1>10. \A c : Has(inputs, c) => Has(taken, c)
  <2>1. CASE inputs = <<>>
    <3>1. \A c : ~Has(<<>>, c) BY DEF Has
    <3> QED BY <2>1, <3>1
  <2>2. CASE inputs # <<>>
    <3>1. taken = inputs BY <2>2
    <3> HIDE DEF taken
    <3> QED BY <3>1
  <2> QED BY <2>1, <2>2
<1> HIDE DEF taken
<1>11. DOMAIN taken = 1..Len(taken) /\ Len(taken) \in Nat \ {0}
  BY <1>9, EmptySeq, LenProperties
<1>12. \A c \in Writings(r, d) : PassedOver(c, r) \/ Has(taken, c)
  BY <1>3, <1>5, <1>6, <1>7, <1>8, <1>10
<1>13. 1 \in DOMAIN taken /\ DOMAIN taken \subseteq Nat \ {0} BY <1>11
<1> QED BY <1>1, <1>12, <1>13

LEMMA OffsetIsNumber ==
    ASSUME NEW x, x \in 0..MaxProtocolOffset
    PROVE  x \in Int /\ x # None
<1>1. x \in Int BY SMT
<1> QED BY <1>1, UnreadAssumption, Zenon

LEMMA TwoElements ==
    ASSUME NEW S, IsFiniteSet(S), NEW x \in S, NEW y \in S, x # y
    PROVE  Cardinality(S) > 1
<1>1. Cardinality({x, y}) = 2
  <2>1. IsFiniteSet({x}) /\ Cardinality({x}) = 1 BY FS_Singleton
  <2>2. {x, y} = {x} \cup {y} /\ y \notin {x} OBVIOUS
  <2> QED BY <2>1, <2>2, FS_AddElement
<1>2. Cardinality({x, y}) <= Cardinality(S) BY FS_Subset
<1>3. Cardinality(S) \in Nat BY FS_CardinalityType
<1> QED BY <1>1, <1>2, <1>3

\* Offsets of the protocol, more than one of which are not the same.
LEMMA OneOffset ==
    ASSUME NEW S, S \subseteq 0..MaxProtocolOffset, ~(Cardinality(S) > 1),
           NEW x \in S, NEW y \in S
    PROVE  x = y
<1>1. 0 \in Int OBVIOUS
<1>2. IsFiniteSet(0..MaxProtocolOffset) BY <1>1, LastOffsetIs, FS_Interval
<1>3. IsFiniteSet(S) BY <1>2, FS_Subset
<1> QED BY <1>3, TwoElements

\* A record that its address holds nothing against: every claim resolves, to
\* the offset of the point, which it denotes.
LEMMA AddressSettled ==
    ASSUME NEW r, NEW d, AddressHolds(Addressed(r, d)) = {}
    PROVE  LET offset == Addressed(r, d).offset  inputs == AddressInputs(r, d) IN
           /\ AreaOf(r, d) \in Areas /\ offset \in 0..MaxProtocolOffset
           /\ \A k \in DOMAIN inputs : Denotes(inputs[k], AreaOf(r, d), offset)
<1> DEFINE area == AreaOf(r, d)
           inputs == AddressInputs(r, d)
           found == [n \in DOMAIN inputs |->
                         Resolve(inputs[n].raw, inputs[n].convention, area)]
           resolved == {n \in DOMAIN inputs : found[n].offset # None}
           primary == IF resolved = {} THEN 1
                      ELSE CHOOSE n \in resolved : \A k \in resolved : n <= k
           offsets == {found[n].offset : n \in resolved}
<1>1. /\ Addressed(r, d).offset = found[primary].offset
      /\ Addressed(r, d).conflict = (Cardinality(offsets) > 1)
      /\ Addressed(r, d).findings = UNION {found[n].findings : n \in DOMAIN inputs}
  BY DEF Addressed
<1>2. ~Addressed(r, d).conflict /\ Addressed(r, d).findings = {}
  BY Zenon DEF AddressHolds, When
<1>3. ASSUME NEW n \in DOMAIN inputs
      PROVE  /\ found[n].offset \in 0..MaxProtocolOffset
             /\ Denotes(inputs[n], area, found[n].offset)
             /\ found[n].findings = {}
  <2>1. found[n].findings = {} BY <1>1, <1>2
  <2>2. found[n] = Resolve(inputs[n].raw, inputs[n].convention, area) OBVIOUS
  <2> HIDE DEF inputs, area, found
  <2>3. Resolve(inputs[n].raw, inputs[n].convention, area).findings = {} BY <2>1, <2>2
  <2> QED BY <2>1, <2>2, <2>3, ClaimDenotes
<1>4. resolved = DOMAIN inputs
  <2> SUFFICES ASSUME NEW n \in DOMAIN inputs PROVE found[n].offset # None OBVIOUS
  <2>1. found[n].offset \in 0..MaxProtocolOffset BY <1>3
  <2> HIDE DEF found
  <2> QED BY <2>1, OffsetIsNumber
<1>5. 1 \in DOMAIN inputs /\ DOMAIN inputs \subseteq Nat \ {0} BY ClaimsNumbered
<1>6. primary \in DOMAIN inputs
  <2> HIDE DEF inputs, found
  <2>1. \A k \in resolved : 1 <= k BY <1>4, <1>5
  <2> QED BY <1>4, <1>5, <2>1
<1>7. area \in Areas
  <2> HIDE DEF area, inputs
  <2>1. found[1].findings = {} BY <1>3, <1>5
  <2>2. Resolve(inputs[1].raw, inputs[1].convention, area).findings = {} BY <1>5, <2>1
  <2> QED BY <2>2 DEF Resolve
<1>8. ASSUME NEW k \in DOMAIN inputs PROVE found[k].offset = found[primary].offset
  <2>1. offsets \subseteq 0..MaxProtocolOffset BY <1>3, <1>4
  <2>2. found[k].offset \in offsets /\ found[primary].offset \in offsets BY <1>4, <1>6
  <2>3. ~(Cardinality(offsets) > 1) BY <1>1, <1>2
  <2> HIDE DEF offsets, primary, found
  <2> QED BY <2>1, <2>2, <2>3, OneOffset
<1> HIDE DEF inputs, found, primary, area
<1>9. Addressed(r, d).offset \in 0..MaxProtocolOffset BY <1>1, <1>3, <1>6
<1>10. \A k \in DOMAIN inputs : Denotes(inputs[k], area, Addressed(r, d).offset)
  BY <1>1, <1>3, <1>8
<1> QED BY <1>7, <1>9, <1>10 DEF area, inputs

\* A record that says it cannot be read, or leaves it open.
Denied(r) == r.access_readable = FALSE \/ r.access = "write-only"
LeftOpen(r) == r.access \notin Accesses /\ r.access_columns /\ r.access_readable # TRUE

LEMMA OpenAccess ==
    ASSUME NEW r, LeftOpen(r), r.access_readable # FALSE
    PROVE  StatedAccess(r) = None /\ Readable(r) = None
<1>1. Readable(r) = None BY DEF LeftOpen, Readable, Flag
<1>2. None \notin BOOLEAN BY EmptyAssumption
<1> QED BY <1>1, <1>2 DEF StatedAccess, LeftOpen

\* What denies a record, or leaves its access open, is a hold of it.
LEMMA DenialHeld ==
    ASSUME NEW r, NEW d,
           \/ Denied(r) \/ LeftOpen(r) \/ r.access_readable = Invalid
           \/ r.include = FALSE \/ r.reviewed = FALSE
    PROVE  RecordHolds(r, d) # {}
<1>1. CASE r.access = "write-only"
  <2>1. StatedAccess(r) = "write-only" BY <1>1 DEF StatedAccess, Accesses
  <2>2. <<"point.write-only-not-readable", "access">> \in AccessHolds(r)
    BY <2>1, Zenon DEF AccessHolds, When
  <2> QED BY <2>2, Zenon DEF RecordHolds
<1>2. CASE r.access_readable = FALSE
  <2>1. Readable(r) = FALSE BY <1>2 DEF Readable, Flag
  <2>2. CASE StatedAccess(r) = "write-only"
    <3>1. <<"point.write-only-not-readable", "access">> \in AccessHolds(r)
      BY <2>2, Zenon DEF AccessHolds, When
    <3> QED BY <3>1, Zenon DEF RecordHolds
  <2>3. CASE StatedAccess(r) # "write-only"
    <3>1. <<"point.not-readable", "access_readable">> \in AccessHolds(r)
      BY <2>1, <2>3, Zenon DEF AccessHolds, When
    <3> QED BY <3>1, Zenon DEF RecordHolds
  <2> QED BY <2>2, <2>3, Zenon
<1>3. CASE LeftOpen(r) /\ r.access_readable # FALSE
  <2>1. StatedAccess(r) = None /\ Readable(r) = None /\ r.access_columns
    BY <1>3, OpenAccess DEF LeftOpen
  <2>2. <<"point.access-unresolved", "access">> \in AccessHolds(r)
    BY <2>1, Zenon DEF AccessHolds, When
  <2> QED BY <2>2, Zenon DEF RecordHolds
<1>4. CASE r.access_readable = Invalid
  <2>1. <<"point.access-readable-invalid", "access_readable">> \in AccessHolds(r)
    BY <1>4, Zenon DEF AccessHolds, When
  <2> QED BY <2>1, Zenon DEF RecordHolds
<1>5. CASE r.include = FALSE
  <2>1. <<"point.source-excluded", "include">> \in RowHolds(r)
    BY <1>5, Zenon DEF RowHolds, When
  <2> QED BY <2>1, Zenon DEF RecordHolds
<1>6. CASE r.reviewed = FALSE
  <2>1. <<"point.source-review-incomplete", "reviewed">> \in RowHolds(r)
    BY <1>6, Zenon DEF RowHolds, When
  <2> QED BY <2>1, Zenon DEF RecordHolds
<1> QED BY <1>1, <1>2, <1>3, <1>4, <1>5, <1>6, Zenon DEF Denied

\* Such a record makes a write-only point, without a function that reads but
\* the one that the record or a default names.
LEMMA DenialUnread ==
    ASSUME NEW r, NEW d, Denied(r) \/ LeftOpen(r)
    PROVE  /\ AccessOf(r) = "write-only"
           /\ FunctionOf(r, d) \in {None, Given(r, d, "function_code")}
<1>1. AccessOf(r) = "write-only"
  <2>1. CASE r.access_readable = FALSE
    BY <2>1 DEF Readable, Flag, ReadBlocked, AccessOf
  <2>2. CASE r.access = "write-only"
    <3>1. StatedAccess(r) = "write-only" BY <2>2 DEF StatedAccess, Accesses
    <3> QED BY <3>1, Zenon DEF AccessOf
  <2>3. CASE LeftOpen(r) /\ r.access_readable # FALSE
    <3>1. StatedAccess(r) = None /\ Readable(r) = None /\ r.access_columns
      BY <2>3, OpenAccess DEF LeftOpen
    <3>2. Readable(r) # TRUE BY <3>1, EmptyAssumption
    <3>3. ReadBlocked(r) BY <3>1, <3>2, Zenon DEF ReadBlocked
    <3> QED BY <3>3, Zenon DEF AccessOf
  <2> QED BY <2>1, <2>2, <2>3, Zenon DEF Denied
<1> QED BY <1>1, Zenon DEF FunctionOf

\* A byte order is confirmed by nothing that denies it.
LEMMA OrderEarned ==
    ASSUME NEW r, NEW d, OrderConfirmed(r, d)
    PROVE  /\ r.byte_order_status # FALSE
           /\ r.byte_order_confirmed \notin {FALSE, Invalid}
<1>1. CASE r.byte_order_confirmed = None
  BY <1>1, UnreadAssumption, EmptyAssumption DEF OrderConfirmed
<1>2. CASE r.byte_order_confirmed # None
  BY <1>2 DEF OrderConfirmed, Stated
<1> QED BY <1>1, <1>2

\* A scale is one that the record or a default gives, and no rule contradicts.
LEMMA ScaleEarned ==
    ASSUME NEW r, NEW d, ScaleOf(r, d) # None
    PROVE  /\ ScaleOf(r, d) \in {r.scale, d.scale}
           /\ \A c \in r.scale_claims : c.factor = ScaleOf(r, d)
<1>1. /\ ~ScaleWithheld(r, d) /\ ScaleOf(r, d) = RawScale(r, d)
      /\ RawScale(r, d) \notin {None, Invalid}
  BY DEF ScaleOf, Numeric
<1>2. RawScale(r, d) = Given(r, d, "scale") BY <1>1 DEF RawScale
<1>3. Given(r, d, "scale") \in {r.scale, d.scale} BY DEF Given
<1>4. ASSUME NEW c \in r.scale_claims PROVE c.factor = ScaleOf(r, d)
  <2>1. {k.factor : k \in r.scale_claims} = {r.scale} /\ r.scale # None
    BY <1>1, <1>4, Zenon DEF ScaleWithheld
  <2>2. c.factor = r.scale BY <2>1
  <2> QED BY <1>1, <1>2, <2>1, <2>2 DEF Given
<1> QED BY <1>1, <1>2, <1>3, <1>4

\* Where a value of a point comes from, if its record leaves the field empty.
Traced == {"route_id", "unit_id", "area", "datatype", "byte_order", "bit_order",
           "function_code"}
LEMMA ValueTraced ==
    ASSUME NEW r, NEW d, NEW f \in Traced, Point(r, d)[f] # None, r[f] = None
    PROVE  f \in Assumed(r, d) \/ (f = "function_code" /\ Point(r, d)[f] \in ReadCodes(r))
<1>1. CASE d[f] # None
  <2>1. Defaulted(r, d, f) BY <1>1 DEF Defaulted
  <2> QED BY <2>1, Zenon DEF Assumed, Traced
<1>2. CASE d[f] = None
  <2>1. Given(r, d, f) = None BY <1>2 DEF Given
  <2>2. CASE f = "area"
    <3>1. AreaOf(r, d) # None BY <2>2 DEF Point
    <3> QED BY <2>1, <2>2, <3>1, Zenon DEF Assumed
  <2>3. CASE f = "function_code"
    <3>1. Point(r, d)[f] = FunctionOf(r, d) BY <2>3 DEF Point
    <3>2. CASE FunctionFromList(r, d)
      <4>1. CASE AreaCode(r, d) # None /\ AreaCode(r, d) \in ReadCodes(r)
        <5>1. FunctionOf(r, d) \in {None, AreaCode(r, d)}
          BY <2>1, <2>3, <4>1, Zenon DEF FunctionOf
        <5> QED BY <2>3, <3>1, <4>1, <5>1
      <4>2. CASE /\ ~(AreaCode(r, d) # None /\ AreaCode(r, d) \in ReadCodes(r))
                 /\ Cardinality(ReadCodes(r)) = 1
        <5>1. ReadCodes(r) # {} BY <4>2, FS_EmptySet
        <5>2. (CHOOSE c \in ReadCodes(r) : TRUE) \in ReadCodes(r) BY <5>1
        <5>3. FunctionOf(r, d) \in {None, CHOOSE c \in ReadCodes(r) : TRUE}
          BY <2>1, <2>3, <4>2, Zenon DEF FunctionOf
        <5> QED BY <2>3, <3>1, <5>2, <5>3
      <4> QED BY <3>2, <4>1, <4>2, Zenon DEF FunctionFromList
    <3>3. CASE ~FunctionFromList(r, d)
      BY <2>1, <2>3, <3>1, <3>3, Zenon DEF Assumed
    <3> QED BY <3>2, <3>3
  <2>4. CASE f = "byte_order"
    <3>1. Point(r, d)[f] = OrderOf(r, d) BY <2>4 DEF Point
    <3>2. None \notin Layout /\ None \notin LayoutNames BY EmptyAssumption, Zenon
    <3>3. ByteOrder(None, SpanOf(r, d)) = None BY <3>2, Zenon DEF ByteOrder
    <3> QED BY <2>1, <2>4, <3>1, <3>3, Zenon DEF OrderOf
  <2>5. CASE f \in {"route_id", "bit_order"}
    <3>1. Point(r, d)[f] = Given(r, d, f) BY <2>5 DEF Point
    <3> QED BY <2>1, <3>1
  <2>6. CASE f = "unit_id"
    <3>1. Point(r, d)[f] = UnitOf(r, d) BY <2>6 DEF Point
    <3> QED BY <2>1, <2>6, <3>1, Zenon DEF UnitOf
  <2>7. CASE f = "datatype"
    <3>1. Point(r, d)[f] = TypeOf(r, d) BY <2>7 DEF Point
    <3> QED BY <2>1, <2>7, <3>1, Zenon DEF TypeOf
  <2> QED BY <2>2, <2>3, <2>4, <2>5, <2>6, <2>7 DEF Traced
<1> QED BY <1>1, <1>2

\* A point that has kept what its record made it, but for its status.
Kept(p, r, d) == p = [Point(r, d) EXCEPT !.status = p.status]

LEMMA KeptFields ==
    ASSUME NEW r, NEW d, NEW p, Kept(p, r, d)
    PROVE  /\ p.area = AreaOf(r, d) /\ p.protocol_offset = Addressed(r, d).offset
           /\ p.access = AccessOf(r) /\ p.function_code = FunctionOf(r, d)
           /\ p.byte_order_confirmed = OrderConfirmed(r, d) /\ p.scale = ScaleOf(r, d)
           /\ p.logical_point_id = IdOf(r, d)
           /\ \A f \in Traced : p[f] = Point(r, d)[f]
<1> DEFINE point == Point(r, d)
<1>1. /\ DOMAIN point = {"route_id", "unit_id", "area", "protocol_offset", "datatype",
             "word_span", "byte_order", "byte_order_confirmed", "bit_order", "access",
             "function_code", "scale", "logical_point_id", "status"}
      /\ point = [f \in DOMAIN point |-> point[f]]
  BY DEF Point
<1>2. /\ point.area = AreaOf(r, d) /\ point.protocol_offset = Addressed(r, d).offset
      /\ point.access = AccessOf(r) /\ point.function_code = FunctionOf(r, d)
      /\ point.byte_order_confirmed = OrderConfirmed(r, d) /\ point.scale = ScaleOf(r, d)
      /\ point.logical_point_id = IdOf(r, d)
  BY DEF Point
<1>3. p = [point EXCEPT !.status = p.status] BY DEF Kept
<1> HIDE DEF point
<1>4. \A f \in DOMAIN point : f # "status" => p[f] = point[f] BY <1>3
<1> QED BY <1>1, <1>2, <1>4 DEF Traced, point

LEMMA KeptPending ==
    ASSUME NEW r, NEW d, NEW p, Kept(p, r, d)
    PROVE  LET q == [p EXCEPT !.status = "pending"] IN
           /\ Kept(q, r, d) /\ q.status = "pending"
           /\ q.logical_point_id = p.logical_point_id
<1> DEFINE point == Point(r, d)
           q == [p EXCEPT !.status = "pending"]
<1>1. /\ {"status", "logical_point_id"} \subseteq DOMAIN point
      /\ point = [f \in DOMAIN point |-> point[f]]
  BY DEF Point
<1>2. p = [point EXCEPT !.status = p.status] BY DEF Kept
<1> HIDE DEF point
<1>3. DOMAIN p = DOMAIN point /\ p = [f \in DOMAIN p |-> p[f]] BY <1>1, <1>2
<1>4. q.status = "pending" /\ q.logical_point_id = p.logical_point_id BY <1>1, <1>3
<1>5. q = [point EXCEPT !.status = "pending"] BY <1>1, <1>2, <1>3
<1> QED BY <1>4, <1>5 DEF Kept, point

-----------------------------------------------------------------------------
(***************************************************************************)
(* The inductive invariant: each point is what its record makes of it, but *)
(* for a status that only falls from confirmed to pending; a point that is *)
(* pending has a hold that names it.  When the points have been compared,  *)
(* there is one for each record.                                           *)
(***************************************************************************)
Made(n) ==
    LET r == source.records[n] IN
    /\ Kept(points[n], r, defaults) /\ assumptions[n] = Assumed(r, defaults)
    /\ points[n].status \in {"confirmed", "pending"}
Justified(n) ==
    /\ points[n].status = "confirmed" => RecordHolds(source.records[n], defaults) = {}
    /\ points[n].status = "pending" => \E h \in holds : points[n].logical_point_id \in h.ids
Candidates ==
    {[Point(source.records[n], defaults) EXCEPT !.status = t] :
        n \in 1..Len(source.records), t \in {"confirmed", "pending"}}
Assumables == {Assumed(source.records[n], defaults) : n \in 1..Len(source.records)}
UniqueIds ==
    \A n, k \in Confirmed :
        (n # k /\ source.records[n].logical_point_id = None) =>
            points[n].logical_point_id # points[k].logical_point_id

TypeInv ==
    /\ source \in Sources /\ collated \in BOOLEAN
    /\ points \in Seq(Candidates) /\ assumptions \in Seq(Assumables)
    /\ Len(points) <= Len(source.records) /\ Len(assumptions) = Len(points)
IInv ==
    /\ TypeInv
    /\ \A n \in DOMAIN points : Made(n) /\ Justified(n)
    /\ collated => Len(points) = Len(source.records) /\ UniqueIds

LEMMA KeptCandidate ==
    ASSUME NEW n \in 1..Len(source.records), NEW p,
           Kept(p, source.records[n], defaults), p.status \in {"confirmed", "pending"}
    PROVE  p \in Candidates
<1>1. p = [Point(source.records[n], defaults) EXCEPT !.status = p.status] BY DEF Kept
<1> QED BY <1>1 DEF Candidates

LEMMA InitIInv == Init => IInv
<1> SUFFICES ASSUME Init PROVE IInv OBVIOUS
<1>1. Len(source.records) \in Nat BY RecordsAssumption DEF Init
<1>2. points = <<>> /\ assumptions = <<>> /\ collated = FALSE /\ source \in Sources
  BY DEF Init
<1>3. Len(points) = 0 /\ Len(assumptions) = 0 /\ DOMAIN points = {} BY <1>2
<1>4. points \in Seq(Candidates) /\ assumptions \in Seq(Assumables) BY <1>2, EmptySeq
<1>5. Len(points) <= Len(source.records) BY <1>1, <1>3
<1>6. TypeInv BY <1>2, <1>3, <1>4, <1>5 DEF TypeInv
<1> QED BY <1>2, <1>3, <1>6 DEF IInv

LEMMA NormalizeRecordIInv == IInv /\ NormalizeRecord => IInv'
<1> SUFFICES ASSUME IInv, NormalizeRecord PROVE IInv' OBVIOUS
<1> DEFINE n == Len(points) + 1
           r == source.records[n]
           p == Point(r, defaults)
<1>1. /\ Len(points) < Len(source.records)
      /\ points' = Append(points, p)
      /\ holds' = holds \cup {Finding(h[1], {IdOf(r, defaults)}, h[2]) :
                                  h \in RecordHolds(r, defaults)}
      /\ assumptions' = Append(assumptions, Assumed(r, defaults))
      /\ source' = source /\ defaults' = defaults /\ collated' = collated
  BY DEF NormalizeRecord
<1>2. /\ source \in Sources /\ points \in Seq(Candidates) /\ assumptions \in Seq(Assumables)
      /\ Len(assumptions) = Len(points) /\ collated \in BOOLEAN
  BY DEF IInv, TypeInv
<1>3. Len(source.records) \in Nat /\ Len(points) \in Nat
  BY <1>2, RecordsAssumption, LenProperties
<1>4. n \in 1..Len(source.records) BY <1>1, <1>3
<1>5. /\ p.status = IF RecordHolds(r, defaults) = {} THEN "confirmed" ELSE "pending"
      /\ p.logical_point_id = IdOf(r, defaults) /\ Kept(p, r, defaults)
  BY DEF Point, Kept
<1>6. p \in Candidates
  <2>1. p.status \in {"confirmed", "pending"} BY <1>5
  <2> HIDE DEF p
  <2> QED BY <1>4, <1>5, <2>1, KeptCandidate
<1>7. Assumed(r, defaults) \in Assumables BY <1>4 DEF Assumables
<1> HIDE DEF p, r
<1>8. /\ points' \in Seq(Candidates) /\ Len(points') = Len(points) + 1
      /\ DOMAIN points' = DOMAIN points \cup {n} /\ DOMAIN points = 1..Len(points)
      /\ \A k \in DOMAIN points : points'[k] = points[k]
      /\ points'[n] = p
  BY <1>1, <1>2, <1>6
<1>9. /\ assumptions' \in Seq(Assumables) /\ Len(assumptions') = Len(points')
      /\ \A k \in DOMAIN points : assumptions'[k] = assumptions[k]
      /\ assumptions'[n] = Assumed(r, defaults)
  BY <1>1, <1>2, <1>7, <1>8
<1>10. TypeInv'
  <2>1. Candidates' = Candidates /\ Assumables' = Assumables
    BY <1>1 DEF Candidates, Assumables
  <2>2. Len(points') <= Len(source.records) BY <1>4, <1>8
  <2> QED BY <1>1, <1>2, <1>8, <1>9, <2>1, <2>2 DEF TypeInv
<1>11. ASSUME NEW k \in DOMAIN points PROVE (Made(k) /\ Justified(k))'
  <2>1. Made(k) /\ Justified(k) BY DEF IInv
  <2>2. holds \subseteq holds' BY <1>1
  <2> QED BY <1>1, <1>8, <1>9, <2>1, <2>2 DEF Made, Justified
<1>12. ASSUME NEW k, k = n PROVE (Made(k) /\ Justified(k))'
  <2>1. /\ points'[k] = p /\ assumptions'[k] = Assumed(r, defaults)
        /\ source' = source /\ defaults' = defaults /\ source.records[k] = r
    BY <1>1, <1>8, <1>9, <1>12 DEF r
  <2>2. Kept(p, r, defaults) /\ p.status \in {"confirmed", "pending"} BY <1>5
  <2>3. p.status = "confirmed" => RecordHolds(r, defaults) = {} BY <1>5
  <2>4. p.status = "pending" => \E h \in holds' : p.logical_point_id \in h.ids
    <3> SUFFICES ASSUME p.status = "pending"
                 PROVE  \E h \in holds' : p.logical_point_id \in h.ids
      OBVIOUS
    <3>1. PICK h \in RecordHolds(r, defaults) : TRUE BY <1>5
    <3>2. Finding(h[1], {IdOf(r, defaults)}, h[2]) \in holds' BY <1>1, <3>1
    <3>3. p.logical_point_id \in Finding(h[1], {IdOf(r, defaults)}, h[2]).ids
      BY <1>5 DEF Finding
    <3> QED BY <3>2, <3>3
  <2>5. Made(k)' BY <2>1, <2>2, Zenon DEF Made
  <2>6. Justified(k)' BY <2>1, <2>3, <2>4, Zenon DEF Justified
  <2> QED BY <2>5, <2>6
<1>13. ~collated
  <2>1. Len(points) # Len(source.records) BY <1>1, <1>3
  <2> QED BY <2>1 DEF IInv
<1>14. \A k \in DOMAIN points' : (Made(k) /\ Justified(k))'
  <2> SUFFICES ASSUME NEW k \in DOMAIN points' PROVE (Made(k) /\ Justified(k))' OBVIOUS
  <2>1. k \in DOMAIN points \/ k = n BY <1>8, Zenon
  <2> QED BY <1>11, <1>12, <2>1
<1>15. ~collated' BY <1>1, <1>13
<1> QED BY <1>10, <1>14, <1>15, Zenon DEF IInv
LEMMA CollateIInv == IInv /\ Collate => IInv'
<1> SUFFICES ASSUME IInv, Collate PROVE IInv' OBVIOUS
<1> DEFINE found ==
        {Finding("point.generated-logical-id-collision", {id}, "logical_point_id") :
            id \in Collisions}
        \cup {Finding(h.code, {points[n].logical_point_id : n \in h.ids}, h.field) :
                 h \in SimulatorFindings(points, source.profile)}
        id(n) == points[n].logical_point_id
        Struck(n) == \E h \in found : id(n) \in h.ids
<1>1. /\ Len(points) = Len(source.records)
      /\ holds' = holds \cup found
      /\ points' = [n \in DOMAIN points |-> IF Struck(n)
                        THEN [points[n] EXCEPT !.status = "pending"] ELSE points[n]]
      /\ collated' = TRUE
      /\ source' = source /\ defaults' = defaults /\ assumptions' = assumptions
  BY DEF Collate
<1>2. ASSUME NEW i \in Collisions PROVE \E h \in found : i \in h.ids
  <2> DEFINE h == Finding("point.generated-logical-id-collision", {i}, "logical_point_id")
  <2>1. h \in found BY <1>2
  <2>2. h.ids = {i} BY DEF Finding
  <2> HIDE DEF h, found
  <2> QED BY <2>1, <2>2
<1> HIDE DEF found
<1>3. /\ source \in Sources /\ points \in Seq(Candidates) /\ assumptions \in Seq(Assumables)
      /\ Len(assumptions) = Len(points) /\ collated \in BOOLEAN
      /\ Len(points) \in Nat /\ DOMAIN points = 1..Len(points)
      /\ Len(points) <= Len(source.records)
  BY LenProperties DEF IInv, TypeInv
<1>4. ASSUME NEW n \in DOMAIN points
      PROVE  /\ points'[n] \in Candidates /\ (Made(n) /\ Justified(n))'
             /\ points'[n].logical_point_id = id(n)
             /\ points'[n].status = "confirmed" => ~Struck(n)
  <2> DEFINE r == source.records[n]
             q == [points[n] EXCEPT !.status = "pending"]
  <2>1. Made(n) /\ Justified(n) /\ points[n] \in Candidates
    BY <1>3 DEF IInv
  <2>2. Kept(points[n], r, defaults) BY <2>1 DEF Made
  <2>3. Kept(q, r, defaults) /\ q.status = "pending" /\ q.logical_point_id = id(n)
    BY <2>2, KeptPending
  <2>4. q \in Candidates
    <3>1. n \in 1..Len(source.records) BY <1>1, <1>3
    <3> HIDE DEF q
    <3> QED BY <2>3, <3>1, KeptCandidate
  <2> HIDE DEF q
  <2>5. CASE Struck(n)
    <3>1. points'[n] = q BY <1>1, <2>5 DEF q
    <3>2. Made(n)' BY <1>1, <2>1, <2>3, <3>1, Zenon DEF Made, r
    <3>3. Justified(n)'
      <4>1. \E h \in holds' : q.logical_point_id \in h.ids BY <1>1, <2>3, <2>5
      <4> QED BY <2>3, <3>1, <4>1 DEF Justified
    <3> QED BY <2>3, <2>4, <3>1, <3>2, <3>3
  <2>6. CASE ~Struck(n)
    <3>1. points'[n] = points[n] BY <1>1, <2>6
    <3>2. holds \subseteq holds' BY <1>1
    <3>3. (Made(n) /\ Justified(n))' BY <1>1, <2>1, <3>1, <3>2 DEF Made, Justified
    <3> QED BY <2>1, <2>6, <3>1, <3>3
  <2> QED BY <2>5, <2>6
<1>5. points' \in Seq(Candidates) /\ Len(points') = Len(points)
      /\ DOMAIN points' = DOMAIN points
  <2>1. points' \in [1..Len(points) -> Candidates] BY <1>1, <1>3, <1>4
  <2>2. points' \in Seq(Candidates) BY <1>3, <2>1, SeqDef
  <2>3. DOMAIN points' = 1..Len(points) BY <2>1
  <2>4. DOMAIN points' = 1..Len(points') /\ Len(points') \in Nat BY <2>2, LenProperties
  <2> QED BY <1>3, <2>2, <2>3, <2>4
<1>6. TypeInv'
  <2>1. Candidates' = Candidates /\ Assumables' = Assumables
    BY <1>1 DEF Candidates, Assumables
  <2> QED BY <1>1, <1>3, <1>5, <2>1 DEF TypeInv
<1>7. UniqueIds'
  <2> SUFFICES ASSUME NEW n \in Confirmed', NEW k \in Confirmed', n # k,
                      source.records[n].logical_point_id = None,
                      points'[n].logical_point_id = points'[k].logical_point_id
               PROVE  FALSE
    BY <1>1, Zenon DEF UniqueIds
  <2>1. n \in DOMAIN points /\ k \in DOMAIN points /\ points'[n].status = "confirmed"
    BY <1>5 DEF Confirmed
  <2>2. id(n) = id(k) /\ ~Struck(n) BY <1>4, <2>1
  <2>3. id(n) \in Generated BY <2>1 DEF Generated
  <2>4. Cardinality({m \in DOMAIN points : id(m) = id(n)}) > 1
    <3> DEFINE S == {m \in DOMAIN points : id(m) = id(n)}
    <3>1. IsFiniteSet(DOMAIN points) BY <1>3, FS_Interval
    <3>2. IsFiniteSet(S) BY <3>1, FS_Subset
    <3>3. n \in S /\ k \in S BY <2>1, <2>2
    <3> HIDE DEF S
    <3>4. Cardinality(S) > 1 BY <3>2, <3>3, TwoElements
    <3> QED BY <3>4 DEF S
  <2>5. id(n) \in Collisions BY <2>3, <2>4, Zenon DEF Collisions
  <2> QED BY <1>2, <2>2, <2>5
<1> QED BY <1>1, <1>4, <1>5, <1>6, <1>7 DEF IInv

\* The inductive invariant holds of every map in the making.
THEOREM Invariant == Spec => []IInv
<1>1. IInv /\ UNCHANGED vars => IInv'
  <2> SUFFICES ASSUME IInv, UNCHANGED vars PROVE IInv' OBVIOUS
  <2> USE DEF vars
  <2>1. TypeInv' BY DEF IInv, TypeInv, Candidates, Assumables
  <2>2. UniqueIds <=> UniqueIds' BY DEF UniqueIds, Confirmed
  <2>3. \A n : (Made(n) <=> Made(n)') /\ (Justified(n) <=> Justified(n)')
    BY DEF Made, Justified
  <2> QED BY <2>1, <2>2, <2>3 DEF IInv
<1>2. IInv /\ [Next]_vars => IInv' BY <1>1, NormalizeRecordIInv, CollateIInv DEF Next
<1> QED BY InitIInv, <1>2, PTL DEF Spec
-----------------------------------------------------------------------------
\* Every address written for a confirmed point denotes its register, whatever
\* conventions the source mixes, unless it stands in an address object beside a
\* stronger form.
LEMMA IInvOneRegister == IInv => OneRegister
<1> SUFFICES ASSUME IInv, NEW n \in Confirmed
             PROVE  LET p == points[n]  r == source.records[n]
                    IN /\ \A c \in Writings(r, defaults) :
                              PassedOver(c, r) \/ Denotes(c, p.area, p.protocol_offset)
                       /\ Reference(p.area, p.protocol_offset)
                              \in References(p.area, p.protocol_offset)
  BY Zenon DEF OneRegister
<1> DEFINE r == source.records[n]
<1>1. n \in DOMAIN points /\ points[n].status = "confirmed" BY DEF Confirmed
<1>2. Kept(points[n], r, defaults) /\ RecordHolds(r, defaults) = {}
  BY <1>1 DEF IInv, Made, Justified
<1>3. AddressHolds(Addressed(r, defaults)) = {} BY <1>2, Zenon DEF RecordHolds
<1>4. /\ points[n].area = AreaOf(r, defaults)
      /\ points[n].protocol_offset = Addressed(r, defaults).offset
  BY <1>2, KeptFields
<1> HIDE DEF r
<1>5. LET offset == Addressed(r, defaults).offset  inputs == AddressInputs(r, defaults) IN
      /\ AreaOf(r, defaults) \in Areas /\ offset \in 0..MaxProtocolOffset
      /\ \A k \in DOMAIN inputs : Denotes(inputs[k], AreaOf(r, defaults), offset)
  BY <1>3, AddressSettled, Zenon
<1>6. Reference(AreaOf(r, defaults), Addressed(r, defaults).offset)
         \in References(AreaOf(r, defaults), Addressed(r, defaults).offset)
  BY <1>5, ReferenceShown, Zenon
<1>7. ASSUME NEW c \in Writings(r, defaults), ~PassedOver(c, r)
      PROVE  Denotes(c, AreaOf(r, defaults), Addressed(r, defaults).offset)
  <2>1. PICK k \in DOMAIN AddressInputs(r, defaults) : AddressInputs(r, defaults)[k] = c
    BY <1>7, ClaimsNumbered DEF Has
  <2> QED BY <1>5, <2>1, Zenon
<1> QED BY <1>4, <1>6, <1>7, Zenon DEF r

THEOREM OneRegisterAlways == Spec => []OneRegister
BY Invariant, IInvOneRegister, PTL

\* A record that denies its point, or leaves open whether it can be read, never
\* makes a confirmed one, nor one that the planner would read.
LEMMA IInvDenialsHold == IInv => DenialsHold
<1> SUFFICES ASSUME IInv, NEW n \in DOMAIN points
             PROVE  LET r == source.records[n]
                        denies == \/ r.access = "write-only"
                                  \/ r.access_readable \in {FALSE, Invalid}
                                  \/ r.include = FALSE \/ r.reviewed = FALSE
                        open == /\ r.access \notin Accesses /\ r.access_columns
                                /\ r.access_readable # TRUE
                    IN /\ denies \/ open => n \notin Confirmed
                       /\ r.access_readable = FALSE \/ r.access = "write-only" \/ open =>
                             /\ points[n].access = "write-only"
                             /\ points[n].function_code
                                   \in {None, Given(r, defaults, "function_code")}
  BY Zenon DEF DenialsHold
<1> DEFINE r == source.records[n]
<1>1. /\ Kept(points[n], r, defaults)
      /\ points[n].status = "confirmed" => RecordHolds(r, defaults) = {}
  BY DEF IInv, Made, Justified
<1>2. /\ points[n].access = AccessOf(r)
      /\ points[n].function_code = FunctionOf(r, defaults)
  BY <1>1, KeptFields
<1> HIDE DEF r
<1>3. \/ Denied(r) \/ LeftOpen(r) \/ r.access_readable = Invalid
      \/ r.include = FALSE \/ r.reviewed = FALSE
      => n \notin Confirmed
  BY <1>1, DenialHeld, Zenon DEF Confirmed
<1>4. Denied(r) \/ LeftOpen(r) =>
         /\ AccessOf(r) = "write-only"
         /\ FunctionOf(r, defaults) \in {None, Given(r, defaults, "function_code")}
  BY DenialUnread, Zenon
<1>5. LeftOpen(r) <=> /\ r.access \notin Accesses /\ r.access_columns
                      /\ r.access_readable # TRUE
  BY Zenon DEF LeftOpen
<1>6. Denied(r) <=> r.access_readable = FALSE \/ r.access = "write-only"
  BY Zenon DEF Denied
<1> QED BY <1>2, <1>3, <1>4, <1>5, <1>6, Zenon DEF r

THEOREM DenialsHoldAlways == Spec => []DenialsHold
BY Invariant, IInvDenialsHold, PTL

\* No byte order, scale or other value of a point is one that no record and no
\* default gives, and no two confirmed points share a generated id.
LEMMA IInvNothingInvented == IInv => NothingInvented
<1> SUFFICES ASSUME IInv PROVE NothingInvented OBVIOUS
<1>1. collated => UniqueIds BY DEF IInv
<1>2. ASSUME NEW n \in DOMAIN points
      PROVE  LET r == source.records[n]  p == points[n] IN
             /\ p.byte_order_confirmed => /\ r.byte_order_status # FALSE
                                          /\ r.byte_order_confirmed \notin {FALSE, Invalid}
             /\ p.scale # None => /\ p.scale \in {r.scale, defaults.scale}
                                  /\ \A c \in r.scale_claims : c.factor = p.scale
             /\ \A f \in Traced : (p[f] # None /\ r[f] = None) =>
                    \/ f \in assumptions[n]
                    \/ f = "function_code" /\ p[f] \in ReadCodes(r)
  <2> DEFINE r == source.records[n]
  <2>1. Kept(points[n], r, defaults) /\ assumptions[n] = Assumed(r, defaults)
    BY DEF IInv, Made
  <2>2. /\ points[n].byte_order_confirmed = OrderConfirmed(r, defaults)
        /\ points[n].scale = ScaleOf(r, defaults)
        /\ \A f \in Traced : points[n][f] = Point(r, defaults)[f]
    BY <2>1, KeptFields
  <2> HIDE DEF r
  <2>3. OrderConfirmed(r, defaults) => /\ r.byte_order_status # FALSE
                                       /\ r.byte_order_confirmed \notin {FALSE, Invalid}
    BY OrderEarned, Zenon
  <2>4. ScaleOf(r, defaults) # None =>
           /\ ScaleOf(r, defaults) \in {r.scale, defaults.scale}
           /\ \A c \in r.scale_claims : c.factor = ScaleOf(r, defaults)
    BY ScaleEarned, Zenon
  <2>5. \A f \in Traced : (Point(r, defaults)[f] # None /\ r[f] = None) =>
           \/ f \in Assumed(r, defaults)
           \/ f = "function_code" /\ Point(r, defaults)[f] \in ReadCodes(r)
    BY ValueTraced, Zenon
  <2> QED BY <2>1, <2>2, <2>3, <2>4, <2>5, Zenon DEF r
<1> QED BY <1>1, <1>2, Zenon DEF NothingInvented, Traced, UniqueIds

THEOREM NothingInventedAlways == Spec => []NothingInvented
BY Invariant, IInvNothingInvented, PTL

-----------------------------------------------------------------------------
(***************************************************************************)
(* The review of a finished map.                                           *)
(***************************************************************************)

\* A finding that names no point, or one of the map, is put to the reviewer,
\* together with the points of the map that it names.
LEMMA PutToReviewer ==
    ASSUME NEW resolved, NEW h \in Findings(resolved), h.ids = {} \/ h.ids \cap Items # {}
    PROVE  \E g \in DecisionGroups(resolved) : Items \cap h.ids \subseteq g.ids
<1> DEFINE found == Findings(resolved)
           Cause(k) == [scope |-> IF k.ids = {} THEN "artifact" ELSE "points",
                        code |-> k.code, field |-> k.field]
           Group(c) == [cause |-> c,
                        ids |-> Items \cap UNION {k.ids : k \in {g \in found : Cause(g) = c}}]
<1>1. DecisionGroups(resolved) =
         {Group(c) : c \in {Cause(k) : k \in {g \in found : g.ids = {} \/ g.ids \cap Items # {}}}}
  BY DEF DecisionGroups
<1> HIDE DEF found, Cause
<1>2. h \in found BY DEF found
<1>3. Group(Cause(h)) \in DecisionGroups(resolved) BY <1>1, <1>2
<1>4. Items \cap h.ids \subseteq Group(Cause(h)).ids BY <1>2
<1> QED BY <1>3, <1>4

LEMMA IInvNothingWavedThrough == IInv => NothingWavedThrough
<1> SUFFICES ASSUME IInv, NEW resolved
             PROVE  LET asked == UNION {g.ids : g \in DecisionGroups(resolved)} IN
                    /\ \A n \in DOMAIN points :
                        \/ \E h \in holds \ resolved : points[n].logical_point_id \in h.ids
                        \/ PointFindings(n, points[n]) # {}
                        => points[n].logical_point_id \in asked
                    /\ Ready(resolved) =>
                        /\ OpenRows = {}
                        /\ \A h \in OpenHolds(source.holds) :
                               h.ids # {} /\ h.ids \cap Items = {}
                        /\ resolved = {} => Confirmed = DOMAIN points
  BY Zenon DEF NothingWavedThrough
<1> DEFINE asked == UNION {g.ids : g \in DecisionGroups(resolved)}
<1>1. ASSUME NEW n \in DOMAIN points, NEW h \in Findings(resolved),
             points[n].logical_point_id \in h.ids
      PROVE  points[n].logical_point_id \in asked
  <2>1. points[n].logical_point_id \in Items \cap h.ids BY <1>1 DEF Items
  <2>2. PICK g \in DecisionGroups(resolved) : Items \cap h.ids \subseteq g.ids
    BY <2>1, PutToReviewer
  <2> QED BY <2>1, <2>2
<1>2. ASSUME NEW n \in DOMAIN points, NEW h \in holds \ resolved,
             points[n].logical_point_id \in h.ids
      PROVE  points[n].logical_point_id \in asked
  BY <1>1, <1>2 DEF Findings, Lint
<1>3. ASSUME NEW n \in DOMAIN points, PointFindings(n, points[n]) # {}
      PROVE  points[n].logical_point_id \in asked
  <2>1. PICK v \in PointFindings(n, points[n]) : TRUE BY <1>3
  <2>2. v.ids = {n} BY <2>1 DEF PointFindings, Finding
  <2>3. v \in Validated BY <2>1 DEF Validated
  <2>4. Named(v) \in Findings(resolved) BY <2>3, Zenon DEF Findings, Lint
  <2>5. points[n].logical_point_id \in Named(v).ids BY <2>2 DEF Named, Finding
  <2> QED BY <1>1, <2>4, <2>5
<1>4. ASSUME Ready(resolved)
      PROVE  /\ OpenRows = {}
             /\ \A h \in OpenHolds(source.holds) : h.ids # {} /\ h.ids \cap Items = {}
             /\ resolved = {} => Confirmed = DOMAIN points
  <2>1. ASSUME NEW h \in Findings(resolved) PROVE h.ids # {} /\ h.ids \cap Items = {}
    BY <1>4, PutToReviewer DEF Ready
  <2>2. OpenRows = {}
    <3> DEFINE h == Finding("source.rejected-rows-unresolved", {}, None)
    <3> SUFFICES ASSUME OpenRows # {} PROVE FALSE OBVIOUS
    <3>1. h \in Findings(resolved) BY Zenon DEF Findings
    <3>2. h.ids = {} BY DEF Finding
    <3> HIDE DEF h
    <3> QED BY <2>1, <3>1, <3>2
  <2>3. \A h \in OpenHolds(source.holds) : h \in Findings(resolved)
    BY Zenon DEF Findings
  <2>4. resolved = {} => Confirmed = DOMAIN points
    <3> SUFFICES ASSUME resolved = {}, NEW n \in DOMAIN points,
                        points[n].status # "confirmed"
                 PROVE  FALSE
      BY DEF Confirmed
    <3>1. Made(n) /\ Justified(n) BY DEF IInv
    <3>2. PICK h \in holds : points[n].logical_point_id \in h.ids
      BY <3>1 DEF Made, Justified
    <3>3. h \in Findings(resolved) BY <3>2 DEF Findings, Lint
    <3>4. points[n].logical_point_id \in Items BY DEF Items
    <3> QED BY <2>1, <3>2, <3>3, <3>4
  <2> QED BY <2>1, <2>2, <2>3, <2>4
<1> QED BY <1>2, <1>3, <1>4, Zenon

\* The reviewer is asked about every point that an open hold or the validator
\* names, and a review that asks nothing leaves only confirmed points.
THEOREM NothingWavedThroughAlways == Spec => []NothingWavedThrough
BY Invariant, IInvNothingWavedThrough, PTL

-----------------------------------------------------------------------------
(***************************************************************************)
(* Reviews of a map, for any drafts, decisions, evidence and number of     *)
(* reviews.  An approved map is safe to poll because a map is approved     *)
(* only when nothing is found in it; the lemmas about the validator say    *)
(* what finding nothing means for the registers.                           *)
(***************************************************************************)

\* A point in which nothing is found satisfies the negation of each check.
LEMMA NothingFound ==
    ASSUME NEW i, NEW p, PointFindings(i, p) = {}
    PROVE  \A c \in Checks(p) : ~c[3]
BY DEF PointFindings

\* A point with a datatype has a span unless it is a string nobody measured.
LEMMA OnlyStringsLackSpan ==
    ASSUME NEW p, p.datatype \in DataTypes, ~Unmeasured(p)
    PROVE  EffectiveSpan(p) # None
<1>1. CASE p.word_span # None BY <1>1 DEF EffectiveSpan
<1>2. CASE p.word_span = None
  <2>1. p.datatype \in {"bool", "uint16", "float32", "float64"}
    BY <1>2 DEF Unmeasured, DataTypes
  <2>2. FixedSpan[p.datatype] \in {1, 2, 4} BY <2>1 DEF FixedSpan, DataTypes
  <2> QED BY <1>2, <2>2, UnreadAssumption DEF EffectiveSpan
<1> QED BY <1>1, <1>2

\* What finding nothing in a point means for its fields.
LEMMA CleanPoint ==
    ASSUME NEW i, NEW p \in CanonicalPoint, PointFindings(i, p) = {},
           p.access # "write-only"
    PROVE  ReadSafely(p)
<1> DEFINE span == EffectiveSpan(p)
           spans == span # None /\ span > 0
<1>0. \A c \in Checks(p) : ~c[3]
  BY NothingFound
<1>1. p.route_id # None
  <2>1. <<"point.route-unresolved", "route_id", p.route_id = None>> \in Checks(p)
    BY DEF Checks
  <2> QED BY <2>1, <1>0
<1>2. p.unit_id # None
  <2>1. <<"point.unit-id-unresolved", "unit_id", p.unit_id = None>> \in Checks(p)
    BY DEF Checks
  <2> QED BY <2>1, <1>0
<1>3. p.unit_id \in 1..247
  <2>1. <<"point.unit-id-invalid", "unit_id",
          p.unit_id # None /\ p.unit_id \notin 1..247>> \in Checks(p)
    BY DEF Checks
  <2> QED BY <1>2, <2>1, <1>0
<1>4. p.area # None
  <2>1. <<"point.area-unresolved", "area", p.area = None>> \in Checks(p)
    BY DEF Checks
  <2> QED BY <2>1, <1>0
<1>5. p.protocol_offset # None
  <2>1. <<"point.address-unresolved", "protocol_offset", p.protocol_offset = None>> \in Checks(p)
    BY DEF Checks
  <2> QED BY <2>1, <1>0
<1>6. p.protocol_offset \in 0..MaxProtocolOffset
  <2>1. <<"point.address-out-of-range", "protocol_offset",
          p.protocol_offset # None /\ p.protocol_offset \notin 0..MaxProtocolOffset>> \in Checks(p)
    BY DEF Checks
  <2>2. ~(p.protocol_offset # None /\ p.protocol_offset \notin 0..MaxProtocolOffset) BY <2>1, <1>0
  <2> QED BY <1>5, <2>2
<1>7. p.datatype # None
  <2>1. <<"point.datatype-unresolved", "datatype", p.datatype = None>> \in Checks(p)
    BY DEF Checks
  <2> QED BY <2>1, <1>0
<1>8. p.function_code \in {None, ReadFunction[p.area]}
  <2>1. <<"function-code.unsupported", "function_code",
          p.function_code # None /\ p.function_code \notin 1..4>> \in Checks(p)
    BY DEF Checks
  <2>2. <<"function-code.area-mismatch", "function_code",
          /\ p.function_code # None /\ p.function_code \in 1..4
          /\ p.area # None /\ p.function_code # ReadFunction[p.area]>> \in Checks(p)
    BY DEF Checks
  <2>3. ~(p.function_code # None /\ p.function_code \notin 1..4)
    BY <2>1, <1>0
  <2>4. ~(/\ p.function_code # None /\ p.function_code \in 1..4
          /\ p.area # None /\ p.function_code # ReadFunction[p.area])
    BY <2>2, <1>0
  <2> QED BY <1>4, <2>3, <2>4
<1>9. ASSUME span # None
      PROVE  span \in Int /\ span > 0
  <2>1. <<"point.span-invalid", "word_span", p.word_span # None /\ p.word_span <= 0>> \in Checks(p)
    BY DEF Checks
  <2>2. ~(p.word_span # None /\ p.word_span <= 0)
    BY <2>1, <1>0
  <2>3. CASE p.word_span # None
    BY <2>2, <2>3 DEF EffectiveSpan, CanonicalPoint
  <2>4. CASE p.word_span = None
    <3>1. span = FixedSpan[p.datatype] BY <2>4 DEF EffectiveSpan
    <3>2. p.datatype \in DataTypes \cup {None} BY DEF CanonicalPoint
    <3>3. FixedSpan[p.datatype] \in {1, 2, 4, None}
      BY <3>2 DEF FixedSpan, DataTypes
    <3> QED BY <1>9, <3>1, <3>3
  <2> QED BY <2>3, <2>4
<1>10. ASSUME span # None
       PROVE  Registers(p) \subseteq 0..MaxProtocolOffset
  <2>1. <<"point.range-out-of-bounds", "word_span",
          p.protocol_offset # None /\ spans /\ EndOffset(p) > MaxProtocolOffset>> \in Checks(p)
    BY DEF Checks
  <2>2. span \in Int /\ span > 0 BY <1>9, <1>10
  <2>3. ~(p.protocol_offset # None /\ spans /\ EndOffset(p) > MaxProtocolOffset) BY <2>1, <1>0
  <2>4. ~(EndOffset(p) > MaxProtocolOffset) BY <1>5, <1>10, <2>2, <2>3
  <2>5. EndOffset(p) \in Int BY <1>6, <2>2 DEF EndOffset
  <2>6. MaxProtocolOffset \in Int BY DEF MaxProtocolOffset
  <2>7. EndOffset(p) <= MaxProtocolOffset BY <2>4, <2>5, <2>6
  <2>8. \A o \in Registers(p) : o \in 0..MaxProtocolOffset
    BY <1>6, <2>5, <2>6, <2>7 DEF Registers
  <2> QED BY <2>8
<1>11. ASSUME span # None, span > 1, p.datatype # "string", p.area \notin BitAreas
       PROVE  p.byte_order # None /\ p.byte_order_confirmed /\ p.byte_order.registers = span
  <2>1. <<"point.byte-order-unresolved", "byte_order",
          /\ spans /\ span > 1 /\ p.datatype # "string"
          /\ p.area \notin BitAreas /\ p.byte_order = None>> \in Checks(p)
    BY DEF Checks
  <2>2. p.byte_order # None BY <1>9, <1>11, <2>1, <1>0
  <2>3. <<"point.byte-order-invalid", "byte_order",
          spans /\ p.byte_order # None /\ p.byte_order.registers # span>> \in Checks(p)
    BY DEF Checks
  <2>4. p.byte_order.registers = span BY <1>9, <1>11, <2>2, <2>3, <1>0
  <2>5. <<"point.byte-order-unconfirmed", "byte_order_confirmed",
          p.byte_order # None /\ ~p.byte_order_confirmed>> \in Checks(p)
    BY DEF Checks
  <2>6. p.byte_order_confirmed BY <2>2, <2>5, <1>0
  <2> QED BY <2>2, <2>4, <2>6
<1>12. ASSUME ~Unmeasured(p) PROVE span # None /\ span \in Nat \ {0}
  <2>1. span # None BY <1>7, <1>12, OnlyStringsLackSpan DEF CanonicalPoint
  <2> QED BY <2>1, <1>9
<1> QED BY <1>1, <1>3, <1>4, <1>6, <1>7, <1>8, <1>9, <1>10, <1>11, <1>12 DEF ReadSafely

\* A point that reads safely and whose length is known is placed.
LEMMA CompleteIsPlaced ==
    ASSUME NEW p, p \in CanonicalPoint, ReadSafely(p), ~Unmeasured(p)
    PROVE  Placed(p)
<1>1. /\ p.route_id # None /\ p.unit_id \in 1..247 /\ p.area # None
      /\ p.protocol_offset \in 0..MaxProtocolOffset /\ EffectiveSpan(p) \in Nat \ {0}
  BY DEF ReadSafely
<1>2. None \notin 1..247 /\ None \notin 0..MaxProtocolOffset /\ None \notin Nat \ {0}
  <2>1. \A x \in 1..247 : x \in Int OBVIOUS
  <2>2. \A x \in 0..MaxProtocolOffset : x \in Int OBVIOUS
  <2>3. \A x \in Nat \ {0} : x \in Int OBVIOUS
  <2> QED BY <2>1, <2>2, <2>3, UnreadAssumption, Zenon
<1>3. /\ p.unit_id # None /\ p.protocol_offset # None /\ EffectiveSpan(p) # None
      /\ EffectiveSpan(p) > 0
  BY <1>1, <1>2
<1> QED BY <1>1, <1>3 DEF Placed

\* Two points that share a register are found by the sweep.
LEMMA SweepFinds ==
    ASSUME NEW ps, DOMAIN ps \subseteq Nat,
           \A i \in DOMAIN ps : ps[i] \in CanonicalPoint,
           NEW i \in DOMAIN ps, NEW j \in DOMAIN ps,
           Scope(ps[i]) = Scope(ps[j]), Placed(ps[i]), Placed(ps[j]),
           Before(ps, i, j),
           Registers(ps[i]) \cap Registers(ps[j]) # {}
    PROVE  <<i, j>> \in Swept(ps)
<1> DEFINE p == ps[i]  q == ps[j]
<1>1. \A k \in DOMAIN ps : Placed(ps[k]) => ps[k].protocol_offset \in Int
  BY DEF Placed, CanonicalPoint
<1>2. \A k \in DOMAIN ps : Placed(ps[k]) => EndOffset(ps[k]) \in Int
  <2> SUFFICES ASSUME NEW k \in DOMAIN ps, Placed(ps[k])
               PROVE  EndOffset(ps[k]) \in Int
    OBVIOUS
  <2>1. ps[k].datatype \in DataTypes \cup {None} BY DEF CanonicalPoint
  <2>2. FixedSpan[ps[k].datatype] \in {1, 2, 4, None} BY <2>1 DEF FixedSpan, DataTypes
  <2>3. EffectiveSpan(ps[k]) \in Int
    BY <2>2 DEF Placed, EffectiveSpan, CanonicalPoint
  <2> QED BY <1>1, <2>3 DEF EndOffset
<1>3. PICK o \in Int : /\ p.protocol_offset <= o /\ o <= EndOffset(p)
                      /\ q.protocol_offset <= o /\ o <= EndOffset(q)
  BY <1>1, <1>2 DEF Registers, MaxProtocolOffset
<1>4. q.protocol_offset <= EndOffset(p)
  BY <1>1, <1>2, <1>3
<1>5. ASSUME NEW k \in DOMAIN ps, Placed(ps[k]), ~Before(ps, j, k)
      PROVE  Meets(ps, i, k)
  BY <1>1, <1>2, <1>4, <1>5 DEF Before, Meets
<1> QED BY <1>5 DEF Swept, Found

\* Where the sweep finds nothing, no register belongs to two points.
LEMMA CleanSweep ==
    ASSUME NEW ps, DOMAIN ps \subseteq Nat,
           \A i \in DOMAIN ps : ps[i] \in CanonicalPoint,
           Swept(ps) = {},
           NEW i \in DOMAIN ps, NEW j \in DOMAIN ps, i # j,
           Scope(ps[i]) = Scope(ps[j]), Placed(ps[i]), Placed(ps[j])
    PROVE  Registers(ps[i]) \cap Registers(ps[j]) = {}
<1>1. ps[i].protocol_offset \in Int /\ ps[j].protocol_offset \in Int
  BY DEF Placed, CanonicalPoint
<1>2. Before(ps, i, j) \/ Before(ps, j, i)
  BY <1>1 DEF Before
<1>3. CASE Before(ps, i, j) BY <1>3, SweepFinds
<1>4. CASE Before(ps, j, i)
  <2>1. Registers(ps[j]) \cap Registers(ps[i]) # {} => <<j, i>> \in Swept(ps)
    BY <1>4, SweepFinds
  <2> QED BY <2>1
<1> QED BY <1>2, <1>3, <1>4

(***************************************************************************)
(* Sequences and corrected points.                                         *)
(***************************************************************************)

IsSeq(s) == s \in Seq({s[i] : i \in DOMAIN s})

LEMMA AppendFacts ==
    ASSUME NEW s, IsSeq(s), NEW x
    PROVE  /\ IsSeq(Append(s, x))
           /\ Len(s) \in Nat /\ DOMAIN s = 1..Len(s)
           /\ Len(Append(s, x)) = Len(s) + 1
           /\ DOMAIN Append(s, x) = DOMAIN s \cup {Len(s) + 1}
           /\ Append(s, x)[Len(s) + 1] = x
           /\ \A i \in DOMAIN s : Append(s, x)[i] = s[i]
<1> DEFINE S == {s[i] : i \in DOMAIN s}  t == Append(s, x)
<1>1. s \in Seq(S \cup {x}) BY DEF IsSeq
<1>2. t \in Seq(S \cup {x}) BY <1>1
<1>3. Len(s) \in Nat /\ DOMAIN s = 1..Len(s) BY <1>1
<1>4. Len(t) = Len(s) + 1 /\ DOMAIN t = 1..Len(s) + 1 BY <1>1
<1>5. t[Len(s) + 1] = x /\ \A i \in DOMAIN s : t[i] = s[i] BY <1>1, <1>3
<1>6. t \in Seq({t[i] : i \in DOMAIN t}) BY <1>2, <1>4
<1> QED BY <1>3, <1>4, <1>5, <1>6 DEF IsSeq

\* A permitted correction of a point is a point.
LEMMA CorrectedType ==
    ASSUME NEW p \in CanonicalPoint, NEW ds \in SUBSET Decisions,
           \A d \in ds : Permitted(p, Placing(p, ds), d)
    PROVE  Corrected(p, ds) \in CanonicalPoint
<1> DEFINE q == Placing(p, ds)
           Sets(f) == \E d \in ds : d.field = f
           The(f) == CHOOSE d \in ds : d.field = f
<1>1. ASSUME NEW f, Sets(f)
      PROVE  The(f) \in ds /\ The(f).field = f /\ Permitted(p, q, The(f))
  BY <1>1
<1>2. DOMAIN q = DOMAIN p BY DEF Placing
<1>3. \A f \in DOMAIN p : q[f] = IF Sets(f) THEN The(f).value ELSE p[f]
  BY DEF Placing
<1>4. q.route_id \in STRING \cup {None} /\ q.bit_order \in STRING \cup {None}
  <2>1. ASSUME NEW f \in {"route_id", "bit_order"}, Sets(f)
        PROVE  The(f).value \in STRING
    BY <1>1, <2>1, DecisionsAssumption
  <2> QED BY <1>3, <2>1 DEF CanonicalPoint
<1>5. q.unit_id \in Int \cup {None}
  <2>1. Sets("unit_id") => The("unit_id").value \in 1..247 BY <1>1 DEF Permitted
  <2> QED BY <1>3, <2>1 DEF CanonicalPoint
<1>6. q.area \in Areas \cup {None}
  <2>1. Sets("area") => The("area").value \in Areas BY <1>1 DEF Permitted
  <2> QED BY <1>3, <2>1 DEF CanonicalPoint
<1>7. q.protocol_offset \in Int \cup {None}
  <2>1. Sets("protocol_offset") => The("protocol_offset").value \in 0..MaxProtocolOffset
    BY <1>1 DEF Permitted
  <2> QED BY <1>3, <2>1 DEF CanonicalPoint
<1>8. q.datatype \in DataTypes \cup {None}
  <2>1. Sets("datatype") => The("datatype").value \in DataTypes BY <1>1 DEF Permitted
  <2> QED BY <1>3, <2>1 DEF CanonicalPoint
<1>9. q.word_span \in Int \cup {None}
  <2>1. Sets("word_span") => The("word_span").value \in 1..125 BY <1>1 DEF Permitted
  <2> QED BY <1>3, <2>1 DEF CanonicalPoint
<1>10. q.byte_order \in Layout \cup {None}
  <2>1. Sets("byte_order") => The("byte_order").value \in Layout BY <1>1 DEF Permitted
  <2> QED BY <1>3, <2>1 DEF CanonicalPoint
<1>11. q.byte_order_confirmed \in BOOLEAN
  <2>1. ~Sets("byte_order_confirmed") BY DecisionsAssumption DEF Fields
  <2> QED BY <1>3, <2>1 DEF CanonicalPoint
<1>12. q.access \in {"read-only", "read-write", "write-only", None}
  <2>1. Sets("access") => The("access").value \in {"read-only", "read-write"}
    BY <1>1 DEF Permitted
  <2> QED BY <1>3, <2>1 DEF CanonicalPoint
<1>13. q.function_code \in Int \cup {None}
  <2>1. Sets("function_code") => The("function_code").value \in 1..4 BY <1>1 DEF Permitted
  <2> QED BY <1>3, <2>1 DEF CanonicalPoint
<1>14. q \in CanonicalPoint
  BY <1>2, <1>4, <1>5, <1>6, <1>7, <1>8, <1>9, <1>10, <1>11, <1>12, <1>13
     DEF CanonicalPoint, Placing
<1> DEFINE b == IF Sets("byte_order") THEN TRUE ELSE q.byte_order_confirmed
<1>15. b \in BOOLEAN BY <1>11
<1>16. Corrected(p, ds) = [q EXCEPT !.byte_order_confirmed = b] BY DEF Corrected
<1> HIDE DEF q, b
<1>17. [q EXCEPT !.byte_order_confirmed = b] \in CanonicalPoint
  BY <1>14, <1>15 DEF CanonicalPoint
<1> QED BY <1>16, <1>17

(***************************************************************************)
(* The map a review makes.                                                 *)
(***************************************************************************)

MapFields == {"points", "excluded", "source_holds", "holds", "profile", "metadata",
              "review_decisions", "review_status", "input_map"}

\* Every map file, reviewed or not.  The fourth conjunct is what makes the
\* end of the holds the end of the open source holds too.
MapOK(m) ==
    /\ DOMAIN m = MapFields
    /\ DOMAIN m.points \subseteq Points
    /\ \A i \in DOMAIN m.points : m.points[i] \in CanonicalPoint
    /\ \A c \in DOMAIN m.source_holds :
          m.source_holds[c] = "resolved" \/ \E h \in m.holds : h.code = c /\ h.ids = {}
    /\ IsSeq(m.review_decisions)

\* ApprovedIsSafe and HoldsAnswered, of one file.
SafeMap(m) ==
    m.review_status = "approved" =>
        LET ps == m.points IN
        /\ DOMAIN ps # {}
        /\ \A i \in DOMAIN ps : ReadSafely(ps[i])
        /\ \A i, j \in DOMAIN ps :
              (i # j /\ Scope(ps[i]) = Scope(ps[j])
                 /\ ~Unmeasured(ps[i]) /\ ~Unmeasured(ps[j])) =>
              Registers(ps[i]) \cap Registers(ps[j]) = {}
        /\ \A c \in DOMAIN m.source_holds : m.source_holds[c] = "resolved"
Answered(m, x) ==
    \A h \in m.holds \ x.holds :
        /\ Len(x.review_decisions) = Len(m.review_decisions) + 1
        /\ LET e == x.review_decisions[Len(x.review_decisions)] IN
           \/ h.ids = {} /\ h.code \in e.codes
           \/ h.ids # {} /\ h.ids \subseteq e.excludes
           \/ /\ h.ids # {}
              /\ \A i \in h.ids : \E d \in e.sets : d.id = i /\ h.field \in Answers(d.field)

\* The parts of the map x that apply_review_decisions makes of m.
Entry(r, basis) ==
    [sets |-> r.sets, excludes |-> r.excludes, codes |-> r.codes, basis |-> basis]
Parts(m, k, r, basis, x) ==
    /\ DOMAIN x = MapFields
    /\ x.input_map = k
    /\ x.points = [i \in Ids(m) \ r.excludes |-> Corrected(m.points[i], Of(r, i))]
    /\ x.source_holds = [c \in DOMAIN m.source_holds |->
                           IF c \in r.codes THEN "resolved" ELSE m.source_holds[c]]
    /\ LET found == Linted(x.points, {h \in m.holds : ~Lifted(r, h)}, m)
       IN  x.holds = found \cup ReadMapHolds(x.points, found)
    /\ x.review_decisions = IF Size(r) = 0 THEN m.review_decisions
                            ELSE Append(m.review_decisions, Entry(r, basis))
    /\ x.review_status = "approved" => x.holds = {}

LEMMA ReviewedParts ==
    ASSUME NEW m, DOMAIN m = MapFields, NEW k, NEW r, NEW basis
    PROVE  Parts(m, k, r, basis, Reviewed(m, k, r, basis))
BY DEF Reviewed, MapFields, Parts, Entry

\* A hold that is on the whole source and open stays a hold of the map.
LEMMA ReviewedOK ==
    ASSUME NEW m, MapOK(m), NEW k, NEW basis, NEW r,
           r.sets \subseteq Decisions, Admissible(m, r)
    PROVE  MapOK(Reviewed(m, k, r, basis))
<1> DEFINE x == Reviewed(m, k, r, basis)
<1>1. DOMAIN m = MapFields /\ DOMAIN m.points \subseteq Points /\ IsSeq(m.review_decisions)
  BY DEF MapOK
<1>0. Parts(m, k, r, basis, x) BY <1>1, ReviewedParts
<1>2. DOMAIN x = MapFields BY <1>0 DEF Parts
<1>3. x.points = [i \in Ids(m) \ r.excludes |-> Corrected(m.points[i], Of(r, i))]
  BY <1>0 DEF Parts
<1>4. DOMAIN x.points \subseteq Points BY <1>1, <1>3 DEF Ids
<1>5. ASSUME NEW i \in DOMAIN x.points PROVE x.points[i] \in CanonicalPoint
  <2>1. i \in Ids(m) /\ x.points[i] = Corrected(m.points[i], Of(r, i)) BY <1>3
  <2>2. m.points[i] \in CanonicalPoint BY <2>1 DEF MapOK, Ids
  <2>3. Of(r, i) \in SUBSET Decisions BY DEF Of
  <2>4. ASSUME NEW d \in Of(r, i)
        PROVE  Permitted(m.points[i], Placing(m.points[i], Of(r, i)), d)
    <3>1. d \in r.sets /\ d.id = i BY DEF Of
    <3> QED BY <3>1 DEF Admissible
  <2> QED BY <2>1, <2>2, <2>3, <2>4, CorrectedType
<1>6. ASSUME NEW c \in DOMAIN x.source_holds, x.source_holds[c] # "resolved"
      PROVE  \E h \in x.holds : h.code = c /\ h.ids = {}
  <2>1. x.source_holds = [e \in DOMAIN m.source_holds |->
                             IF e \in r.codes THEN "resolved" ELSE m.source_holds[e]]
    BY <1>0 DEF Parts
  <2>2. c \in DOMAIN m.source_holds /\ c \notin r.codes /\ m.source_holds[c] # "resolved"
    BY <1>6, <2>1
  <2>3. PICK h \in m.holds : h.code = c /\ h.ids = {} BY <2>2 DEF MapOK
  <2>4. ~Lifted(r, h) BY <2>2, <2>3 DEF Lifted
  <2>5. h \in x.holds BY <1>0, <2>3, <2>4 DEF Parts, Linted
  <2> QED BY <2>3, <2>5
<1>7. IsSeq(x.review_decisions)
  <2>1. x.review_decisions = IF Size(r) = 0 THEN m.review_decisions
                             ELSE Append(m.review_decisions, Entry(r, basis))
    BY <1>0 DEF Parts
  <2>2. IsSeq(Append(m.review_decisions, Entry(r, basis))) BY <1>1, AppendFacts
  <2> QED BY <1>1, <2>1, <2>2
<1> HIDE DEF x
<1>8. MapOK(x) BY <1>2, <1>4, <1>5, <1>6, <1>7 DEF MapOK
<1> QED BY <1>8 DEF x

\* A map without findings has no overlap.
LEMMA CleanMap ==
    ASSUME NEW ps, Validate(ps) = {}
    PROVE  Overlaps(ps) = {}
<1> DEFINE found == UNION {PointFindings(i, ps[i]) : i \in DOMAIN ps}
           met == Overlaps(ps)
<1>1. Validate(ps) = found \cup met BY Zenon DEF Validate
<1> HIDE DEF found, met
<1>2. met = {} BY <1>1
<1> QED BY <1>2 DEF met

\* A map is approved only when nothing is found in it.
LEMMA ReviewedSafe ==
    ASSUME NEW m, MapOK(m), NEW k, NEW basis, NEW r,
           r.sets \subseteq Decisions, Admissible(m, r)
    PROVE  SafeMap(Reviewed(m, k, r, basis))
<1> DEFINE x == Reviewed(m, k, r, basis)
           found == Linted(x.points, {h \in m.holds : ~Lifted(r, h)}, m)
<1> SUFFICES ASSUME x.review_status = "approved" PROVE SafeMap(x)
  BY DEF SafeMap
<1>1. MapOK(x) BY ReviewedOK
<1>2. x.holds = {} /\ x.holds = found \cup ReadMapHolds(x.points, found)
  <2>1. Parts(m, k, r, basis, x) BY ReviewedParts DEF MapOK
  <2> QED BY <2>1 DEF Parts
<1> HIDE DEF x
<1>3. found = {} /\ ReadMapHolds(x.points, {}) = {} BY <1>2
<1>4. Validate(x.points) = {} BY <1>3 DEF Linted
<1>5. DOMAIN x.points \subseteq Nat BY <1>1, PointsAssumption DEF MapOK
<1>6. \A i \in DOMAIN x.points : x.points[i] \in CanonicalPoint BY <1>1 DEF MapOK
<1>7. DOMAIN x.points # {} BY <1>3 DEF ReadMapHolds
<1>8. ASSUME NEW i \in DOMAIN x.points PROVE ReadSafely(x.points[i])
  <2>1. x.points[i].access # "write-only" BY <1>3 DEF ReadMapHolds
  <2>2. PointFindings(i, x.points[i]) = {} BY <1>4 DEF Validate
  <2> QED BY <1>6, <2>1, <2>2, CleanPoint
<1>9. Swept(x.points) = {}
  <2>1. Overlaps(x.points) = {} BY <1>4, CleanMap
  <2> QED BY <2>1 DEF Overlaps
<1>10. ASSUME NEW i \in DOMAIN x.points, NEW j \in DOMAIN x.points, i # j,
              Scope(x.points[i]) = Scope(x.points[j]),
              ~Unmeasured(x.points[i]), ~Unmeasured(x.points[j])
       PROVE  Registers(x.points[i]) \cap Registers(x.points[j]) = {}
  <2>1. Placed(x.points[i]) /\ Placed(x.points[j])
    BY <1>6, <1>8, <1>10, CompleteIsPlaced
  <2> QED BY <1>5, <1>6, <1>9, <1>10, <2>1, CleanSweep
<1>11. \A c \in DOMAIN x.source_holds : x.source_holds[c] = "resolved"
  BY <1>1, <1>2 DEF MapOK
<1> QED BY <1>7, <1>8, <1>10, <1>11 DEF SafeMap

\* A record of size 0 decides nothing.
LEMMA EmptyRecord ==
    ASSUME NEW r, r.sets \subseteq Decisions, r.excludes \subseteq Points,
           r.codes \subseteq Codes, Size(r) = 0
    PROVE  r.sets = {} /\ r.excludes = {} /\ r.codes = {}
<1>1. IsFiniteSet(r.sets) /\ IsFiniteSet(r.excludes) /\ IsFiniteSet(r.codes)
  BY FiniteAssumption, FS_Subset
<1>2. /\ Cardinality(r.sets) \in Nat /\ Cardinality(r.excludes) \in Nat
      /\ Cardinality(r.codes) \in Nat
  BY <1>1, FS_CardinalityType
<1>3. Cardinality(r.sets) = 0 /\ Cardinality(r.excludes) = 0 /\ Cardinality(r.codes) = 0
  BY <1>2 DEF Size
<1> QED BY <1>1, <1>3, FS_EmptySet

\* What leaves the holds of a map is answered by the record that makes it leave.
LEMMA ReviewedAnswers ==
    ASSUME NEW m, MapOK(m), NEW k, NEW basis, NEW r,
           r.sets \subseteq Decisions, r.excludes \subseteq Points, r.codes \subseteq Codes
    PROVE  Answered(m, Reviewed(m, k, r, basis))
<1> DEFINE x == Reviewed(m, k, r, basis)
           trail == m.review_decisions
<1>0. Parts(m, k, r, basis, x) BY ReviewedParts DEF MapOK
<1>1. IsSeq(trail) BY DEF MapOK
<1>2. \A h \in m.holds : ~Lifted(r, h) => h \in x.holds
  BY <1>0 DEF Parts, Linted
<1>3. x.review_decisions = IF Size(r) = 0 THEN trail ELSE Append(trail, Entry(r, basis))
  BY <1>0 DEF Parts
<1> HIDE DEF x
<1> SUFFICES ASSUME NEW h \in m.holds, h \notin x.holds
             PROVE  /\ Len(x.review_decisions) = Len(trail) + 1
                    /\ LET e == x.review_decisions[Len(x.review_decisions)] IN
                       \/ h.ids = {} /\ h.code \in e.codes
                       \/ h.ids # {} /\ h.ids \subseteq e.excludes
                       \/ /\ h.ids # {}
                          /\ \A i \in h.ids :
                                \E d \in e.sets : d.id = i /\ h.field \in Answers(d.field)
  BY DEF Answered, x
<1>4. Lifted(r, h) BY <1>2
<1>5. r.sets # {} \/ r.excludes # {} \/ r.codes # {}
  BY <1>4 DEF Lifted, Resolved, Of
<1>6. Size(r) # 0 BY <1>5, EmptyRecord
<1>7. x.review_decisions = Append(trail, Entry(r, basis)) BY <1>3, <1>6
<1>8. Len(x.review_decisions) = Len(trail) + 1
      /\ x.review_decisions[Len(x.review_decisions)] = Entry(r, basis)
  BY <1>1, <1>7, AppendFacts
<1>9. \/ h.ids = {} /\ h.code \in r.codes
      \/ h.ids # {} /\ h.ids \subseteq r.excludes
      \/ /\ h.ids # {}
         /\ \A i \in h.ids : \E d \in r.sets : d.id = i /\ h.field \in Answers(d.field)
  BY <1>4 DEF Lifted, Resolved, Of
<1> QED BY <1>8, <1>9 DEF Entry

(***************************************************************************)
(* The trail of a map, from its draft d.                                   *)
(***************************************************************************)

\* A record that sets field f of point i, and those of a trail.
Decides(sets, i, f) == \E d \in sets : d.id = i /\ d.field = f
Settings(trail, i, f) == {k \in DOMAIN trail : Decides(trail[k].sets, i, f)}
ValueIn(sets, i, f) == (CHOOSE d \in sets : d.id = i /\ d.field = f).value
Setting(trail, k, i, f) == ValueIn(trail[k].sets, i, f)

\* The last record that sets the field, if any does, is one of them.
HasLast(trail, i, f) ==
    Settings(trail, i, f) # {} =>
        \E k \in Settings(trail, i, f) : \A j \in Settings(trail, i, f) : j <= k

\* Accountable, of one file m that comes from the draft d.
LatestOf(m, d, i, f) ==
    LET S == Settings(m.review_decisions, i, f)
    IN IF S = {} THEN d.points[i][f]
       ELSE Setting(m.review_decisions, CHOOSE k \in S : \A j \in S : j <= k, i, f)
LastMeasured(m) ==
    LET trail == m.review_decisions IN
    Len(trail) > 0 => \A e \in trail[Len(trail)].sets :
        e.field = "byte_order" => e.id \in Ids(m) /\ Measured(m.points[e.id], e)
Account(m, d) ==
    LET trail == m.review_decisions IN
    /\ \A k \in DOMAIN trail : trail[k].basis = SubSeq(trail, 1, k - 1)
    /\ m.excluded = UNION {trail[k].excludes : k \in DOMAIN trail}
    /\ Ids(m) = Ids(d) \ m.excluded
    /\ \A i, f : HasLast(trail, i, f)
    /\ \A i \in Ids(m), f \in Fields : m.points[i][f] = LatestOf(m, d, i, f)
    /\ LastMeasured(m)
    /\ \A c \in DOMAIN m.source_holds : m.source_holds[c] = "resolved" <=>
           \/ d.source_holds[c] = "resolved"
           \/ \E k \in DOMAIN trail : c \in trail[k].codes

LEMMA DraftAccount ==
    ASSUME NEW d \in Drafts
    PROVE  Account(d, d)
<1>1. d.review_decisions = <<>> /\ d.excluded = {} BY DraftsAssumption
<1>2. DOMAIN d.review_decisions = {} /\ Len(d.review_decisions) = 0 BY <1>1
<1>3. \A i, f : Settings(d.review_decisions, i, f) = {} BY <1>2 DEF Settings
<1> QED BY <1>1, <1>2, <1>3 DEF Account, HasLast, LatestOf, LastMeasured

\* The trail u has the record e at n, and else the records of t.
Extends(u, t, n, e) ==
    /\ DOMAIN u = DOMAIN t \cup {n} /\ n \notin DOMAIN t /\ u[n] = e
    /\ \A k \in DOMAIN t : u[k] = t[k]

\* What another record changes in the settings of field f of point i.
LEMMA SettingsExtended ==
    ASSUME NEW t, NEW u, NEW n, NEW e, Extends(u, t, n, e), NEW i, NEW f
    PROVE  /\ Decides(e.sets, i, f) =>
                /\ Settings(u, i, f) = Settings(t, i, f) \cup {n}
                /\ Setting(u, n, i, f) = ValueIn(e.sets, i, f)
           /\ ~Decides(e.sets, i, f) => Settings(u, i, f) = Settings(t, i, f)
           /\ \A k \in DOMAIN t : Setting(u, k, i, f) = Setting(t, k, i, f)
BY DEF Extends, Settings, Setting

\* A corrected point has, in each field, what the record sets or what it had;
\* and a byte order the record sets has been measured where the point is now.
LEMMA CorrectedFields ==
    ASSUME NEW p \in CanonicalPoint, NEW ds
    PROVE  /\ \A f \in Fields : Corrected(p, ds)[f] =
                IF \E d \in ds : d.field = f THEN (CHOOSE d \in ds : d.field = f).value
                                             ELSE p[f]
           /\ \A d : Measured(Placing(p, ds), d) => Measured(Corrected(p, ds), d)
<1> DEFINE q == Placing(p, ds)
           b == IF \E d \in ds : d.field = "byte_order" THEN TRUE ELSE q.byte_order_confirmed
<1>1. DOMAIN p = Fields \cup {"byte_order_confirmed"} BY DEF CanonicalPoint, Fields
<1>2. /\ DOMAIN q = DOMAIN p
      /\ \A f \in Fields : q[f] =
            IF \E d \in ds : d.field = f THEN (CHOOSE d \in ds : d.field = f).value
                                         ELSE p[f]
  BY <1>1 DEF Placing
<1>3. Corrected(p, ds) = [q EXCEPT !.byte_order_confirmed = b] BY DEF Corrected
<1>4. \A f \in Fields : Corrected(p, ds)[f] = q[f]
  <2> HIDE DEF q, b
  <2> QED BY <1>1, <1>2, <1>3 DEF Fields
<1>5. ASSUME NEW d, Measured(q, d) PROVE Measured(Corrected(p, ds), d)
  <2> HIDE DEF q
  <2>1. \A f \in {"route_id", "unit_id", "area", "protocol_offset", "datatype",
                  "word_span"} : Corrected(p, ds)[f] = q[f]
    BY <1>4 DEF Fields
  <2> QED BY <1>5, <2>1 DEF Measured
<1> QED BY <1>2, <1>4, <1>5

\* A review keeps the account, when its record was written against the map.
LEMMA ReviewedAccount ==
    ASSUME NEW m, MapOK(m), NEW k, NEW d, Account(m, d), NEW r,
           r.sets \subseteq Decisions, r.excludes \subseteq Points,
           r.codes \subseteq Codes, Admissible(m, r)
    PROVE  Account(Reviewed(m, k, r, m.review_decisions), d)
<1> DEFINE trail == m.review_decisions
           x == Reviewed(m, k, r, trail)
           e == Entry(r, trail)
           u == x.review_decisions
<1>1. Parts(m, k, r, trail, x) /\ x.excluded = m.excluded \cup r.excludes
  BY ReviewedParts DEF MapOK, Reviewed, MapFields
<1>2. IsSeq(trail) BY DEF MapOK
<1>3. u = IF Size(r) = 0 THEN trail ELSE Append(trail, e)
  BY <1>1 DEF Parts
<1>4. x.points = [i \in Ids(m) \ r.excludes |-> Corrected(m.points[i], Of(r, i))]
  BY <1>1 DEF Parts
<1>5. x.source_holds = [c \in DOMAIN m.source_holds |->
                          IF c \in r.codes THEN "resolved" ELSE m.source_holds[c]]
  BY <1>1 DEF Parts
<1>6. Ids(x) = Ids(m) \ r.excludes BY <1>4 DEF Ids
<1>7. Size(r) = 0 => r.sets = {} /\ r.excludes = {} /\ r.codes = {}
  BY EmptyRecord
<1>8. e.sets = r.sets /\ e.excludes = r.excludes /\ e.codes = r.codes /\ e.basis = trail
  BY DEF Entry
\* A field of a point that stays is what the record sets, or what it was.
<1>9. ASSUME NEW i \in Ids(x), NEW f \in Fields
      PROVE  x.points[i][f] = IF Decides(r.sets, i, f) THEN ValueIn(r.sets, i, f)
                                                       ELSE m.points[i][f]
  <2>1. m.points[i] \in CanonicalPoint /\ x.points[i] = Corrected(m.points[i], Of(r, i))
    BY <1>4, <1>6 DEF MapOK, Ids
  <2>2. x.points[i][f] = IF \E c \in Of(r, i) : c.field = f
                           THEN (CHOOSE c \in Of(r, i) : c.field = f).value
                           ELSE m.points[i][f]
    BY <2>1, CorrectedFields
  <2>3. (\E c \in Of(r, i) : c.field = f) <=> Decides(r.sets, i, f)
    BY DEF Of, Decides
  <2>4. ASSUME Decides(r.sets, i, f)
        PROVE  (CHOOSE c \in Of(r, i) : c.field = f).value = ValueIn(r.sets, i, f)
    <3>1. PICK c \in r.sets : c.id = i /\ c.field = f
      BY <2>4 DEF Decides
    <3>2. \A c1 \in r.sets : (c1.id = i /\ c1.field = f) => c1 = c
      BY <3>1 DEF Admissible
    <3>3. ValueIn(r.sets, i, f) = c.value BY <3>1, <3>2 DEF ValueIn
    <3>4. c \in Of(r, i) /\ \A c1 \in Of(r, i) : c1.field = f => c1 = c
      BY <3>1, <3>2 DEF Of
    <3>5. (CHOOSE c1 \in Of(r, i) : c1.field = f) = c BY <3>1, <3>4
    <3> QED BY <3>3, <3>5
  <2> HIDE DEF x
  <2> QED BY <2>2, <2>3, <2>4
<1>10. ASSUME NEW c \in r.sets, c.field = "byte_order"
       PROVE  c.id \in Ids(x) /\ Measured(x.points[c.id], c)
  <2>1. /\ c.id \in Ids(m) \ r.excludes
        /\ Permitted(m.points[c.id], Placing(m.points[c.id], Of(r, c.id)), c)
    BY DEF Admissible
  <2>2. m.points[c.id] \in CanonicalPoint BY <2>1 DEF MapOK, Ids
  <2>3. Measured(Placing(m.points[c.id], Of(r, c.id)), c)
    BY <1>10, <2>1 DEF Permitted
  <2> QED BY <1>4, <1>6, <2>1, <2>2, <2>3, CorrectedFields
<1>11. \A c \in DOMAIN x.source_holds : x.source_holds[c] = "resolved" <=>
          m.source_holds[c] = "resolved" \/ c \in r.codes
  BY <1>5
<1>12. DOMAIN x.source_holds = DOMAIN m.source_holds BY <1>5
<1>13. x.excluded = m.excluded \cup r.excludes BY <1>1
<1> HIDE DEF x, e
<1> SUFFICES Account(x, d) BY DEF x
<1>14. CASE Size(r) = 0
  <2>1. u = trail BY <1>3, <1>14
  <2>2. Ids(x) = Ids(m) /\ x.excluded = m.excluded BY <1>6, <1>7, <1>13, <1>14
  <2>3. \A i \in Ids(x), f \in Fields : x.points[i][f] = m.points[i][f]
    BY <1>7, <1>9, <1>14 DEF Decides
  <2>4. LastMeasured(x)
    <3> SUFFICES ASSUME Len(u) > 0, NEW c \in u[Len(u)].sets, c.field = "byte_order"
                 PROVE  c.id \in Ids(x) /\ Measured(x.points[c.id], c)
      BY DEF LastMeasured
    <3>1. c.id \in Ids(m) /\ Measured(m.points[c.id], c)
      BY <2>1 DEF Account, LastMeasured
    <3>2. \A f \in Fields : x.points[c.id][f] = m.points[c.id][f]
      BY <2>2, <2>3, <3>1
    <3> QED BY <2>2, <3>1, <3>2 DEF Measured, Fields
  <2>5. \A i \in Ids(x), f \in Fields : x.points[i][f] = LatestOf(x, d, i, f)
    BY <2>1, <2>2, <2>3 DEF Account, LatestOf
  <2>6. \A c \in DOMAIN x.source_holds : x.source_holds[c] = "resolved" <=>
          m.source_holds[c] = "resolved"
    BY <1>7, <1>11, <1>14
  <2>7. /\ \A n \in DOMAIN u : u[n].basis = SubSeq(u, 1, n - 1)
        /\ x.excluded = UNION {u[n].excludes : n \in DOMAIN u}
        /\ Ids(x) = Ids(d) \ x.excluded
        /\ \A i, f : HasLast(u, i, f)
    BY <2>1, <2>2 DEF Account
  <2>8. \A c \in DOMAIN x.source_holds : x.source_holds[c] = "resolved" <=>
           \/ d.source_holds[c] = "resolved"
           \/ \E n \in DOMAIN u : c \in u[n].codes
    BY <1>12, <2>1, <2>6 DEF Account
  <2> QED BY <2>4, <2>5, <2>7, <2>8 DEF Account
<1>15. CASE Size(r) # 0
  <2> DEFINE last == Len(trail) + 1
  <2>1. u = Append(trail, e) BY <1>3, <1>15
  <2>2. /\ DOMAIN u = DOMAIN trail \cup {last} /\ u[last] = e
        /\ \A n \in DOMAIN trail : u[n] = trail[n]
        /\ Len(trail) \in Nat /\ DOMAIN trail = 1..Len(trail) /\ Len(u) = last
    BY <1>2, <2>1, AppendFacts
  <2>3. Extends(u, trail, last, e) BY <2>2 DEF Extends
  <2>4. ASSUME NEW i, NEW f, Decides(r.sets, i, f)
        PROVE  /\ Settings(u, i, f) = Settings(trail, i, f) \cup {last}
               /\ \A j \in Settings(u, i, f) : j <= last
               /\ Setting(u, last, i, f) = ValueIn(r.sets, i, f)
    <3>1. Settings(u, i, f) = Settings(trail, i, f) \cup {last}
          /\ Setting(u, last, i, f) = ValueIn(r.sets, i, f)
      BY <1>8, <2>4, <2>3, SettingsExtended
    <3>2. \A j \in Settings(trail, i, f) : j <= last BY <2>2 DEF Settings
    <3> QED BY <2>2, <3>1, <3>2
  <2>5. ASSUME NEW i, NEW f, ~Decides(r.sets, i, f)
        PROVE  /\ Settings(u, i, f) = Settings(trail, i, f)
               /\ \A n \in DOMAIN trail : Setting(u, n, i, f) = Setting(trail, n, i, f)
    BY <1>8, <2>5, <2>3, SettingsExtended
  <2>6. ASSUME NEW i, NEW f PROVE HasLast(u, i, f)
    <3>1. CASE Decides(r.sets, i, f) BY <2>4, <3>1 DEF HasLast
    <3>2. CASE ~Decides(r.sets, i, f) BY <2>5, <3>2 DEF HasLast, Account
    <3> QED BY <3>1, <3>2
  <2>7. ASSUME NEW i \in Ids(x), NEW f \in Fields
        PROVE  x.points[i][f] = LatestOf(x, d, i, f)
    <3>1. CASE Decides(r.sets, i, f)
      <4> DEFINE S == Settings(u, i, f)
      <4>1. last \in S /\ \A j \in S : j <= last BY <2>4, <3>1
      <4>2. \A n \in S : (\A j \in S : j <= n) => n = last
        BY <2>2, <4>1 DEF Settings
      <4>3. (CHOOSE n \in S : \A j \in S : j <= n) = last BY <4>1, <4>2
      <4>4. LatestOf(x, d, i, f) = Setting(u, last, i, f)
        BY <4>1, <4>3 DEF LatestOf
      <4> QED BY <1>9, <2>4, <3>1, <4>4
    <3>2. CASE ~Decides(r.sets, i, f)
      <4> DEFINE S == Settings(trail, i, f)
                 max == CHOOSE n \in S : \A j \in S : j <= n
      <4>1. Settings(u, i, f) = S BY <2>5, <3>2
      <4>2. x.points[i][f] = m.points[i][f] /\ i \in Ids(m) BY <1>6, <1>9, <3>2
      <4>3. m.points[i][f] = LatestOf(m, d, i, f) BY <4>2 DEF Account
      <4>4. S # {} => max \in DOMAIN trail
        <5>1. S # {} => \E n \in S : \A j \in S : j <= n BY DEF Account, HasLast
        <5> QED BY <5>1 DEF Settings
      <4>5. S # {} => Setting(u, max, i, f) = Setting(trail, max, i, f)
        BY <2>5, <3>2, <4>4
      <4> HIDE DEF S, max
      <4>6. LatestOf(x, d, i, f) = IF S = {} THEN d.points[i][f] ELSE Setting(u, max, i, f)
        BY <4>1 DEF LatestOf, S, max
      <4>7. LatestOf(m, d, i, f) = IF S = {} THEN d.points[i][f]
                                   ELSE Setting(trail, max, i, f)
        BY DEF LatestOf, S, max
      <4> QED BY <4>2, <4>3, <4>5, <4>6, <4>7
    <3> QED BY <3>1, <3>2
  <2>8. LastMeasured(x) BY <1>8, <1>10, <2>2 DEF LastMeasured
  <2>9. ASSUME NEW n \in DOMAIN u PROVE u[n].basis = SubSeq(u, 1, n - 1)
    <3>1. trail \in Seq({trail[j] : j \in DOMAIN trail}) BY <1>2 DEF IsSeq
    <3>2. CASE n = last
      <4>1. SubSeq(u, 1, last - 1) = trail BY <2>1, <2>2, <3>1
      <4> QED BY <1>8, <2>2, <3>2, <4>1
    <3>3. CASE n \in DOMAIN trail
      <4>1. trail[n].basis = SubSeq(trail, 1, n - 1) BY <3>3 DEF Account
      <4>2. SubSeq(u, 1, n - 1) = SubSeq(trail, 1, n - 1) BY <2>1, <2>2, <3>1, <3>3
      <4> QED BY <2>2, <3>3, <4>1, <4>2
    <3> QED BY <2>2, <3>2, <3>3
  <2>10. x.excluded = UNION {u[n].excludes : n \in DOMAIN u}
    <3>1. m.excluded = UNION {trail[n].excludes : n \in DOMAIN trail} BY DEF Account
    <3> QED BY <1>8, <1>13, <2>2, <3>1
  <2>11. Ids(x) = Ids(d) \ x.excluded
    <3>1. Ids(m) = Ids(d) \ m.excluded BY DEF Account
    <3> QED BY <1>6, <1>13, <3>1
  <2>12. \A c \in DOMAIN x.source_holds : x.source_holds[c] = "resolved" <=>
            \/ d.source_holds[c] = "resolved"
            \/ \E n \in DOMAIN u : c \in u[n].codes
    <3>1. \A c \in DOMAIN m.source_holds : m.source_holds[c] = "resolved" <=>
             \/ d.source_holds[c] = "resolved"
             \/ \E n \in DOMAIN trail : c \in trail[n].codes
      BY DEF Account
    <3> QED BY <1>8, <1>11, <1>12, <2>2, <3>1
  <2> QED BY <2>6, <2>7, <2>8, <2>9, <2>10, <2>11, <2>12 DEF Account
<1> QED BY <1>14, <1>15

(***************************************************************************)
(* The line of map files.                                                  *)
(***************************************************************************)

\* The inductive invariant.
ReviewIInv ==
    /\ IsSeq(files) /\ 1 \in DOMAIN files
    /\ \A n \in DOMAIN files :
          /\ MapOK(files[n]) /\ SafeMap(files[n]) /\ Account(files[n], files[1])
          /\ files[n].input_map # 0 =>
                /\ files[n].input_map \in DOMAIN files
                /\ Answered(files[files[n].input_map], files[n])

LEMMA InitReviewIInv == ReviewInit => ReviewIInv
<1> SUFFICES ASSUME NEW m \in Drafts, files = <<m>> PROVE ReviewIInv
  BY DEF ReviewInit
<1>1. IsSeq(files)
  <2>1. DOMAIN files = {1} /\ files[1] = m /\ files \in Seq({m}) OBVIOUS
  <2> QED BY <2>1 DEF IsSeq
<1>2. DOMAIN files = {1} /\ files[1] = m OBVIOUS
<1>3. IsSeq(<<>>) BY DEF IsSeq
<1>4. MapOK(m)
  BY DraftsAssumption, <1>3 DEF MapOK, MapFields
<1>5. SafeMap(m) BY DraftsAssumption DEF SafeMap
<1>6. m.input_map = 0 BY DraftsAssumption
<1>7. Account(m, m) BY DraftAccount
<1> QED BY <1>1, <1>2, <1>4, <1>5, <1>6, <1>7 DEF ReviewIInv

\* A review appends one file and changes none.
LEMMA ReviewInv == ReviewIInv /\ ApplyReview => ReviewIInv'
<1> SUFFICES ASSUME ReviewIInv, NEW k \in DOMAIN files, NEW r \in Record,
                    HashMatches(files[k], r), Admissible(files[k], r),
                    files' = Append(files, Reviewed(files[k], k, r,
                                                    files[r.basis].review_decisions))
             PROVE  ReviewIInv'
  BY DEF ApplyReview
<1> DEFINE m == files[k]
           x == Reviewed(m, k, r, files[r.basis].review_decisions)
           last == Len(files) + 1
<1>1. MapOK(m) /\ Account(m, files[1]) BY DEF ReviewIInv
<1>2. r.sets \subseteq Decisions /\ r.excludes \subseteq Points /\ r.codes \subseteq Codes
  BY DEF Record
<1>3. /\ MapOK(x) /\ SafeMap(x) /\ Answered(m, x)
      /\ Account(x, files[1])
  <2>1. files[r.basis].review_decisions = m.review_decisions BY DEF HashMatches
  <2> QED BY <1>1, <1>2, <2>1, ReviewedOK, ReviewedSafe, ReviewedAnswers, ReviewedAccount
<1>4. x.input_map = k
  <2>1. Parts(m, k, r, files[r.basis].review_decisions, x) BY <1>1, ReviewedParts DEF MapOK
  <2> QED BY <2>1 DEF Parts
<1> HIDE DEF x
<1>5. files' = Append(files, x) BY DEF x
<1>6. /\ IsSeq(files') /\ DOMAIN files' = DOMAIN files \cup {last}
      /\ files'[last] = x /\ \A n \in DOMAIN files : files'[n] = files[n]
  <2>1. IsSeq(files) BY DEF ReviewIInv
  <2> QED BY <1>5, <2>1, AppendFacts
<1>7. ASSUME NEW n \in DOMAIN files'
      PROVE  /\ MapOK(files'[n]) /\ SafeMap(files'[n]) /\ Account(files'[n], files'[1])
             /\ files'[n].input_map # 0 =>
                   /\ files'[n].input_map \in DOMAIN files'
                   /\ Answered(files'[files'[n].input_map], files'[n])
  <2> files'[1] = files[1] BY <1>6 DEF ReviewIInv
  <2>1. CASE n = last BY <1>3, <1>4, <1>6, <2>1
  <2>2. CASE n \in DOMAIN files
    <3>1. files'[n] = files[n] BY <1>6, <2>2
    <3>2. MapOK(files[n]) /\ SafeMap(files[n]) /\ Account(files[n], files[1])
      BY <2>2 DEF ReviewIInv
    <3>3. ASSUME files[n].input_map # 0
          PROVE  /\ files[n].input_map \in DOMAIN files
                 /\ Answered(files[files[n].input_map], files[n])
      BY <2>2, <3>3 DEF ReviewIInv
    <3> QED BY <1>6, <3>1, <3>2, <3>3
  <2> QED BY <1>6, <2>1, <2>2
<1>8. 1 \in DOMAIN files' BY <1>6 DEF ReviewIInv
<1> QED BY <1>6, <1>7, <1>8 DEF ReviewIInv

THEOREM ReviewInvariance == ReviewSpec => []ReviewIInv
<1>1. ReviewIInv /\ UNCHANGED files => ReviewIInv' BY DEF ReviewIInv
<1>2. ReviewIInv /\ [ReviewNext]_files => ReviewIInv' BY <1>1, ReviewInv DEF ReviewNext
<1> QED BY <1>2, InitReviewIInv, PTL DEF ReviewSpec

\* The points of an approved map file are safe to poll, whatever was decided on
\* the way, but for strings whose length nobody gave: of these it says where they
\* start and how they are read (decisions.py, apply_review_decisions).
THEOREM ApprovedIsSafeAlways == ReviewSpec => []ApprovedIsSafe
<1>1. ReviewIInv => ApprovedIsSafe BY DEF ReviewIInv, SafeMap, ApprovedIsSafe
<1> QED BY <1>1, ReviewInvariance, PTL

\* A hold leaves a map only when the record that made the file answers it
\* (decisions.py, apply_review_decisions).
THEOREM HoldsAnsweredAlways == ReviewSpec => []HoldsAnswered
<1>1. ReviewIInv => HoldsAnswered BY DEF ReviewIInv, Answered, HoldsAnswered
<1> QED BY <1>1, ReviewInvariance, PTL

\* Every map file accounts for itself: its trail of records, each written
\* against those before it, gives the file from the draft (decisions.py,
\* apply_review_decisions).
THEOREM AccountableAlways == ReviewSpec => []Accountable
<1>1. ReviewIInv => Accountable
  <2>1. \A n \in DOMAIN files : \A i, f :
           LatestOf(files[n], files[1], i, f) = Latest(files[n], i, f)
    BY DEF LatestOf, Latest, Settings, Setting, Decides, ValueIn
  <2> QED BY <2>1 DEF ReviewIInv, Account, LastMeasured, Accountable
<1> QED BY <1>1, ReviewInvariance, PTL
=============================================================================

--------------------------- MODULE OleProperties ---------------------------
(***************************************************************************)
(* The property sets olefile.py reads out of a stream (getproperties) and  *)
(* the standard metadata it makes of two of them (OleMetadata).            *)
(*                                                                         *)
(* A table is what the words of the stream spell: whether its header can   *)
(* be decoded, and a sequence of properties, each with an id, a type, a    *)
(* raw number and whether it can be decoded at all.  Integers of 16 bits   *)
(* are scaled down to Half values, times to units of ten ticks.            *)
(***************************************************************************)
EXTENDS Integers, Sequences, FiniteSets, SequencesExt

CONSTANTS
  Half,           \* number of values of a 16-bit integer
  SummaryAttribs, \* number of attributes of SummaryInformation
  DocsumAttribs   \* number of attributes of DocumentSummaryInformation

ASSUME PropertyAssumption ==
  Half \in Nat \ {0} /\ SummaryAttribs \in Nat /\ DocsumAttribs \in Nat

\* What the words of a stream of properties spell.
PropertyTable ==
  [header : BOOLEAN,
   props : Seq([id : Nat, type : STRING, raw : Nat, ok : BOOLEAN])]

\* Property #10 of SummaryInformation is a duration.
EditTime == 10

None == <<"none", 0>>

Signed16(n) == IF n % Half >= Half \div 2 THEN (n % Half) - Half ELSE n % Half

\* A FILETIME: a date, or the number of seconds when it is not to be
\* converted (one tick in ten of a scaled second).
FileTime(raw, convert) ==
  IF convert THEN <<"date", raw>> ELSE <<"seconds", raw \div 10>>

\* The decoding of one property.
Value(p, convert) ==
  CASE p.type = "I2"       -> <<"int", Signed16(p.raw)>>
    [] p.type = "UI2"      -> <<"int", p.raw % Half>>
    [] p.type \in {"I4", "UI4"} -> <<"int", p.raw % (Half * Half)>>
    [] p.type = "FILETIME" -> FileTime(p.raw, convert)
    [] p.type = "BOOL"     -> <<"bool", IF p.raw % Half = 0 THEN 0 ELSE 1>>
    [] p.type \in {"STR", "BLOB", "CLSID"} -> <<"bytes", p.raw>>
    [] OTHER               -> None

\* The properties that give a value: those that can be decoded.
Decodable(t) == {i \in 1..Len(t.props) : t.props[i].ok}

\* getproperties: the values by id, a later property in the place of an
\* earlier one.  No value when the header cannot be decoded.
Properties(t, noConversion) ==
  LET kept == IF t.header THEN Decodable(t) ELSE {}
      last(id) == CHOOSE i \in kept :
        t.props[i].id = id /\ \A j \in kept : t.props[j].id = id => j <= i
  IN  [id \in {t.props[i].id : i \in kept} |->
         Value(t.props[last(id)], id \notin noConversion)]

\* Mutant: a property that cannot be decoded is passed over in silence.
DefectsOfHeader(t) == IF ~t.header THEN {"properties header"} ELSE {}

\* Everything that could not be decoded, each an INCORRECT defect.
PropertyDefects(t) ==
  IF ~t.header THEN {"properties header"}
  ELSE IF \E i \in 1..Len(t.props) : ~t.props[i].ok THEN {"property"} ELSE {}

\* OleMetadata.parse_properties: attribute i has the property with id i, or
\* nothing.
Attributes(props, n) ==
  [i \in 1..n |-> IF i \in DOMAIN props THEN props[i] ELSE None]

Metadata(sum, doc) ==
  [sum |-> Attributes(Properties(sum, {EditTime}), SummaryAttribs),
   doc |-> Attributes(Properties(doc, {}), DocsumAttribs)]

NoTable == [header |-> TRUE, props |-> <<>>]
=============================================================================

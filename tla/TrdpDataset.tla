---------------------------- MODULE TrdpDataset ----------------------------
(***************************************************************************)
(* Datasets of the TRDP plugin (plugins/trdp/xml.rs): how parse_xml builds *)
(* them from the nodes of a configuration, and how a payload is cut into   *)
(* fields (decode_dataset_inner) against how the fields are written        *)
(* (encode_dataset_inner).                                                 *)
(*                                                                         *)
(* A type is 0 (unknown), the width of a primitive, or the identifier of a *)
(* dataset. A payload is its length and a decoded field is its offset and  *)
(* its number of items: the conversions of the single values (scale,       *)
(* offset, byte order) are not modelled, the cutting is.                   *)
(***************************************************************************)
EXTENDS Integers, Sequences, FiniteSets, FiniteSetsExt

CONSTANTS Primitive,    \* widths of the primitive types, as their type ids
          DatasetId,    \* identifiers of datasets
          Sizes,        \* array-size attributes: 0 is a dynamic array
          MaxElements,  \* elements of a dataset
          MaxDatasets,  \* data-set nodes of a file
          MaxItems      \* items of a dynamic array

VARIABLES datasets,     \* finished datasets, in file order; an id may repeat
          current,      \* the open data-set node: <<>> or <<id, elements>>
          parse         \* "reading", "error", "done"

dsvars == <<datasets, current, parse>>

Unknown == 0
Type == Primitive \union DatasetId \union {Unknown}
None == -1

(***************************************************************************)
(* parse_xml and process_node.                                             *)
(***************************************************************************)
Init == datasets = <<>> /\ current = <<>> /\ parse = "reading"

StartDataset(id) ==
    /\ parse = "reading" /\ Len(datasets) < MaxDatasets
    /\ IF current # <<>>
       THEN parse' = "error" /\ UNCHANGED current
       ELSE current' = <<id, <<>>>> /\ UNCHANGED parse
    /\ UNCHANGED datasets

Element(type, size) ==
    /\ parse = "reading" /\ current # <<>> /\ Len(current[2]) < MaxElements
    /\ current' = [current EXCEPT ![2] =
                     Append(@, [type |-> type, size |-> size, dynamic |-> size = 0])]
    /\ UNCHANGED <<datasets, parse>>

\* finish_dataset keeps a second definition of an id behind the first.
EndDataset ==
    /\ parse = "reading" /\ current # <<>>
    /\ datasets' = Append(datasets, [id |-> current[1], elements |-> current[2]])
    /\ current' = <<>>
    /\ UNCHANGED parse

Eof ==
    /\ parse = "reading"
    /\ parse' = IF current # <<>> THEN "error" ELSE "done"
    /\ UNCHANGED <<datasets, current>>

Next == \/ \E id \in DatasetId : StartDataset(id)
        \/ \E type \in Type, size \in Sizes : Element(type, size)
        \/ EndDataset
        \/ Eof

Spec == Init /\ [][Next]_dsvars

(***************************************************************************)
(* Widths. fixed_dataset_width refuses a dataset that reaches itself, one  *)
(* with a dynamic array, and one it does not know.                         *)
(***************************************************************************)
Known(id) == \E i \in 1..Len(datasets) : datasets[i].id = id

Find(id) == datasets[CHOOSE i \in 1..Len(datasets) :
                       datasets[i].id = id /\ \A j \in 1..(i - 1) : datasets[j].id # id]

WidthIn(element, fixed) ==
    IF element.type \in Primitive THEN element.type
    ELSE IF element.type \in DatasetId THEN fixed[element.type]
    ELSE None

SumWidth(elements, i, fixed) ==
    LET counted == i..Len(elements)
    IN IF \E j \in counted : elements[j].dynamic \/ WidthIn(elements[j], fixed) = None THEN None
       ELSE MapThenSumSet(LAMBDA j : WidthIn(elements[j], fixed) * elements[j].size, counted)

FixedWidth[visiting \in SUBSET DatasetId] ==
    [id \in DatasetId |->
        IF id \in visiting \/ ~Known(id) THEN None
        ELSE SumWidth(Find(id).elements, 1, FixedWidth[visiting \union {id}])]

ItemWidth(element) == WidthIn(element, FixedWidth[{}])

(***************************************************************************)
(* decode_dataset_inner: the fields of a payload of a given length, or     *)
(* Refused. What follows a dynamic array must have a fixed width, and the  *)
(* array takes what that width leaves over.                                *)
(***************************************************************************)
Refused == <<"refused">>

Reserved_Nothing(elements, i) == 0

Reserved(elements, i) == SumWidth(elements, i + 1, FixedWidth[{}])

Count(elements, i, offset, length) ==
    LET element == elements[i]
        width == ItemWidth(element)
        reserved == Reserved(elements, i)
    IN IF ~element.dynamic THEN element.size
       ELSE IF reserved = None \/ length < offset + reserved THEN None
       ELSE IF (length - offset - reserved) % width # 0 THEN None
       ELSE (length - offset - reserved) \div width

\* The fields of the elements up to i.
DecodeFrom(elements, length) ==
    LET cut[i \in 0..Len(elements)] ==
            IF i = 0 THEN [fields |-> <<>>, offset |-> 0]
            ELSE LET width == ItemWidth(elements[i])
                     before == cut[i - 1]
                     count == Count(elements, i, before.offset, length)
                     next == before.offset + count * width
                 IN IF before.fields = Refused \/ width = None \/ (elements[i].dynamic /\ width = 0)
                      THEN [before EXCEPT !.fields = Refused]
                    ELSE IF count = None \/ next > length THEN [before EXCEPT !.fields = Refused]
                    ELSE [fields |-> Append(before.fields, <<before.offset, count>>), offset |-> next]
    IN cut[Len(elements)].fields

Decode(id, length) == IF Known(id) THEN DecodeFrom(Find(id).elements, length) ELSE Refused

(***************************************************************************)
(* encode_dataset_inner: fields are written one after the other, a fixed   *)
(* array with its declared number of items, a dynamic one with those given.*)
(***************************************************************************)
Items(element, items) == IF element.dynamic THEN items ELSE element.size

Layout(elements, items) ==
    [i \in 1..Len(elements) |->
        <<MapThenSumSet(LAMBDA j : Items(elements[j], items) * ItemWidth(elements[j]), 1..(i - 1)),
          Items(elements[i], items)>>]

Encoded(id, items) == Layout(Find(id).elements, items)

EncodedLength(id, items) ==
    LET fields == Encoded(id, items)
        last == Len(fields)
    IN IF last = 0 THEN 0
       ELSE fields[last][1] + fields[last][2] * ItemWidth(Find(id).elements[last])

(***************************************************************************)
(* Property.                                                               *)
(***************************************************************************)
\* Datasets whose boundaries are determined: every type known and of a fixed
\* width (an empty one only outside a dynamic array), one dynamic array at most.
Determined(id) ==
    LET elements == Find(id).elements
        Dynamic == {i \in 1..Len(elements) : elements[i].dynamic}
    IN /\ Cardinality(Dynamic) <= 1
       /\ \A i \in 1..Len(elements) : ItemWidth(elements[i]) # None
       /\ \A i \in Dynamic : ItemWidth(elements[i]) > 0

\* What is encoded is decoded to the same fields, wherever the one dynamic
\* array stands and whatever is nested (decode_dataset_inner recomputes the
\* width of what follows; encode_dataset_inner never needs it).
PayloadsRoundTrip ==
    parse = "done" =>
        \A id \in {datasets[i].id : i \in 1..Len(datasets)} :
            Determined(id) =>
                \A items \in 0..MaxItems :
                    Decode(id, EncodedLength(id, items)) = Encoded(id, items)
=============================================================================

---------------------------- MODULE HttpHeaders ----------------------------
(***************************************************************************)
(* http_header and http_headers of src/shared/http.c: an array of headers  *)
(* that only grows.  http_headers_clear sets its length to 0 and keeps the *)
(* elements, name and values included, for the next use of the structure.  *)
(*                                                                         *)
(* Names that differ in case are the same name here, as they are for       *)
(* http_headers_get_cstr.  What malloc has allocated for a header's values *)
(* is left out: an element of values is written before it is read.         *)
(***************************************************************************)
EXTENDS Naturals, Sequences, FiniteSets

\* slots: the array, up to headers_capacity; length: headers_length.
NoHeaders == [slots |-> <<>>, length |-> 0]

HeadersOf(Names, Values) ==
    {h \in [slots : Seq([name : Names, values : Seq(Values)]), length : Nat] :
        h.length <= Len(h.slots)}

\* http_headers_clear
HeadersClear(headers) == [headers EXCEPT !.length = 0]

\* http_headers_get_cstr(headers, name, 0): the first with that name, 0 for NULL.
HeadersGet(headers, name) ==
    LET found == {i \in 1..headers.length : headers.slots[i].name = name}
    IN  IF found = {} THEN 0 ELSE CHOOSE i \in found : \A j \in found : i <= j

\* http_header_get_num_values and http_header_get_value of the header at i.
HeaderValues(headers, i) == headers.slots[i].values

\* http_header_clear
HeaderClear(headers, i) == [headers EXCEPT !.slots[i].values = <<>>]

\* http_header_append_value, and the value that is then set.
HeaderAppend(headers, i, v) == [headers EXCEPT !.slots[i].values = Append(@, v)]

\* Mutant of HeadersAdd: the values of the slot's last use stay.
HeadersAddKeeps(headers, name) ==
    LET i == headers.length + 1
    IN  IF headers.length = Len(headers.slots)
        THEN [slots |-> Append(headers.slots, [name |-> name, values |-> <<>>]), length |-> i]
        ELSE [slots |-> [headers.slots EXCEPT ![i].name = name], length |-> i]

\* A new header at the end, in a slot of an earlier use if there is one.
HeadersAdd(headers, name) ==
    LET i == headers.length + 1
        new == [name |-> name, values |-> <<>>]
    IN  IF headers.length = Len(headers.slots)
        THEN [slots |-> Append(headers.slots, new), length |-> i]
        ELSE [slots |-> [headers.slots EXCEPT ![i] = new], length |-> i]

\* The array after http_headers_get_cstr(headers, name, 1).
HeadersEnsure(headers, name) ==
    IF HeadersGet(headers, name) # 0 THEN headers ELSE HeadersAdd(headers, name)

\* A value appended to the header of that name, which is added if it is missing.
HeadersAppend(headers, name, v) ==
    LET ensured == HeadersEnsure(headers, name)
    IN  HeaderAppend(ensured, HeadersGet(ensured, name), v)

\* The values http_headers_get_cstr finds under a name, none for NULL.
ValuesOf(headers, name) ==
    IF HeadersGet(headers, name) = 0 THEN <<>>
    ELSE HeaderValues(headers, HeadersGet(headers, name))
=============================================================================

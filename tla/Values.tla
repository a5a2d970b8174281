------------------------------- MODULE Values -------------------------------
(***************************************************************************)
(* The values the stores and the API surfaces exchange.  A column that is  *)
(* a Go string on both backends is a plain value; every other column is a  *)
(* typed cell, or NULL.  A JSON document is null, or an object with its    *)
(* content, or a value that MCSurfaces names.                              *)
(***************************************************************************)
NULL == [type |-> "null"]
Cell(type, value) == [type |-> type, value |-> value]

JsonNull == [type |-> "null"]
Object(v) == [type |-> "object", val |-> v]
EmptyObject == Object([empty |-> TRUE])

\* What an empty value is left out as, and a conversion of each element.
Optional(v, zero) == IF v = zero THEN <<>> ELSE <<v>>
Each(s, To(_)) == [i \in DOMAIN s |-> To(s[i])]
=============================================================================

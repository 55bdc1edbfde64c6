--------------------------- MODULE MCImportTable ---------------------------
(* Two modules; the first exports one function under two names and does not *)
(* export the third.                                                        *)
EXTENDS ImportTable

Addresses == [k |-> [f |-> "k.f", g |-> "k.f", h |-> "null"],
              u |-> [f |-> "u.f", g |-> "u.g", h |-> "u.h"]]

ThunkLists ==
  LET thunk == [by : {"name", "ordinal"}, fn : {"f", "g"}]
  IN {<<a>> : a \in thunk} \cup {<<a, b>> : a \in thunk, b \in thunk}

DescriptorsOf(names) == [name : names, OriginalFirstThunk : BOOLEAN, thunks : ThunkLists]

\* One descriptor, or one in front of another, perhaps for the same module,
\* that the directory may not cover.
SomeImages ==
  [valid : BOOLEAN, covered : {1}, descriptors : {<<d>> : d \in DescriptorsOf({"u", "k"})}]
  \cup
  [valid : {TRUE}, covered : {1, 2},
   descriptors : {<<[name |-> n, OriginalFirstThunk |-> TRUE, thunks |-> <<[by |-> "ordinal", fn |-> "f"]>>], d>> :
                    n \in {"u", "k"}, d \in DescriptorsOf({"u"})}]
=============================================================================

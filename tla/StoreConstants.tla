--------------------------- MODULE StoreConstants ---------------------------
(* What a KeyedStore is of: its contents, its guard and its edits.          *)

CONSTANTS
    Ops,        \* the edits callers submit, each at most once
    Raw,        \* whatever storage may hold, well-formed or not
    Values,     \* the contents that pass the store's entry guard
    Guard,      \* Guard[r]: the part of r that passes the guard
    Edit,       \* Edit[op][v]: what the edit makes of contents v
    NoSnapshot  \* no edit has read yet

ASSUME StoreAssumption ==
    /\ Values \subseteq Raw
    /\ Guard \in [Raw -> Values]
    /\ \A v \in Values : Guard[v] = v
    /\ Edit \in [Ops -> [Values -> Values]]
    /\ NoSnapshot \notin Values
=============================================================================

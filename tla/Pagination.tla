---- MODULE Pagination ----
(****************************************************************************)
(* The listing endpoints: which rows a page holds. Rows are numbered by     *)
(* created_at and listed newest first.                                      *)
(****************************************************************************)
EXTENDS Integers, FiniteSets

CONSTANTS
    DefaultLimit,  \* DEFAULT_PAGE_LIMIT
    MaxLimit,      \* MAX_PAGE_LIMIT
    MaxInt         \* the largest Go int

\* config.Load refuses anything else.
ASSUME PaginationAssumption ==
    /\ DefaultLimit \in Nat \ {0}
    /\ MaxLimit \in Nat /\ DefaultLimit <= MaxLimit
    /\ MaxInt \in Nat

NormalPage(page) == IF page <= 0 THEN 1 ELSE page

NormalLimit(limit) ==
    LET asked == IF limit <= 0 THEN DefaultLimit ELSE limit
    IN IF asked > MaxLimit THEN MaxLimit ELSE asked

\* Go's int multiplication wraps around.
WrapInt(n) == ((n + MaxInt + 1) % (2 * (MaxInt + 1))) - (MaxInt + 1)

\* Mutant: pages are counted from 0.
Offset_FromZero(page, limit) == WrapInt(page * limit)

Offset(page, limit) == WrapInt((page - 1) * limit)

\* ORDER BY created_at DESC OFFSET .. LIMIT ..; gorm writes no OFFSET that is
\* not positive.
OnPage(rows, page, limit) ==
    LET offset == Offset(page, limit)
        skipped == IF offset > 0 THEN offset ELSE 0
        rank(r) == Cardinality({s \in rows : s >= r})
    IN {r \in rows : rank(r) \in (skipped + 1)..(skipped + limit)}

Listed(rows, page, limit) == OnPage(rows, NormalPage(page), NormalLimit(limit))
====

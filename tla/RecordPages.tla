---------------------------- MODULE RecordPages ----------------------------
(***************************************************************************)
(* GET /jobs/{id}/records: the rows of the records table and a client that *)
(* reads those of its job page by page, until a page comes back short.     *)
(* list_by_job says LIMIT and OFFSET and no ORDER BY: the order in which a *)
(* statement returns the rows is open, from one page to the next as well,  *)
(* whether or not something was written in between.                        *)
(***************************************************************************)
EXTENDS Integers, SequencesExt

CONSTANTS
    Records,  \* the records of the client's job
    Early,    \* those of them that are stored before this begins
    Others,   \* the records of other jobs in the table
    Limit     \* the client's limit

ASSUME PageAssumption ==
    /\ Limit \in Nat \ {0}
    /\ Early \subseteq Records /\ Records \cap Others = {}
    /\ IsFiniteSet(Records) /\ IsFiniteSet(Others)

VARIABLES
    rows,    \* the records that have a row in the table
    got,     \* what the client has received so far
    offset,  \* the offset of its next request
    more     \* it has not seen a short page yet

pageVars == <<rows, got, offset, more>>

PagesTypeOK ==
    /\ rows \in SUBSET (Records \cup Others)
    /\ got \in Seq(Records)
    /\ offset \in Nat
    /\ more \in BOOLEAN

Stored == rows \cap Records

PagesInit ==
    /\ rows = Others \cup Early
    /\ got = <<>> /\ offset = 0 /\ more = TRUE

Slice(s) == SubSeq(s, offset + 1, IF offset + Limit < Len(s) THEN offset + Limit ELSE Len(s))

\* The page is cut before the join with the job's tasks has chosen its records.
BrokenPages == {SelectSeq(Slice(s), LAMBDA r : r \in Records) : s \in SetToSeqs(rows)}

\* What a statement may return: a slice of the job's records in any order.  Each is one
\* row of the result, however many summaries it is joined with: SQLAlchemy applies
\* LIMIT and OFFSET in a subquery, before the summaries come in.
Pages == {Slice(s) : s \in SetToSeqs(Stored)}

FetchPage ==
    \E page \in Pages :
        /\ got' = got \o page
        /\ offset' = offset + Limit
        /\ more' = (more /\ Len(page) = Limit)
        /\ UNCHANGED rows

\* A commit adds the records new; an update changes none of what is followed here.
WriteRows(new) ==
    /\ rows' = rows \cup new
    /\ UNCHANGED <<got, offset, more>>

\* When the client is shown a short page it has received as many entries as its job has
\* records at that moment, though records were inserted between its pages: no gap and no
\* overlap of offsets.  Which records those are is open, except for a job that fits in
\* one page: then each is there, and once.
PagesAddUp ==
    [][more /\ ~more' =>
        /\ Len(got') = Cardinality(Stored)
        /\ offset = 0 => IsInjective(got') /\ Range(got') = Stored]_pageVars
=============================================================================

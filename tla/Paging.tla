------------------------------- MODULE Paging -------------------------------
(***************************************************************************)
(* How a listing is cut into pages: the pager of the category and search   *)
(* pages (crates/web) and the page arguments of the product queries        *)
(* (crates/api-graphql).                                                   *)
(***************************************************************************)
EXTENDS Integers, Sequences

AtLeast(low, n)  == IF n < low THEN low ELSE n
AtMost(high, n)  == IF n > high THEN high ELSE n
CeilDiv(n, d)    == (n + d - 1) \div d

MaxPagesShown == 5

TotalPages(total, limit) == AtLeast(1, CeilDiv(total, AtLeast(1, limit)))

\* web: the page that is shown, and the links the pager offers: five at most,
\* with the page in their middle where there are enough on either side.
Paginate(total, requested, limit) ==
    LET pages == TotalPages(total, limit)
        page  == AtLeast(1, AtMost(pages, requested))
        from  == AtLeast(1, page - MaxPagesShown \div 2)
        to    == AtMost(pages, from + MaxPagesShown - 1)
        from2 == IF to - from + 1 < MaxPagesShown
                 THEN AtLeast(1, to - MaxPagesShown + 1) ELSE from
    IN [page         |-> page,
        limit        |-> AtLeast(1, limit),
        total_pages  |-> pages,
        page_numbers |-> from2 .. AtLeast(from2, to),
        prev_page    |-> AtLeast(1, page - 1),
        next_page    |-> AtMost(pages, page + 1)]

\* What category.rs and search.rs show of the ids they found.
GridStart(p)      == (p.page - 1) * p.limit
GridEnd(p, total) == AtMost(total, GridStart(p) + p.limit)
GridSlice(ids, p) ==
    SubSeq(ids, AtMost(Len(ids), GridStart(p)) + 1, GridEnd(p, Len(ids)))

\* api-graphql: the slice of a query's matches, from start to before end.
QueryPage(total, page_size, current_page) ==
    LET size  == AtLeast(1, page_size)
        start == AtMost(total, (AtLeast(1, current_page) - 1) * size)
    IN [start |-> start, end |-> AtMost(total, start + size),
        total_pages |-> TotalPages(total, page_size)]

QuerySlice(items, page_size, current_page) ==
    LET p == QueryPage(Len(items), page_size, current_page)
    IN SubSeq(items, p.start + 1, p.end)
=============================================================================

---------------------------- MODULE MCContentPage ----------------------------
(* The page of an item in any state a page is worked on in, or of a new one;  *)
(* a list of two rows under one query of its page or the other; the page of   *)
(* one of an item's two reviews.                                              *)
EXTENDS BrowserPages

CONSTANTS a, b, author, editor

Item(status) == [text |-> a, status |-> status, generation |-> 0, slots |-> <<>>]
Items == {Item(status) : status \in {"draft", "approved", "scheduled", "failed"}}

ListQuery(of, limit, listing) ==
  [page |-> listing, of |-> of, limit |-> limit, from |-> 0, before |-> MaxTime + 1,
   overdue |-> listing = "reviews"]
Lists ==
  { ListQuery({2}, 1, "content"), ListQuery(Candidates, 2, "content"),
    [ListQuery(Candidates, 1, "calendar") EXCEPT !.before = 2],
    [ListQuery(Candidates, 2, "calendar") EXCEPT !.from = 2],
    ListQuery(Candidates, 1, "reviews"),
    ListQuery(Candidates, 1, "operations"),
    ListQuery(Candidates, 1, "activity") }
=============================================================================

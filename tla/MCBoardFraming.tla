--------------------------- MODULE MCBoardFraming ---------------------------
(* A small instance of BoardFraming.                                       *)
EXTENDS BoardFraming

CONSTANTS s1, s2

TwoScreens == <<s1, s2>>
Sec(p, n) == [page |-> p, items |-> n]

(* A page that defers a section, one that splits a section and defers the  *)
(* next, two pages of mixed sections one of them empty: for walls of 2 to  *)
(* 6 items. The second board's first page is not published.                *)
SomeBoards ==
    {[pages |-> {1}, sections |-> <<Sec(1, 3), Sec(1, 2), Sec(1, 3)>>],
     [pages |-> {2}, sections |-> <<Sec(2, 7), Sec(2, 2)>>],
     [pages |-> {1, 2}, sections |-> <<Sec(1, 1), Sec(2, 4), Sec(2, 0), Sec(1, 7)>>]}
=============================================================================

---------------------------- MODULE MCBlockLists ----------------------------
EXTENDS BlockLists

CONSTANTS Ads, Seen, banner, tracker, bad, adder, reader

Lst(l)     == [op |-> "lst", list |-> l, line |-> bad]
Not(l)     == [op |-> "unless", list |-> l, line |-> bad]
Add(l, x)  == [op |-> "add", list |-> l, line |-> x]
End        == [op |-> "end", list |-> Ads, line |-> bad]

\* (^$LST(Ads))$ADDLST(Seen,tracker)$ADDLST(Ads,banner), and $LST(Ads)$LST(Seen).
MCFilters  == [m \in Matchers |->
                 IF m = adder THEN {<<Not(Ads), Add(Seen, tracker), Add(Ads, banner), End>>}
                 ELSE {<<Lst(Ads), Lst(Seen), End>>}]
MCContents == {<<tracker>>, <<bad>>, <<LogMark>>}
=============================================================================

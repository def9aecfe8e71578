----------------------------- MODULE MCCorpusRun -----------------------------
(***************************************************************************)
(* Three cases of two suites, two of them at one path because a dash joins *)
(* the suite to the case (suite a-b, case c and suite a, case b-c).  The   *)
(* first begins a transaction on a second connection and reads on main;    *)
(* the second owes a condition; the third reads over a load and exports.   *)
(***************************************************************************)
EXTENDS CorpusRun

S(on, does) == [on |-> on, does |-> does]
MCCases == <<
    [suite |-> <<"a", "b">>, name |-> <<"c">>, load |-> FALSE,
     setup |-> <<S("main", "write"), S("other", "begin"), S("other", "write")>>,
     on |-> "main", does |-> "read", raises |-> NoCode, wants |-> {1},
     arrow |-> "given"],
    [suite |-> <<"a">>, name |-> <<"b", "c">>, load |-> FALSE, setup |-> <<>>,
     on |-> "main", does |-> "write", raises |-> [class |-> "42", sub |-> "001"],
     wants |-> {}, arrow |-> "unsaid"],
    [suite |-> <<"a">>, name |-> <<"d">>, load |-> TRUE,
     setup |-> <<S("side", "begin"), S("side", "write"), S("side", "commit")>>,
     on |-> "side", does |-> "read", raises |-> NoCode, wants |-> {0, 3},
     arrow |-> "refused"] >>
MCCodes == {[class |-> "42", sub |-> "001"], [class |-> "0A", sub |-> "000"],
            [class |-> "22", sub |-> "012"]}
=============================================================================

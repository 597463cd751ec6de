----------------------------- MODULE MCRepairRun -----------------------------
(***************************************************************************)
(* An instance of RepairRun: three files, a link to the tests and a path   *)
(* that is refused; requests that take every way through the authoring and *)
(* through the repair loop.                                                *)
(***************************************************************************)
EXTENDS RepairRun

MCFiles == {"app", "util", "tests"}
MCNames == MCFiles \union {"link", "outside_link"}
MCResolves == [n \in MCNames |-> CASE n = "link" -> "tests" [] n = "outside_link" -> Outside [] OTHER -> n]
MCLabels == [n \in MCNames |-> CASE n = "tests" -> {"test"} [] n \in {"app", "link"} -> {"src"} [] OTHER -> {}]

MCInitialFiles ==
  {[f \in MCFiles |-> IF f = "util" THEN <<"a", "b">> ELSE <<"a">>]}

MCTheirTexts == {Absent, <<"a">>}

\* The fields of the records below are in the order in which TLC sorts them: its
\* workers share the values, and never have to reorder one.
Replace(path, before, after) == [path |-> path, before |-> before, after |-> after, create |-> FALSE]
Create(path) == [path |-> path, before |-> "a", after |-> "b", create |-> TRUE]

Response(id, form, confidence, words, size, mutations) ==
  [id |-> id, form |-> form, confidence |-> confidence, words |-> words, size |-> size,
   mutations |-> mutations]

Sound(id, mutations) == Response(id, "sound", 90, {}, "small", mutations)

AppToB == <<Replace("app", "a", "b")>>
Both == <<Replace("app", "a", "b"), Replace("util", "a", "c")>>

Direct(class) == [class |-> class, strength |-> "direct", failing |-> TRUE]

Authored(objective, evidence, responses) ==
  [objective |-> objective, evidence |-> evidence, responses |-> responses, authored |-> TRUE,
   patches |-> <<>>]

Explicit(patches) ==
  [objective |-> {}, evidence |-> Direct("unmatched"), responses |-> <<>>, authored |-> FALSE,
   patches |-> patches]

Change(path, before, after) == [path |-> path, before |-> before, after |-> after, mode |-> "exact"]
OfAny(path, after) == [path |-> path, before |-> <<>>, after |-> after, mode |-> "any"]
OfPart(path, before, after) ==
  [path |-> path, before |-> <<before>>, after |-> <<after>>, mode |-> "part"]

MCRequests ==
  {\* two proposals under one id, a link, and two that are as good
   Authored({}, Direct("unmatched"),
     <<Sound("p", <<Replace("tests", "a", "b")>>), Sound("p", AppToB)>>),
   Authored({}, Direct("syntax_error"),
     <<Sound("p", <<Replace("link", "a", "b")>>), Sound("q", Both), Sound("r", AppToB)>>),
   \* one that is not read, one too many, and one that ends the authoring
   Authored({}, Direct("other"),
     <<Response("p", "unreadable", 90, {}, "small", AppToB), Sound("q", <<Create("util")>>),
       Sound("r", <<Replace("outside_link", "a", "b")>>), Sound("s", AppToB)>>),
   Authored({"governance"}, Direct("import_error"),
     <<Sound("p", AppToB), Response("q", "blank", 90, {}, "small", AppToB)>>),
   Authored({}, Direct("unmatched"), <<Sound("p", <<Replace("app", "a", "b"), Replace("app", "a", "c")>>)>>),
   \* nothing to select
   Authored({"unsafe"}, [class |-> "unmatched", strength |-> "weak", failing |-> FALSE],
     <<Sound("p", AppToB), Response("q", "sound", 20, {"unsafe"}, "large", AppToB)>>),
   Authored({}, Direct("missing_symbol"), <<Response("p", "sound", 60, {"delete_like"}, "medium", AppToB)>>),
   Authored({}, Direct("missing_symbol"), <<>>),
   Authored({}, Direct("assertion_mismatch"), <<Response("p", "sound", 40, {}, "medium", AppToB)>>),
   \* an operator's patches: with exact texts; with the other modes, and more than may be tried
   Explicit(<<<<Change("app", <<"a">>, <<"b">>), Change("util", <<>>, <<"b">>)>>,
              <<Change("app", <<"b">>, <<"a">>), Change("outside_link", <<>>, <<"b">>)>>>>),
   Explicit(<<<<OfPart("util", "b", "c"), OfAny("app", <<"c">>)>>,
              <<Change("util", <<"a", "c">>, <<>>), Change("link", <<"a">>, <<"b">>)>>,
              <<Change("app", <<"c">>, <<"a">>)>>>>)}

=============================================================================

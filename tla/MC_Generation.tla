------------------------------ MODULE MC_Generation ------------------------------
(***************************************************************************)
(* The candidates of a seed shaped like the bundled one, whose line names  *)
(* end in a blank and one of whose prices has a tenth of a cent, and every *)
(* one-step reduction of each of them.                                     *)
(***************************************************************************)
EXTENDS Generation

SeedLine(identifier, note, extras, quantity, price) ==
  [identifier |-> <<"Zeile", identifier>>, name |-> <<"Z", " ">>,
   note |-> note, description |-> <<"D", "!">>, extras |-> extras,
   quantity |-> quantity, price |-> price, rate |-> 7]
SeedText == [f \in Required \cup Optional |->
  CASE f \in {"sellerEndpoint", "buyerEndpoint"} -> <<"m", "@", "b">>
    [] f = "paymentDueDate"   -> <<"30">>
    [] f = "sellerIdentifier" -> Absent
    [] OTHER -> <<f, "12", "3">>]
SeedInvoice ==
  [header |-> SeedText,
   lines |-> << SeedLine("a", <<"N", "o">>, {"period", "sellerItem"}, 1000, 288790),
                SeedLine("b", Absent, {}, 1500, 26075) >>]

GateAndShard == {<<0, 1>>, <<1, 3>>}
SomeNames ==
  {"validator.jar", "configuration.zip", "repository", "scenarios.xml",
   "a", "A", "b", "c", "d", "e"}
(* Archives of up to three of these entries, and where an operation fails. *)
File(parts, admissible, intact) ==
  [parts |-> parts, kind |-> "file", admissible |-> admissible, intact |-> intact]
ArchiveEntries ==
  { File(<<"scenarios.xml">>, TRUE, TRUE), File(<<"a">>, TRUE, TRUE),
    File(<<"a", "b">>, TRUE, TRUE), File(<<"A", "b">>, TRUE, TRUE),
    File(<<"a", "c", "d">>, TRUE, FALSE), File(<<"e">>, FALSE, TRUE),
    [File(<<"a", "c">>, TRUE, TRUE) EXCEPT !.kind = "directory"] }
SmallArchives == UNION {[1..n -> ArchiveEntries] : n \in 1..3}
InLowerCase == [name \in SomeNames |-> IF name = "A" THEN "a" ELSE name]
UpToTwelve == 0..12
AnyRejected == {{}, {0}, {70, 71}, {399}}
=============================================================================

----------------------------- MODULE MC_ShrinkText -----------------------------
(***************************************************************************)
(* Shrink on the real reduction relation, from an invoice whose identifier *)
(* has four equal characters and everything else is minimal: it shrinks to *)
(* xx, xxx or A, xxx to xx or A, and xx to x or A.  A document may be      *)
(* rejected and met again below a later acceptance, or be dropped at one.  *)
(***************************************************************************)
EXTENDS Shrink, ReductionRelation

TextInvoice ==
  [header |-> [f \in Required \cup Optional |->
                 CASE f = "identifier" -> <<"x", "x", "x", "x">>
                   [] f \in {"sellerEndpoint", "buyerEndpoint"} -> <<"@">>
                   [] f \in Optional -> Absent
                   [] OTHER -> <<"A">>],
   lines |-> << [identifier |-> <<"1">>, name |-> <<"A">>, note |-> Absent,
                 description |-> Absent, extras |-> {}, quantity |-> Unit,
                 price |-> Unit, rate |-> 7] >>]

(* Documents are numbered in the order in which breadth-first reduction    *)
(* meets them.  The table is written out, so that it is not computed again *)
(* in every state, and compared with the relation once.                    *)
Depth == 4
Reachable(invoice) ==
  FoldLeft(LAMBDA met, level :
             met \o FirstOccurrences(FlattenSeq(Each(OneStepReductions, met)),
                                     Range(met)),
           <<invoice>>, [level \in 1..Depth |-> level])
Number(met, invoice) == CHOOSE n \in DOMAIN met : met[n] = invoice
Table(met) ==
  [n \in DOMAIN met |-> [k \in DOMAIN OneStepReductions(met[n]) |->
                           Number(met, OneStepReductions(met[n])[k])]]

TextDocs == 1..5                       \* xxxx, xx, xxx, A, x
TextReduce == << <<2, 3, 4>>, <<5, 4>>, <<2, 4>>, <<>>, <<>> >>
ASSUME TextTable == TextReduce = Table(Reachable(TextInvoice))

(* The kinds of importer. *)
Truthful == {{TRUE}, {FALSE}}
Flaky == {{TRUE}, {FALSE}, BOOLEAN}
=============================================================================

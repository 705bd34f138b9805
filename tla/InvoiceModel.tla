------------------------------ MODULE InvoiceModel ------------------------------
(***************************************************************************)
(* The invoice of src/rechnungsprobe/model.py: what makes it valid, its    *)
(* rounded totals, and what serialize_invoice and parse_invoice make of it.*)
(*                                                                         *)
(* The fields are those that the mutators and the reductions tell apart;   *)
(* sellerAddress stands for street, city and postal code, and for the      *)
(* buyer's too, an extra for an optional member of a line that is only     *)
(* ever removed.  A text is a sequence of characters, the empty one for    *)
(* None; quantities and prices are in thousandths (the code allows six     *)
(* places), amounts of money in cents, rates in percent.                   *)
(***************************************************************************)
EXTENDS Integers, Sequences, FiniteSets, SequencesExt

Absent == <<>>
Required == {"identifier", "buyerReference", "paymentTerms", "sellerEndpoint",
             "sellerName", "sellerAddress", "buyerEndpoint", "buyerName"}
Optional == {"note", "paymentDueDate", "sellerTradingName", "sellerIdentifier"}
Extras == {"period", "orderLineReference", "sellerItem", "classification"}
Unit == 1000                             \* the quantity or price 1

(* The lines and invoices whose texts are sequences over C. *)
LinesOver(C) ==
  [identifier : Seq(C), name : Seq(C), note : Seq(C), description : Seq(C),
   extras : SUBSET Extras, quantity : Int, price : Int, rate : Int]
InvoicesOver(C) ==
  [header : [Required \cup Optional -> Seq(C)], lines : Seq(LinesOver(C))]

-----------------------------------------------------------------------------
(* quantize, with ROUND_HALF_UP for money and the default ROUND_HALF_EVEN  *)
(* elsewhere.                                                              *)
RoundDown(n, d) == n \div d
HalfUp(n, d) == (2 * n + d) \div (2 * d)
HalfEven(n, d) ==
  LET low == n \div d
      up == \/ 2 * (n % d) > d
            \/ 2 * (n % d) = d /\ low % 2 = 1
  IN  d * (low + (IF up THEN 1 ELSE 0))

LineExtension(line) == HalfUp(line.quantity * line.price, 10000)
Tax(line) == HalfUp(LineExtension(line) * line.rate, 100)

(* The sum of a sequence of numbers; a function of its own, so that it can *)
(* be reasoned about.                                                      *)
SumOf(terms) ==
  LET upTo[n \in 0..Len(terms)] == IF n = 0 THEN 0 ELSE upTo[n - 1] + terms[n]
  IN  upTo[Len(terms)]
Total(amount(_), invoice) ==
  SumOf([i \in DOMAIN invoice.lines |-> amount(invoice.lines[i])])
LineTotal(invoice) == Total(LineExtension, invoice)
TaxTotal(invoice) == Total(Tax, invoice)
PayableTotal(invoice) == LineTotal(invoice) + TaxTotal(invoice)

-----------------------------------------------------------------------------
(* Invoice.validate, Party.validate and InvoiceLine.validate, on the fields *)
(* modelled; endpoints have the scheme EM, as the seed's have.  Lengths,   *)
(* control characters, upper bounds of numbers and the due date are left   *)
(* out: no mutator or reduction comes near them.                           *)
ValidLine(line) ==
  /\ line.identifier # Absent /\ line.name # Absent
  /\ line.quantity > 0 /\ line.price >= 0 /\ line.rate > 0

DistinctIdentifiers(lines) ==
  \A i, j \in DOMAIN lines :
    i # j => lines[i].identifier # lines[j].identifier

Valid(invoice) ==
  /\ \A f \in Required : invoice.header[f] # Absent
  /\ \A f \in {"sellerEndpoint", "buyerEndpoint"} :
        "@" \in Range(invoice.header[f])
  /\ Len(invoice.lines) \in 1..100
  /\ \A i \in DOMAIN invoice.lines : ValidLine(invoice.lines[i])
  /\ DistinctIdentifiers(invoice.lines)
  /\ Cardinality({invoice.lines[i].rate : i \in DOMAIN invoice.lines}) = 1

-----------------------------------------------------------------------------
(* serialize_invoice: optional elements are left out, the subtotal of the  *)
(* tax has the rate of the first line, every amount of money has two       *)
(* places.                                                                 *)
RequiredOnly(header) == Required
Present(header) == {f \in DOMAIN header : header[f] # Absent}

LineTexts == {"identifier", "name", "note", "description"}
WrittenLine(line) ==
  [text |-> [m \in {m \in LineTexts : line[m] # Absent} |-> line[m]],
   extras |-> line.extras, quantity |-> line.quantity, price |-> line.price,
   rate |-> line.rate, extension |-> LineExtension(line)]

Serialize(invoice) ==
  [header |-> [f \in Present(invoice.header) |-> invoice.header[f]],
   lines |-> [i \in DOMAIN invoice.lines |-> WrittenLine(invoice.lines[i])],
   taxable |-> LineTotal(invoice), rate |-> Head(invoice.lines).rate,
   tax |-> TaxTotal(invoice), lineTotal |-> LineTotal(invoice),
   payable |-> PayableTotal(invoice)]

(* parse_invoice: a required text may not be blank, an empty text is none, *)
(* and the amounts that are reported have to be those of the lines.        *)
Blank(text) == Range(text) \subseteq {" "}
Found(elements, name) == IF name \in DOMAIN elements THEN elements[name] ELSE Absent

ParsedLine(line) ==
  [identifier |-> Found(line.text, "identifier"), name |-> Found(line.text, "name"),
   note |-> Found(line.text, "note"), description |-> Found(line.text, "description"),
   extras |-> line.extras, quantity |-> line.quantity, price |-> line.price,
   rate |-> line.rate]
Parsed(document) ==
  [header |-> [f \in Required \cup Optional |-> Found(document.header, f)],
   lines |-> [i \in DOMAIN document.lines |-> ParsedLine(document.lines[i])]]

Parses(document) ==
  LET invoice == Parsed(document)
  IN  /\ \A f \in Required : ~Blank(invoice.header[f])
      /\ \A i \in DOMAIN invoice.lines :
            /\ ~Blank(invoice.lines[i].identifier)
            /\ ~Blank(invoice.lines[i].name)
            /\ document.lines[i].extension = LineExtension(invoice.lines[i])
      /\ Valid(invoice)
      /\ document.lineTotal = LineTotal(invoice)
      /\ document.tax = TaxTotal(invoice)
      /\ document.payable = PayableTotal(invoice)

=============================================================================

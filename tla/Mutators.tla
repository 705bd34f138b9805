-------------------------------- MODULE Mutators --------------------------------
(***************************************************************************)
(* The twenty mutators of src/rechnungsprobe/mutators.py, in the order of  *)
(* the MUTATORS table, over the fields of InvoiceModel.  A formatted text  *)
(* is its parts: the fixed words and the number in it.                     *)
(***************************************************************************)
EXTENDS InvoiceModel

MutatorOrder ==
  << "invoice-id", "buyer-reference", "invoice-note-unicode", "seller-endpoint",
     "buyer-endpoint", "seller-name", "buyer-name", "payment-terms", "line-order",
     "line-description", "line-identifier", "quantity-scale", "price-scale",
     "vat-rate", "line-note", "seller-identifier", "address-variant", "add-line",
     "remove-optionals", "payment-due-date" >>

Digits(n) == ToString(n)
Worded(word, n) == <<word, Digits(n)>>
Mail(word, n) == <<word, Digits(n), "@", "example.invalid">>

SetField(invoice, f, text) == [invoice EXCEPT !.header[f] = text]
SetFirst(invoice, m, value) == [invoice EXCEPT !.lines[1][m] = value]

WithoutOptionals(line) ==
  [line EXCEPT !.note = Absent, !.description = Absent, !.extras = {}]

SellerName(invoice, token) ==
  SetField(SetField(invoice, "sellerTradingName", Worded("Musterlieferant", token)),
           "sellerName", Worded("Musterlieferant GmbH", token))

VatRate(invoice) ==
  LET rate == IF Head(invoice.lines).rate = 19 THEN 7 ELSE 19
  IN  [invoice EXCEPT !.lines = [i \in DOMAIN @ |-> [@[i] EXCEPT !.rate = rate]]]

(* The added line is the first one with an identifier and a name of its    *)
(* own, at quantity 1 and price 1.00 and without its optional members.     *)
AddLine(invoice, token) ==
  LET added == [WithoutOptionals(Head(invoice.lines)) EXCEPT
                  !.identifier = Worded("ZUSATZ", token), !.quantity = Unit,
                  !.price = Unit, !.name = Worded("Zusatzposition", token)]
  IN  [invoice EXCEPT !.lines = Append(@, added)]

RemoveOptionals(invoice) ==
  [SetField(invoice, "note", Absent) EXCEPT !.lines[1] = WithoutOptionals(@)]

Mutated(invoice, name, token) ==
  CASE name = "invoice-id"      -> SetField(invoice, "identifier", Worded("RP", token))
    [] name = "buyer-reference" ->
         SetField(invoice, "buyerReference", Worded("LEITWEG-ID", token))
    [] name = "invoice-note-unicode" -> SetField(invoice, "note", Worded("Nr.", token))
    [] name = "seller-endpoint" -> SetField(invoice, "sellerEndpoint", Mail("seller", token))
    [] name = "buyer-endpoint"  -> SetField(invoice, "buyerEndpoint", Mail("buyer", token))
    [] name = "seller-name"     -> SellerName(invoice, token)
    [] name = "buyer-name"      -> SetField(invoice, "buyerName", Worded("Musterkunde", token))
    [] name = "payment-terms"   ->
         SetField(invoice, "paymentTerms", Worded("Tage", (token % 28) + 1))
    [] name = "line-order"      -> [invoice EXCEPT !.lines = Reverse(@)]
    [] name = "line-description" -> SetFirst(invoice, "description", Worded("Variante", token))
    [] name = "line-identifier" -> SetFirst(invoice, "identifier", Worded("POSITION", token))
    [] name = "quantity-scale"  ->
         SetFirst(invoice, "quantity", ((token % 7) + 2) * (Unit \div 4))
    [] name = "price-scale"     ->
         SetFirst(invoice, "price", ((token % 997) + 101) * (Unit \div 100))
    [] name = "vat-rate"        -> VatRate(invoice)
    [] name = "line-note"       -> SetFirst(invoice, "note", Worded("Hinweis", token))
    [] name = "seller-identifier" ->
         SetField(invoice, "sellerIdentifier", Worded("DE-RP", token))
    [] name = "address-variant" ->
         SetField(invoice, "sellerAddress", Worded("Strasse", (token % 200) + 1))
    [] name = "add-line"        -> AddLine(invoice, token)
    [] name = "remove-optionals" -> RemoveOptionals(invoice)
    [] name = "payment-due-date" ->
         SetField(invoice, "paymentDueDate", <<Digits((token % 28) + 1)>>)

=============================================================================

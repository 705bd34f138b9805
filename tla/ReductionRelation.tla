-------------------------- MODULE ReductionRelation --------------------------
(***************************************************************************)
(* The one-step reductions of the shrinker (src/rechnungsprobe/shrink.py), *)
(* as a function from an invoice to the sequence of invoices that one      *)
(* declared operation yields from it, in the declared order, over the      *)
(* fields of InvoiceModel.                                                 *)
(***************************************************************************)
EXTENDS InvoiceModel

CONSTANT MinimalCharacter        \* the "A" of replace-minimal
ASSUME MinimalIsCharacter == MinimalCharacter \in STRING

-----------------------------------------------------------------------------
(* The members of s in order, each once, without those of excluded.        *)
FirstOccurrences(s, excluded) ==
  LET kept[n \in 0..Len(s)] ==
        IF n = 0 THEN <<>>
        ELSE LET before == kept[n - 1]
             IN  IF s[n] \in excluded \/ s[n] \in Range(before)
                 THEN before ELSE Append(before, s[n])
  IN  kept[Len(s)]

(* The reduced values of one text field; a text of one character has none. *)
ShorterTexts(s) ==
  LET n == Len(s)
  IN  FirstOccurrences(
        << SubSeq(s, 1, (n + 1) \div 2),          \* keep-prefix-half
           SubSeq(s, (n \div 2) + 1, n),          \* keep-suffix-half
           SubSeq(s, 1, n - 1),                   \* drop-last-character
           Tail(s),                               \* drop-first-character
           <<MinimalCharacter>> >>,               \* replace-minimal
        {s, <<>>})
TextReductions(s) == IF Len(s) <= 1 THEN <<>> ELSE ShorterTexts(s)

(* A decimal is set to 1 and rounded to two places; neither is a reduction *)
(* where it changes nothing.                                               *)
SetOne(n) == IF n = Unit THEN <<>> ELSE <<Unit>>
RoundTwo(n) == IF n = HalfEven(n, 10) THEN <<>> ELSE <<HalfEven(n, 10)>>
AmountReductions(n) == SetOne(n) \o RoundTwo(n)

(* s with f applied to each member. *)
Each(f(_), s) == [i \in DOMAIN s |-> f(s[i])]
AllOf(f(_), s) == FlattenSeq(Each(f, s))

RemoveMember(line, m) ==
  IF line[m] = Absent THEN <<>> ELSE <<[line EXCEPT ![m] = Absent]>>
ReduceMember(line, m) ==
  Each(LAMBDA t : [line EXCEPT ![m] = t], TextReductions(line[m]))

LineReductions(line) ==
  AllOf(LAMBDA m : RemoveMember(line, m), <<"note", "description">>)
  \o AllOf(LAMBDA x : IF x \in line.extras
                      THEN <<[line EXCEPT !.extras = @ \ {x}]>> ELSE <<>>,
           <<"orderLineReference", "sellerItem", "period", "classification">>)
  \o AllOf(LAMBDA m : ReduceMember(line, m),
           <<"identifier", "name", "note", "description">>)
  \o Each(LAMBDA n : [line EXCEPT !.quantity = n], AmountReductions(line.quantity))
  \o Each(LAMBDA n : [line EXCEPT !.price = n], AmountReductions(line.price))

-----------------------------------------------------------------------------
RemoveFields(invoice, fields) ==
  AllOf(LAMBDA f : IF invoice.header[f] = Absent THEN <<>>
                   ELSE <<[invoice EXCEPT !.header[f] = Absent]>>,
        fields)

ShortenFields(invoice, fields) ==
  AllOf(LAMBDA f : Each(LAMBDA t : [invoice EXCEPT !.header[f] = t],
                        TextReductions(invoice.header[f])),
        fields)

RemoveLines(invoice) ==          \* from the last line to the first
  IF Len(invoice.lines) = 1 THEN <<>>
  ELSE Each(LAMBDA i : [invoice EXCEPT !.lines = RemoveAt(@, i)],
            Reverse([i \in DOMAIN invoice.lines |-> i]))

PartyReductions(invoice) ==
  RemoveFields(invoice, <<"sellerTradingName", "sellerIdentifier">>)
  \o ShortenFields(invoice, <<"sellerEndpoint", "sellerName", "sellerAddress",
                        "buyerEndpoint", "buyerName">>)

ReduceLines(invoice) ==
  AllOf(LAMBDA i : Each(LAMBDA l : [invoice EXCEPT !.lines[i] = l],
                        LineReductions(invoice.lines[i])),
        [i \in DOMAIN invoice.lines |-> i])

DeclaredOperations(invoice) ==
  RemoveFields(invoice, <<"note", "paymentDueDate">>)
  \o RemoveLines(invoice)
  \o PartyReductions(invoice)
  \o ShortenFields(invoice, <<"identifier", "buyerReference", "paymentTerms">>)
  \o ReduceLines(invoice)

(* one_step_reductions: every declared operation, without the results that *)
(* are no invoice of the model, that repeat an earlier one, or that change *)
(* nothing.                                                                *)
OneStepUnvalidated(invoice) ==
  FirstOccurrences(DeclaredOperations(invoice), {invoice})

OneStepReductions(invoice) ==
  LET declared == DeclaredOperations(invoice)
      refused == {reduced \in Range(declared) : ~Valid(reduced)}
  IN  FirstOccurrences(declared, {invoice} \cup refused)

=============================================================================

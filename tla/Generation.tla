------------------------------- MODULE Generation -------------------------------
(***************************************************************************)
(* The candidates of generate_candidates together with what the program    *)
(* does with one of them: its rounded totals, its document written and     *)
(* read again, and its one-step reductions; and the profile that is        *)
(* unpacked to validate them.                                              *)
(***************************************************************************)
EXTENDS Candidates, ReductionRelation, Materialize

-----------------------------------------------------------------------------
Fresh == phase = "generating" /\ candidates # <<>>
Considered ==                     \* the newest candidate and its reductions
  IF ~Fresh THEN <<>>
  ELSE LET invoice == Last(candidates).invoice
       IN  <<invoice>> \o OneStepReductions(invoice)
Throughout(P(_), invoices) == \A i \in DOMAIN invoices : P(invoices[i])

Abs(n) == IF n < 0 THEN -n ELSE n

(* Every line and its tax is rounded on its own, half a cent either way    *)
(* at most, so the totals stay within half a cent per line of the amounts  *)
(* they stand for (model.py:148-219).                                      *)
WithinHalfACent(invoice) ==
  LET lines == Len(invoice.lines)
      gross == Total(LAMBDA line : line.quantity * line.price, invoice)
      tax == LineTotal(invoice) * Head(invoice.lines).rate
  IN  /\ 2 * Abs(10000 * LineTotal(invoice) - gross) <= 10000 * lines
      /\ 2 * Abs(100 * TaxTotal(invoice) - tax) <= 100 * lines
TotalsAgree == Throughout(WithinHalfACent, Considered)

(* What is written can be read again: parse_invoice accepts the document   *)
(* of every candidate and of every reduction, with its own totals, and     *)
(* gives the same invoice (model.py:357-412, 484-614).                     *)
Readable(invoice) ==
  /\ \A f \in Required : ~Blank(invoice.header[f])
  /\ \A i \in DOMAIN invoice.lines :
        ~Blank(invoice.lines[i].identifier) /\ ~Blank(invoice.lines[i].name)
ReadBack(invoice) ==
  LET document == Serialize(invoice)
  IN  Readable(invoice) => Parses(document) /\ Parsed(document) = invoice
RoundTrips == Throughout(ReadBack, Considered)

(* How much there is left to reduce. *)
Rank(n) == IF n = Unit THEN 0 ELSE IF HalfEven(n, 10) = n THEN 1 ELSE 2
LineSize(line) ==
  1 + Rank(line.quantity) + Rank(line.price) + Cardinality(line.extras)
  + Len(line.identifier) + Len(line.name) + Len(line.note) + Len(line.description)
Fields ==
  << "identifier", "buyerReference", "paymentTerms", "sellerEndpoint",
     "sellerName", "sellerAddress", "buyerEndpoint", "buyerName", "note",
     "paymentDueDate", "sellerTradingName", "sellerIdentifier" >>
HeaderSize(header) == SumOf([i \in DOMAIN Fields |-> Len(header[Fields[i]])])
Size(invoice) == HeaderSize(invoice.header) + Total(LineSize, invoice)

(* Every one-step reduction of a candidate is an invoice of the model, and *)
(* strictly smaller: no chain of reductions can go round (shrink.py:68-83, *)
(* 266-283, 328-341).                                                      *)
ReductionsAreSmallerInvoices ==
  Fresh =>
    LET invoice == Last(candidates).invoice
        size == Size(invoice)
    IN  Throughout(LAMBDA reduced : Valid(reduced) /\ Size(reduced) < size,
                   OneStepReductions(invoice))

(* Each validation unpacks the profile first.  Whatever fails on the way,  *)
(* at whatever operation, nothing that was written stays behind, so that   *)
(* the directory can be used again; and what succeeds holds exactly the    *)
(* members of the archive (profiles.py:93-121, security.py:126-176).       *)
FailureLeavesNothing ==
  phase = "validating" /\ offset = 0 /\ rejected = {} =>
    \A archive \in Archives, fs \in EmptyOrMissing, operations \in Operations,
       genuine \in {<<TRUE, TRUE>>, <<TRUE, FALSE>>} :
      LET result == Materialized(fs, archive, LowerCase, genuine, operations)
      IN  IF result.ok THEN DOMAIN result.fs = Unpacked(archive)
          ELSE HasScenarios(archive) => DOMAIN result.fs \subseteq {<<>>}

=============================================================================

----------------------------- MODULE MCInvoices -----------------------------
(* Model values and bounds for Invoices. *)
EXTENDS Invoices

CONSTANTS bank, ar, rev, vat

MCTypeOf == [a \in {bank, ar, rev, vat} |->
    CASE a = bank -> "BANK" [] a = ar -> "ASSET" [] a = rev -> "REVENUE" [] OTHER -> "LIABILITY"]

\* Two lines, one of them free of VAT: 15 and half a cent of VAT, rounded to 16.
MCCreateDtos ==
    {[lines |-> <<[amount |-> 5, taxable |-> TRUE], [amount |-> 10, taxable |-> FALSE]>>,
      taxRate |-> 10, debitNote |-> FALSE]}

\* An edit turns it into a debit note of 10, without VAT.
MCUpdateDtos ==
    {[lines |-> <<[amount |-> 10, taxable |-> TRUE]>>, taxRate |-> 10, debitNote |-> TRUE]}

Symmetry == Permutations(Procs) \cup Permutations(InvoiceIds)
              \cup Permutations(EntryIds) \cup Permutations(PaymentIds)

\* Bound: requests overlap on an invoice only while it is the only one; with two
\* invoices, the requests in flight work on different ones.
OverlapsOnOneInvoice ==
    contended # {} => Cardinality({id \in InvoiceIds : Exists(id)}) = 1

============================================================================

----------------------------- MODULE MCInvoices -----------------------------
(* Small instances of InvoiceProps for TLC.                                *)
EXTENDS InvoiceProps, TLC

Symmetry == Permutations(Thread)

(* Item lists a POST carries.                                              *)
OneItem == {<<1>>}
NoneOrTwo == {<<>>, <<1, 2>>}

(* Where a crash may cut: nowhere, anywhere but within an update, anywhere.*)
Nowhere == {}
OutsideUpdates == {"idle", "scan", "number", "insert", "add"}
Anywhere == OutsideUpdates \cup {"clear", "refill"}
=============================================================================

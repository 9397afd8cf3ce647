---------------------------- MODULE MCInvoiceRun ----------------------------
(***************************************************************************)
(* One invoice, started and resumed by several requests, for TLC.          *)
(***************************************************************************)
EXTENDS InvoiceRun, TLC

\* An amount above the threshold; an unread total, 0, is routine.
MCAmounts == {600000}

Operators == {<<"agent", "payment-execution">>}

NoEntries == {}

Symmetric == Permutations(Starters) \cup Permutations(Executions \ Starters)
=============================================================================

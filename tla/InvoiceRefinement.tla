------------------------- MODULE InvoiceRefinement -------------------------
(* The transactions of InvoiceLifecycle, seen as the books they keep. *)
EXTENDS InvoiceLifecycle

\* A row enters the books when its number commits.  Drafts are not in them;
\* a row that was destroyed no longer is.
BookedRow(r) ==
  IF r.status \in Frozen
  THEN [booked |-> TRUE, cancelled |-> r.status = "cancelled", year |-> r.year,
        number |-> r.number, total |-> r.total, cancels |-> r.cancels]
  ELSE [booked |-> FALSE, cancelled |-> FALSE, year |-> None, number |-> 0,
        total |-> 0, cancels |-> None]

Books == INSTANCE InvoiceBooks
           WITH Entries <- Invoices,
                entry <- [i \in Invoices |-> BookedRow(row[i])],
                last <- seq

\* ADR-0026: whatever mixture of draft edits, issues, cancels, transitions,
\* archives and restores runs, interleaved statement by statement and rolled
\* back anywhere, what commits is one append-only, gaplessly numbered set of
\* books.  (Purge and customer delete can break it: FrozenNeverLost.)
KeepsBooks == Books!Spec
=============================================================================

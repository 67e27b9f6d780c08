--------------------------- MODULE InvoiceBooks ---------------------------
(***************************************************************************)
(* What the invoice subsystem promises its owner (ADR-0026): a set of      *)
(* books to which entries are only ever added, numbered without gaps per   *)
(* year and kind, where the one change an entry ever sees is to be         *)
(* cancelled, in the same step that books the Storno that offsets it.      *)
(* Nothing here knows of transactions, locks, projects or drafts.          *)
(***************************************************************************)
EXTENDS Integers

CONSTANTS Entries, Years, Totals, None

Kinds == {"invoice", "storno"}

VARIABLES
  entry,   \* the books: NoEntry until an id is booked
  last     \* the last number used in each series

NoEntry == [booked |-> FALSE, cancelled |-> FALSE, year |-> None, number |-> 0,
            total |-> 0, cancels |-> None]

Entry(y, n, t, c) == [booked |-> TRUE, cancelled |-> FALSE, year |-> y,
                      number |-> n, total |-> t, cancels |-> c]

Init ==
  /\ entry = [e \in Entries |-> NoEntry]
  /\ last = [q \in Years \X Kinds |-> 0]

Book(e, y, t) ==
  /\ ~ entry[e].booked
  /\ LET n == last[<<y, "invoice">>] + 1
     IN /\ entry' = [entry EXCEPT ![e] = Entry(y, n, t, None)]
        /\ last' = [last EXCEPT ![<<y, "invoice">>] = n]

Cancel(e, f, y) ==
  /\ entry[e].booked /\ ~ entry[e].cancelled
  /\ ~ entry[f].booked
  /\ LET n == last[<<y, "storno">>] + 1
     IN /\ entry' = [entry EXCEPT ![e].cancelled = TRUE,
                                  ![f] = Entry(y, n, -entry[e].total, e)]
        /\ last' = [last EXCEPT ![<<y, "storno">>] = n]

Next ==
  \E e \in Entries, y \in Years :
    \/ \E t \in Totals : Book(e, y, t)
    \/ \E f \in Entries : Cancel(e, f, y)

Spec == Init /\ [][Next]_<<entry, last>>
=============================================================================

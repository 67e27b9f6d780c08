------------------------ MODULE MCInvoiceLifecycle ------------------------
(* Small instances of InvoiceLifecycle for TLC. *)
EXTENDS InvoiceRefinement, TLC

CONSTANTS s1, s2, s3, c1, p1, i1, i2, i3, i4, b1, b2, b3

OneProject  == p1 :> c1

\* sessions, row ids and keys are interchangeable
Interchangeable ==
  Permutations(Sessions) \cup Permutations(Invoices) \cup Permutations(Blobs)

\* the request mixes of the runs
BillingRequests == {"project", "create", "delete", "issue", "cancel",
                    "transition", "archive", "restore"}
PurgingRequests == {"project", "create", "update", "delete", "issue",
                    "archive", "restore", "purge", "customer"}
PurgeRaceRequests == {"project", "create", "issue", "archive", "restore", "purge"}
=============================================================================

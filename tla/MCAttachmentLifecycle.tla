----------------------- MODULE MCAttachmentLifecycle -----------------------
(* Small instances of AttachmentLifecycle for TLC. *)
EXTENDS AttachmentLifecycle, TLC

CONSTANTS s1, s2, p1, a1, a2

InOneProject == [a \in Attachments |-> p1]

\* sessions are interchangeable
Interchangeable == Permutations(Sessions)

\* the request mixes of the runs
TrashRequests  == {"init", "complete", "hide", "restore"}
BucketRequests == {"init", "complete", "issue", "archive", "purge"}
=============================================================================

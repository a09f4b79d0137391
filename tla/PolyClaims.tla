----------------------------- MODULE PolyClaims -----------------------------
(***************************************************************************)
(* What the documentation and the comments of the repository say of the    *)
(* paper copy and PolyCopy does not do.                                    *)
(***************************************************************************)
EXTENDS PolyCopy

\* poly_paper_copy.py:36: a fill skipped for want of the leader's value is
\* retried.  Two seats that follow one leader share the dedupe slot: what the
\* one takes is a duplicate for the other.
RetriedForEachSeat ==
    \A b \in seats, f \in Seen : New(b, f) => f \in settled[b]
=============================================================================

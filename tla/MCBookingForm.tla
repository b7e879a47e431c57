--------------------------- MODULE MCBookingForm ---------------------------
(* Small instances of BookingForm for TLC.                                 *)
EXTENDS BookingForm, TLC

\* Files that come with bytes and submissions are interchangeable.
FormSymmetry == Permutations(Readable) \cup Permutations(Flow)

\* SentUpTo names the sequence SelectSeq computes: for every list of up to
\* three files, and no other sequence of up to three.
Lists == UNION {[1..k -> File] : k \in 0..3}

ASSUME SentUpToIsSelectSeq ==
    \A list, sent \in Lists :
        SentUpTo(sent, list, Len(list))
        <=> sent = SelectSeq(list, LAMBDA f : f \in Readable)
=============================================================================

----------------------------- MODULE StreamPlan -----------------------------
(***************************************************************************)
(* The arithmetic of a streamed transfer: how files are cut into segments  *)
(* and which vectors of per-file checkpoints two peers may agree on.       *)
(* Lengths are counted in chunks.  A segment's hash is a function of its    *)
(* place, since the source is verified to be unmodified, so a checkpoint is *)
(* its number of committed chunks.                                          *)
(***************************************************************************)
EXTENDS Integers, Sequences, FiniteSets

CONSTANTS Sizes,          \* length of every file of the manifest
          SegmentChunks   \* length of a full segment

ASSUME PlanAssumption ==
    /\ Sizes \in Seq(Nat) /\ Sizes # <<>>
    /\ SegmentChunks \in Nat \ {0}

Files == 1..Len(Sizes)

\* One past the last file: every file is complete.
NoFile == Len(Sizes) + 1

Zeros == [f \in Files |-> 0]

\* The end of the segment of file f that starts at offset.
SegmentEnd(f, offset) ==
    IF offset + SegmentChunks < Sizes[f] THEN offset + SegmentChunks ELSE Sizes[f]

\* The first file after f that still misses chunks.
NextFile(committed, f) ==
    LET open == {g \in Files : g > f /\ committed[g] < Sizes[g]}
    IN  IF open = {} THEN NoFile ELSE CHOOSE g \in open : \A h \in open : g <= h

\* The chunks of all files together.
Total(committed) ==
    LET sum[f \in 0..Len(Sizes)] == IF f = 0 THEN 0 ELSE sum[f - 1] + committed[f]
    IN  sum[Len(Sizes)]

\* A checkpoint lies on segment boundaries, and a file has one only after
\* the files before it are complete.
ValidPrefix(committed) ==
    \A f \in Files :
        /\ committed[f] <= Sizes[f]
        /\ committed[f] = Sizes[f] \/ committed[f] % SegmentChunks = 0
        /\ committed[f] > 0 => \A g \in 1..(f - 1) : committed[g] = Sizes[g]

\* Resume cursors are a checkpoint per file, or none at all for a transfer
\* that starts from the beginning.
Resolve(resume) == IF resume = <<>> THEN Zeros ELSE resume

\* The receiver confirms the segment whose acknowledgement was lost.
MatchesPending(pending, resolved, f) ==
    pending # <<>> /\ pending[1].f = f /\ pending[1].end = resolved[f]

\* Faulty: forgets the segment whose acknowledgement was lost.
MatchCommittedOnly(current, pending, resume) == Resolve(resume) = current

\* The cursors agree with what the sender counts as committed, except that
\* the pending segment may have been stored as well.
MatchLiveResume(current, pending, resume) ==
    LET resolved == Resolve(resume)
    IN  /\ ValidPrefix(resolved)
        /\ \A f \in Files :
              resolved[f] = current[f] \/ MatchesPending(pending, resolved, f)
=============================================================================

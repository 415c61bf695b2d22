--------------------------- MODULE MatchLifecycle ---------------------------
(***************************************************************************)
(* What storage promises for one match: its row only ever changes by an    *)
(* operation of the Match aggregate applied to the row that is there, and  *)
(* accepted by it.  A write based on anything but the current row (a lost  *)
(* update), a second finalization or a correction of a match that is not   *)
(* final has no action here.                                               *)
(***************************************************************************)
EXTENDS MatchDomain

CONSTANT Id      \* the match this is the life of
VARIABLE row     \* its row in the table matches

Init == row = NoRow

CreateOrUpdate(c) ==
  /\ Kind[c] = "upsert"
  /\ row' = Upserted(row, c)

RecordStats(c) ==
  /\ Kind[c] = "stats"
  /\ Exists(row)
  /\ row' = StatsRecorded(row, c)

Finalize(c) ==
  /\ Kind[c] = "finalize"
  /\ Exists(row)
  /\ CanFinalize(row, c)
  /\ row' = Finalized(row, c)

ApplyCorrection(c) ==
  /\ Kind[c] = "approve"
  /\ Exists(row)
  /\ CanCorrect(row, ProposalOf[c])
  /\ row' = Corrected(row, ProposalOf[c])

Next ==
  \E c \in Commands :
    /\ TargetOf(c) = Id
    /\ CreateOrUpdate(c) \/ RecordStats(c) \/ Finalize(c) \/ ApplyCorrection(c)

Spec == Init /\ [][Next]_row
=============================================================================

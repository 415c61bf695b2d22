----------------------------- MODULE MCCommands -----------------------------
(***************************************************************************)
(* Small instances of command execution.  A configuration chooses Commands *)
(* among the ids below, each with a fixed handler and payload.             *)
(***************************************************************************)
EXTENDS CommandProperties, TLC

CONSTANTS up1, up2, st1, st2, fin1, fin2, pr1, pr2, ap1, ap2, rt1, pb1, bf1, m1, m2,
          Resent     \* the commands that clients send twice

MCKind ==
  [c \in Commands |->
     CASE c \in {up1, up2}   -> "upsert"
       [] c \in {st1, st2}   -> "stats"
       [] c \in {fin1, fin2} -> "finalize"
       [] c \in {pr1, pr2}   -> "propose"
       [] c \in {ap1, ap2}   -> "approve"
       [] c = rt1            -> "derive"
       [] c = pb1            -> "publish"
       [] c = bf1            -> "backfill"]

\* Everything is about the first match, the second upsert creates another.
MCMatchOf == [c \in Commands |-> IF c = up2 THEN m2 ELSE m1]

\* Both approvals name the first proposal.
MCProposalOf ==
  [c \in Commands |-> IF c \in {ap1, ap2} /\ pr1 \in Commands THEN pr1 ELSE c]

\* st1 carries both team lines and st2 only player lines; pr1 corrects a
\* player line and pr2 the score; the score of fin2 is 0-0.
MCFullBox   == {st1} \cap Commands
MCPlayerFix == {pr1} \cap Commands
MCUnfit     == {fin2} \cap Commands

MCMaxAttempts == [c \in Commands |-> IF c \in Resent THEN 2 ELSE 1]

WorkerSymmetry == Permutations(Workers)
=============================================================================

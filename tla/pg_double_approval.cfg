SPECIFICATION Spec
CONSTANTS
  up1 = up1 up2 = up2 st1 = st1 st2 = st2 fin1 = fin1 fin2 = fin2
  pr1 = pr1 pr2 = pr2 ap1 = ap1 ap2 = ap2 rt1 = rt1 pb1 = pb1 bf1 = bf1
  m1 = m1 m2 = m2
  NoCommand = NoCommand
  Workers = {w1, w2}
  Matches = {m1, m2}
  Commands = {up1, st1, fin1, pr1, ap1, ap2}
  Kind <- MCKind
  MatchOf <- MCMatchOf
  ProposalOf <- MCProposalOf
  FullBox <- MCFullBox
  PlayerFix <- MCPlayerFix
  Unfit <- MCUnfit
  Backend = "postgres"
  MaxAttempts <- MCMaxAttempts
  Resent = {}
INVARIANTS CorrectedOnce
CHECK_DEADLOCK FALSE

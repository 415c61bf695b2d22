--------------------------- MODULE CommandProofs ---------------------------
(***************************************************************************)
(* Proofs about command execution, for every set of commands and matches,  *)
(* any number of workers, both backends and any number of attempts.        *)
(***************************************************************************)
EXTENDS CommandProperties, TLAPS

----------------------------------------------------------------------------
(***************************************************************************)
(* The operators of MatchDomain.                                           *)
(***************************************************************************)
\* Every handler has a statement to start with, and every command a match.
LEMMA TargetType ==
  ASSUME NEW c \in Commands
  PROVE  TargetOf(c) \in Matches
BY CommandAssumption DEF TargetOf

\* The row of a match that was never saved is a row.
LEMMA NoRowType == NoRow \in MatchRows
BY DEF NoRow, MatchRows, MatchStatuses

\* The row a command leaves is a row, and one version further if the command
\* is of a kind that changes matches.
LEMMA AfterType ==
  ASSUME NEW c \in Commands, NEW row \in MatchRows
  PROVE  After(row, c) \in MatchRows
<1>1. /\ row.version + 1 \in Nat
      /\ ProposalOf[c] \in Commands
  BY CommandAssumption DEF MatchRows
<1>2. Upserted(row, c) \in MatchRows
  BY <1>1 DEF Upserted, MatchRows
<1>3. StatsRecorded(row, c) \in MatchRows
  BY <1>1 DEF StatsRecorded, MatchRows
<1>4. Finalized(row, c) \in MatchRows
  BY <1>1 DEF Finalized, MatchRows, MatchStatuses
<1>5. Corrected(row, ProposalOf[c]) \in MatchRows
  <2> DEFINE entry == [correction |-> ProposalOf[c], previous |-> row.version,
                       new |-> row.version + 1]
  <2>1. entry \in Corrections
    BY <1>1 DEF Corrections, MatchRows
  <2>2. Append(row.history, entry) \in Seq(Corrections)
    BY <2>1 DEF MatchRows
  <2> QED BY <1>1, <2>2 DEF Corrected, MatchRows
<1> QED BY <1>2, <1>3, <1>4, <1>5 DEF After

\* A handler that changes a match leaves a version one above the one it loaded.
LEMMA AfterVersion ==
  ASSUME NEW c \in Commands, NEW row \in MatchRows,
         Kind[c] \in {"upsert", "stats", "finalize", "approve"}
  PROVE  After(row, c).version = row.version + 1
BY DEF After, Upserted, StatsRecorded, Finalized, Corrected, MatchRows

\* A handler returns domain events.
LEMMA EventsType ==
  ASSUME NEW c \in Commands, NEW n \in Nat, NEW row
  PROVE  EventsOf(c, n, row) \subseteq Events
<1>1. TargetOf(c) \in Matches /\ ProposalOf[c] \in Commands
  BY TargetType, CommandAssumption
<1>2. ASSUME NEW type \in EventTypes
      PROVE  Fresh(c, n, type, TargetOf(c)) \in Events
  BY <1>1, <1>2 DEF Fresh, Events, EventIds
<1>3. ASSUME NEW type \in EventTypes, NEW p \in Commands
      PROVE  Own(p, type, TargetOf(c)) \in Events
  BY <1>1, <1>3 DEF Own, Events, EventIds
<1> QED BY <1>1, <1>2, <1>3 DEF EventsOf, EventTypes

----------------------------------------------------------------------------
(***************************************************************************)
(* Where a command starts and goes on.                                     *)
(***************************************************************************)
\* What the assumption on the constants says of one command.
LEMMA KindType ==
  ASSUME NEW c \in Commands
  PROVE  /\ Kind[c] \in Kinds
         /\ MatchOf[c] \in Matches
         /\ ProposalOf[c] \in Commands
BY CommandAssumption

\* A command starts at one of three statements, and a correction batch not at the
\* idempotency check.
LEMMA FirstStatementType ==
  ASSUME NEW c \in Commands
  PROVE  /\ FirstStatement(c) \in {"insertRow", "commit", "check"}
         /\ FirstStatement(c) = "check" => Kind[c] \notin {"publish", "backfill"}
BY DEF FirstStatement

\* Only an approval loads a proposal, only a proposal starts by saving one,
\* and a match is loaded by the four commands that change matches.
LEMMA AfterCheckType ==
  ASSUME NEW c \in Commands
  PROVE  /\ AfterCheck(c) \in {"saveProposal", "loadProposal", "insertRow", "loadMatch"}
         /\ AfterCheck(c) = "saveProposal" => Kind[c] = "propose"
         /\ AfterCheck(c) = "loadProposal" => Kind[c] = "approve"
         /\ AfterCheck(c) = "loadMatch" =>
              Kind[c] \in {"upsert", "stats", "finalize", "publish", "backfill"}
<1>1. Kind[c] \in Kinds
  BY KindType
<1> QED BY <1>1 DEF AfterCheck, Kinds

\* Every handler goes on from its load to a statement of its own.
LEMMA AfterLoadType ==
  ASSUME NEW c \in Commands, NEW row
  PROVE  AfterLoad(c, row) \in {"saveMatch", "idle", "commit", "saveProposal"}
BY DEF AfterLoad

----------------------------------------------------------------------------
(***************************************************************************)
(* Type correctness.                                                       *)
(***************************************************************************)
LEMMA InitTypeOK == Init => TypeOK
<1> SUFFICES ASSUME Init PROVE TypeOK
  OBVIOUS
<1>1. matches \in [Matches -> MatchRows] /\ base \in [Workers -> MatchRows]
  BY NoRowType DEF Init
<1>2. proposals \in [Commands -> ProposalRows]
  BY DEF Init, NoProposal, ProposalRows, ProposalStatuses
<1> QED BY <1>1, <1>2 DEF Init, TypeOK, Statements

\* Ending a transaction keeps every variable in its type.
LEMMA EndTransactionType ==
  ASSUME TypeOK, NEW w \in Workers, EndTransaction(w)
  PROVE  /\ pc' \in [Workers -> Statements]
         /\ cmd' \in [Workers -> Commands \cup {NoCommand}]
         /\ try' \in [Workers -> Nat]
         /\ base' \in [Workers -> MatchRows]
         /\ pending' \in [Workers -> SUBSET Keys]
         /\ \A v \in Workers : pc'[v] # "idle" => cmd'[v] \in Commands
BY NoRowType DEF TypeOK, EndTransaction, Statements

\* A rollback keeps every variable in its type.
LEMMA RollBackType ==
  ASSUME TypeOK, NEW w \in Workers, RollBack(w), UNCHANGED attempts
  PROVE  TypeOK'
BY EndTransactionType DEF RollBack, TypeOK, tables

\* Going on to another statement keeps every variable in its type.
LEMMA GotoType ==
  ASSUME TypeOK, NEW w \in Workers, NEW s \in Statements, pc[w] # "idle", Goto(w, s),
         UNCHANGED cmd
  PROVE  /\ pc' \in [Workers -> Statements]
         /\ \A v \in Workers : pc'[v] # "idle" => cmd'[v] \in Commands
BY DEF TypeOK, Goto

\* Each write of a handler keeps every variable in its type.
LEMMA WriteType ==
  ASSUME TypeOK, NEW w \in Workers, NEW k \in Keys, Write(w, k)
  PROVE  pending' \in [Workers -> SUBSET Keys]
BY DEF TypeOK, Write

\* A COMMIT keeps every variable in its type.
LEMMA CommitType ==
  ASSUME TypeOK, NEW w \in Workers, Commit(w)
  PROVE  TypeOK'
<1> DEFINE c == cmd[w]
           m == TargetOf(c)
<1>1. /\ c \in Commands /\ m \in Matches /\ base[w] \in MatchRows /\ try[w] \in Nat
      /\ base[w].version + 1 \in Nat
  BY TargetType DEF Commit, TypeOK, MatchRows
<1>2. matches' \in [Matches -> MatchRows]
  BY <1>1, AfterType DEF Commit, TypeOK
<1>3. proposals' \in [Commands -> ProposalRows]
  BY <1>1 DEF Commit, TypeOK, ProposalRows, ProposalStatuses, Proposed, ApprovedAt
<1>4. projection' \in [Matches -> Commands \cup {NoCommand}]
  BY <1>1 DEF Commit, TypeOK
<1>5. derived' \in [Commands -> Nat]
  <2>1. /\ [derived EXCEPT ![c] = @ + 1] \in [Commands -> Nat]
        /\ [derived EXCEPT ![c] = 1] \in [Commands -> Nat]
        /\ derived \in [Commands -> Nat]
    BY <1>1 DEF TypeOK
  <2> QED BY <2>1 DEF Commit
<1>6. processed' \subseteq Commands
  BY <1>1 DEF Commit, TypeOK
<1>7. outbox' \subseteq Events
  BY <1>1, EventsType DEF Commit, TypeOK, Appended
<1>8. EndTransaction(w) /\ attempts' = attempts
  BY DEF Commit
<1> QED
  BY <1>2, <1>3, <1>4, <1>5, <1>6, <1>7, <1>8, EndTransactionType DEF TypeOK

\* Every step of every worker keeps every variable in its type.
LEMMA NextTypeOK == TypeOK /\ [Next]_vars => TypeOK'
<1> SUFFICES ASSUME TypeOK, [Next]_vars PROVE TypeOK'
  OBVIOUS
<1>1. ASSUME NEW w \in Workers, NEW c \in Commands, Begin(w, c) PROVE TypeOK'
  BY <1>1, FirstStatementType DEF Begin, Goto, TypeOK, Statements, tables
<1>2. ASSUME NEW w \in Workers, Abort(w) PROVE TypeOK'
  BY <1>2, RollBackType DEF Abort
<1>3. ASSUME NEW w \in Workers, CheckProcessed(w) PROVE TypeOK'
  <2>1. CASE RollBack(w)
    BY <1>3, <2>1, RollBackType DEF CheckProcessed
  <2>2. CASE ~RollBack(w)
    <3>1. cmd[w] \in Commands /\ pc[w] # "idle"
      BY <1>3 DEF CheckProcessed, TypeOK
    <3>2. AfterCheck(cmd[w]) \in Statements
      BY <3>1, AfterCheckType DEF Statements
    <3> QED
      BY <1>3, <2>2, <3>1, <3>2, GotoType DEF CheckProcessed, TypeOK, tables
  <2> QED BY <2>1, <2>2
<1>4. ASSUME NEW w \in Workers, LoadProposal(w) PROVE TypeOK'
  <2>1. CASE RollBack(w)
    BY <1>4, <2>1, RollBackType DEF LoadProposal
  <2>2. CASE ~RollBack(w)
    BY <1>4, <2>2 DEF LoadProposal, Goto, TypeOK, Statements, tables
  <2> QED BY <2>1, <2>2
<1>5. ASSUME NEW w \in Workers, LoadMatch(w) PROVE TypeOK'
  <2>1. CASE RollBack(w)
    BY <1>5, <2>1, RollBackType DEF LoadMatch
  <2>2. CASE ~RollBack(w)
    <3> DEFINE row == matches[TargetOf(cmd[w])]
    <3>1. cmd[w] \in Commands /\ pc[w] # "idle" /\ row \in MatchRows
      BY <1>5, TargetType DEF LoadMatch, TypeOK
    <3>2. AfterLoad(cmd[w], row) \in Statements
      BY <3>1, AfterLoadType DEF Statements
    <3>3. /\ base' = [base EXCEPT ![w] = row]
          /\ Goto(w, AfterLoad(cmd[w], row))
          /\ UNCHANGED <<tables, cmd, try, pending, attempts>>
      BY <1>5, <2>2 DEF LoadMatch
    <3> QED
      BY <3>1, <3>2, <3>3, GotoType DEF TypeOK, tables
  <2> QED BY <2>1, <2>2
<1>6. ASSUME NEW w \in Workers, SaveProposal(w) PROVE TypeOK'
  <2>1. cmd[w] \in Commands /\ ProposalOf[cmd[w]] \in Commands
    BY <1>6, KindType DEF SaveProposal, TypeOK
  <2>2. PICK k \in Keys : Write(w, k)
    BY <1>6, <2>1 DEF SaveProposal, Key, Keys, TableNames
  <2>3. PICK s \in Statements : Goto(w, s)
    BY <1>6 DEF SaveProposal, Statements
  <2> QED
    BY <1>6, <2>2, <2>3, WriteType, GotoType DEF SaveProposal, TypeOK, tables
<1>7. ASSUME NEW w \in Workers, SaveMatch(w) PROVE TypeOK'
  <2>1. CASE RollBack(w)
    BY <1>7, <2>1, RollBackType DEF SaveMatch
  <2>2. CASE ~RollBack(w)
    <3>1. cmd[w] \in Commands /\ TargetOf(cmd[w]) \in Matches
      BY <1>7, TargetType DEF SaveMatch, TypeOK
    <3>2. PICK k \in Keys : Write(w, k)
      BY <1>7, <2>2, <3>1 DEF SaveMatch, Key, Keys, TableNames
    <3>3. PICK s \in Statements : Goto(w, s)
      BY <1>7, <2>2 DEF SaveMatch, Statements
    <3> QED
      BY <1>7, <2>2, <3>2, <3>3, WriteType, GotoType DEF SaveMatch, TypeOK, tables
  <2> QED BY <2>1, <2>2
<1>8. ASSUME NEW w \in Workers, SaveStats(w) PROVE TypeOK'
  <2>1. cmd[w] \in Commands /\ TargetOf(cmd[w]) \in Matches
    BY <1>8, TargetType DEF SaveStats, TypeOK
  <2>2. PICK k \in Keys : Write(w, k)
    BY <1>8, <2>1 DEF SaveStats, Key, Keys, TableNames
  <2>3. "mark" \in Statements
    BY DEF Statements
  <2> QED
    BY <1>8, <2>2, <2>3, WriteType, GotoType DEF SaveStats, TypeOK, tables
<1>9. ASSUME NEW w \in Workers, InsertRow(w) PROVE TypeOK'
  <2>1. cmd[w] \in Commands
    BY <1>9 DEF InsertRow, TypeOK
  <2>2. pending' \in [Workers -> SUBSET Keys]
    <3>1. Key("publications", cmd[w]) \in Keys
      BY <2>1 DEF Key, Keys, TableNames
    <3> QED BY <1>9, <3>1, WriteType DEF InsertRow, TypeOK
  <2>3. PICK s \in Statements : Goto(w, s)
    BY <1>9 DEF InsertRow, Statements
  <2> QED
    BY <1>9, <2>2, <2>3, GotoType DEF InsertRow, TypeOK, tables
<1>10. ASSUME NEW w \in Workers, MarkProcessed(w) PROVE TypeOK'
  <2>1. cmd[w] \in Commands
    BY <1>10 DEF MarkProcessed, TypeOK
  <2>2. pending' \in [Workers -> SUBSET Keys]
    <3>1. Key("idempotency", cmd[w]) \in Keys
      BY <2>1 DEF Key, Keys, TableNames
    <3> QED BY <1>10, <3>1, WriteType DEF MarkProcessed, TypeOK
  <2>3. "commit" \in Statements
    BY DEF Statements
  <2> QED
    BY <1>10, <2>2, <2>3, GotoType DEF MarkProcessed, TypeOK, tables
<1>11. ASSUME NEW w \in Workers, Commit(w) PROVE TypeOK'
  BY <1>11, CommitType
<1>12. CASE UNCHANGED vars
  BY <1>12 DEF vars, TypeOK
<1> QED
  BY <1>1, <1>2, <1>3, <1>4, <1>5, <1>6, <1>7, <1>8, <1>9, <1>10, <1>11, <1>12
  DEF Next, Step

\* The tables and the workers' variables only ever hold values of their types.
THEOREM TypeCorrect == Spec => []TypeOK
BY InitTypeOK, NextTypeOK, PTL DEF Spec

----------------------------------------------------------------------------
(***************************************************************************)
(* The version guard.                                                      *)
(***************************************************************************)
\* What AfterLoad makes of a row is what the aggregate accepts.
LEMMA AfterLoadAccepts ==
  ASSUME NEW c \in Commands, NEW row,
         Kind[c] \in {"upsert", "stats", "finalize", "approve"}
  PROVE  /\ AfterLoad(c, row) = "saveMatch" => Accepts(c, row)
         /\ AfterLoad(c, row) = "saveProposal" => Kind[c] = "approve" /\ Accepts(c, row)
<1>1. CASE Kind[c] # "upsert" /\ ~Exists(row)
  <2>1. AfterLoad(c, row) = "idle"
    BY <1>1 DEF AfterLoad
  <2> QED BY <2>1
<1>2. CASE Kind[c] = "upsert" \/ Exists(row)
  <2>1. CASE Kind[c] \in {"upsert", "stats"}
    <3>1. AfterLoad(c, row) = "saveMatch"
      BY <1>2, <2>1 DEF AfterLoad
    <3> QED BY <1>2, <2>1, <3>1 DEF Accepts
  <2>2. CASE Kind[c] = "finalize"
    <3>1. AfterLoad(c, row) = IF CanFinalize(row, c) THEN "saveMatch" ELSE "commit"
      BY <1>2, <2>2 DEF AfterLoad
    <3> QED BY <1>2, <2>2, <3>1 DEF Accepts
  <2>3. CASE Kind[c] = "approve"
    <3>1. AfterLoad(c, row) = IF CanCorrect(row, ProposalOf[c]) THEN "saveProposal" ELSE "idle"
      BY <1>2, <2>3 DEF AfterLoad
    <3> QED BY <1>2, <2>3, <3>1 DEF Accepts
  <2> QED BY <2>1, <2>2, <2>3
<1> QED BY <1>1, <1>2

\* Nothing runs and nothing is locked in the beginning.
LEMMA InitWriteInv == Init => WriteInv
BY DEF Init, WriteInv, HandlersInOrder, VersionsIdentifyRows, LocksAreExclusive,
       WritesAreCurrent

\* A transaction that ends without changing a match.
LEMMA EndTransactionWriteInv ==
  ASSUME TypeOK, WriteInv, NEW w \in Workers, EndTransaction(w), UNCHANGED matches
  PROVE  WriteInv'
<1> USE DEF TypeOK, WriteInv, EndTransaction
<1>1. HandlersInOrder'
  BY DEF HandlersInOrder
<1>2. VersionsIdentifyRows'
  BY DEF VersionsIdentifyRows
<1>3. LocksAreExclusive'
  BY DEF LocksAreExclusive
<1>4. WritesAreCurrent'
  BY DEF WritesAreCurrent
<1> QED BY <1>1, <1>2, <1>3, <1>4

\* A step that only moves worker w to a statement where nothing is claimed of
\* what it wrote, or that its state already justifies.
LEMMA GotoWriteInv ==
  ASSUME TypeOK, WriteInv, NEW w \in Workers, NEW s \in Statements, pc[w] # "idle",
         Goto(w, s), UNCHANGED <<matches, cmd, base, pending>>,
         s \notin {"idle", "check"},
         s = "loadProposal" => Kind[cmd[w]] = "approve",
         s = "loadMatch" => Kind[cmd[w]] \in {"upsert", "stats", "finalize", "approve"},
         s = "saveProposal" => 
           \/ Kind[cmd[w]] = "propose"
           \/ Kind[cmd[w]] = "approve" /\ Accepts(cmd[w], base[w]),
         s = "saveMatch" => Accepts(cmd[w], base[w]),
         pc[w] \in {"saveStats", "mark", "commit"} => s \in {"saveStats", "mark", "commit"}
  PROVE  WriteInv'
<1> USE DEF TypeOK, WriteInv, Goto
<1>1. HandlersInOrder'
  BY DEF HandlersInOrder, Accepts, Exists, CanFinalize, CanCorrect
<1>2. VersionsIdentifyRows'
  BY DEF VersionsIdentifyRows, TargetOf
<1>3. LocksAreExclusive'
  BY DEF LocksAreExclusive
<1>4. WritesAreCurrent'
  BY DEF WritesAreCurrent, TargetOf, Accepts, Exists, CanFinalize, CanCorrect
<1> QED BY <1>1, <1>2, <1>3, <1>4

\* Loading gives the handler the stored row, and a next statement that row
\* justifies.
LEMMA LoadMatchWriteInv ==
  ASSUME TypeOK, WriteInv, NEW w \in Workers, LoadMatch(w), ~RollBack(w)
  PROVE  WriteInv'
<1> DEFINE c   == cmd[w]
           row == matches[TargetOf(c)]
           s   == AfterLoad(c, row)
<1>1. /\ pc[w] = "loadMatch"
      /\ c \in Commands /\ row \in MatchRows
      /\ Kind[c] \in {"upsert", "stats", "finalize", "approve"}
  BY TargetType DEF LoadMatch, TypeOK, WriteInv, HandlersInOrder
<1>2. /\ s # "idle"
      /\ base' = [base EXCEPT ![w] = row]
      /\ pc' = [pc EXCEPT ![w] = s]
      /\ UNCHANGED <<matches, cmd, pending>>
  BY DEF LoadMatch, Goto, tables
<1>3. /\ s \in {"saveMatch", "commit", "saveProposal"}
      /\ s = "saveMatch" => Accepts(c, row)
      /\ s = "saveProposal" => Kind[c] = "approve" /\ Accepts(c, row)
  BY <1>1, <1>2, AfterLoadType, AfterLoadAccepts
<1> HIDE DEF s, row
<1>4. HandlersInOrder'
  BY <1>1, <1>2, <1>3
  DEF HandlersInOrder, WriteInv, TypeOK, Accepts, Exists, CanFinalize, CanCorrect
<1>5. VersionsIdentifyRows'
  <2>1. \A m \in Matches : matches'[m].version = 0 => matches'[m] = NoRow
    BY <1>2 DEF VersionsIdentifyRows, WriteInv
  <2>2. ASSUME NEW v \in Workers, pc'[v] # "idle"
        PROVE  LET now == matches'[TargetOf(cmd'[v])] IN
               /\ base'[v].version <= now.version
               /\ base'[v].version = now.version => base'[v] = now
    <3>1. CASE v = w
      <4>1. cmd'[v] = c /\ base'[v] = row /\ matches' = matches
        BY <1>1, <1>2, <3>1 DEF TypeOK
      <4>2. row.version \in Nat
        BY <1>1 DEF MatchRows
      <4> QED BY <4>1, <4>2 DEF row
    <3>2. CASE v # w
      <4>1. pc[v] # "idle" /\ cmd'[v] = cmd[v] /\ base'[v] = base[v] /\ matches' = matches
        BY <1>2, <2>2, <3>2 DEF TypeOK
      <4> QED BY <4>1 DEF WriteInv, VersionsIdentifyRows
    <3> QED BY <3>1, <3>2
  <2> QED BY <2>1, <2>2 DEF VersionsIdentifyRows
<1>6. LocksAreExclusive'
  BY <1>2 DEF LocksAreExclusive, WriteInv
<1>7. WritesAreCurrent'
  BY <1>1, <1>2 DEF WritesAreCurrent, WriteInv, TypeOK, Accepts, Exists, CanFinalize,
                    CanCorrect, TargetOf
<1> QED BY <1>4, <1>5, <1>6, <1>7 DEF WriteInv

\* A write that waited for its key keeps the keys exclusive; a write of a
\* match also has to come from the stored row.
LEMMA WriteWriteInv ==
  ASSUME TypeOK, WriteInv, NEW w \in Workers, NEW s \in {"saveStats", "saveMatch", "mark", "commit"},
         NEW k \in Keys, pc[w] # "idle",
         Goto(w, s), Write(w, k), ~Blocked(w, k), UNCHANGED <<matches, cmd, base>>,
         s = "saveMatch" => Accepts(cmd[w], base[w]),
         pc[w] \in {"saveStats", "mark", "commit"} => s # "saveMatch",
         \A m \in Matches :
           k = Key("matches", m) =>
             /\ s # "saveMatch"
             /\ m = TargetOf(cmd[w])
             /\ base[w] = matches[m]
             /\ Accepts(cmd[w], base[w])
  PROVE  WriteInv'
<1> USE DEF TypeOK, WriteInv, Goto
<1>1. HandlersInOrder'
  BY DEF HandlersInOrder, Write, Accepts, Exists, CanFinalize, CanCorrect
<1>2. VersionsIdentifyRows'
  BY DEF VersionsIdentifyRows, TargetOf
<1>3. LocksAreExclusive'
  BY DEF LocksAreExclusive, Write, Blocked
<1>4. WritesAreCurrent'
  BY DEF WritesAreCurrent, Write, TargetOf, Accepts, Exists, CanFinalize, CanCorrect
<1> QED BY <1>1, <1>2, <1>3, <1>4

\* COMMIT installs the row that was computed from the stored one: versions
\* advance, and no other transaction has a pending write of that match.
LEMMA CommitWriteInv ==
  ASSUME TypeOK, WriteInv, NEW w \in Workers, Commit(w)
  PROVE  WriteInv'
<1> DEFINE c == cmd[w]
           m == TargetOf(c)
<1>1. /\ c \in Commands /\ m \in Matches /\ base[w] \in MatchRows
      /\ EndTransaction(w)
  BY TargetType DEF Commit, TypeOK
<1>2. CASE Key("matches", m) \notin pending[w]
  BY <1>1, <1>2, EndTransactionWriteInv DEF Commit
<1>3. CASE Key("matches", m) \in pending[w]
  <2>1. /\ base[w] = matches[m]
        /\ Kind[c] \in {"upsert", "stats", "finalize", "approve"}
    BY <1>1, <1>3 DEF WriteInv, WritesAreCurrent, Accepts
  <2>2. matches' = [matches EXCEPT ![m] = After(base[w], c)]
    BY <1>3 DEF Commit
  <2>3. /\ matches'[m].version = matches[m].version + 1
        /\ \A n \in Matches \ {m} : matches'[n] = matches[n]
    BY <1>1, <2>1, <2>2, AfterVersion DEF TypeOK
  <2>4. /\ pending' = [pending EXCEPT ![w] = {}]
        /\ base' = [base EXCEPT ![w] = NoRow]
        /\ pc' = [pc EXCEPT ![w] = "idle"]
        /\ cmd' = [cmd EXCEPT ![w] = NoCommand]
    BY <1>1 DEF EndTransaction
  <2>5. HandlersInOrder'
    BY <2>4 DEF HandlersInOrder, WriteInv, TypeOK, Accepts
  <2>6. VersionsIdentifyRows'
    <3>1. ASSUME NEW n \in Matches, matches'[n].version = 0 PROVE matches'[n] = NoRow
      <4>1. matches[n].version \in Nat
        BY DEF TypeOK, MatchRows
      <4>2. matches[n].version = 0 => matches[n] = NoRow
        BY DEF WriteInv, VersionsIdentifyRows
      <4> QED BY <2>3, <3>1, <4>1, <4>2
    <3>2. ASSUME NEW v \in Workers, pc'[v] # "idle"
          PROVE  LET row == matches'[TargetOf(cmd'[v])] IN
                 /\ base'[v].version <= row.version
                 /\ base'[v].version = row.version => base'[v] = row
      <4>1. v # w /\ pc[v] # "idle" /\ cmd'[v] = cmd[v] /\ base'[v] = base[v] /\ cmd[v] \in Commands
        BY <2>4, <3>2 DEF TypeOK
      <4>2. /\ TargetOf(cmd[v]) \in Matches
            /\ base[v].version \in Nat
            /\ matches[TargetOf(cmd[v])].version \in Nat
        BY <4>1, TargetType DEF TypeOK, MatchRows
      <4>3. LET row == matches[TargetOf(cmd[v])] IN
            /\ base[v].version <= row.version
            /\ base[v].version = row.version => base[v] = row
        BY <4>1 DEF WriteInv, VersionsIdentifyRows
      <4> QED BY <2>3, <4>1, <4>2, <4>3
    <3> QED BY <3>1, <3>2 DEF VersionsIdentifyRows
  <2>7. LocksAreExclusive'
    BY <2>4 DEF LocksAreExclusive, WriteInv, TypeOK
  <2>8. WritesAreCurrent'
    <3> SUFFICES ASSUME NEW v \in Workers, NEW n \in Matches, Key("matches", n) \in pending'[v]
                 PROVE  /\ pc'[v] \in {"saveStats", "mark", "commit"}
                        /\ n = TargetOf(cmd'[v])
                        /\ base'[v] = matches'[n]
                        /\ Accepts(cmd'[v], base'[v])
      BY DEF WritesAreCurrent, Accepts, TargetOf, Exists, CanFinalize, CanCorrect
    <3>1. v # w /\ pending'[v] = pending[v] /\ pc'[v] = pc[v] /\ cmd'[v] = cmd[v] /\ base'[v] = base[v]
      BY <2>4 DEF TypeOK
    <3>2. n # m
      BY <1>3, <3>1 DEF WriteInv, LocksAreExclusive
    <3> QED BY <2>3, <3>1, <3>2 DEF WriteInv, WritesAreCurrent
  <2> QED BY <2>5, <2>6, <2>7, <2>8 DEF WriteInv
<1> QED BY <1>2, <1>3

\* WriteInv is inductive, given the type invariant.
LEMMA NextWriteInv == TypeOK /\ WriteInv /\ [Next]_vars => WriteInv'
<1> SUFFICES ASSUME TypeOK, WriteInv, [Next]_vars PROVE WriteInv'
  OBVIOUS
<1>1. ASSUME NEW w \in Workers, NEW c \in Commands, Begin(w, c) PROVE WriteInv'
  <2>1. /\ pc[w] = "idle" /\ base[w] = NoRow /\ pending[w] = {}
        /\ cmd' = [cmd EXCEPT ![w] = c]
        /\ pc' = [pc EXCEPT ![w] = FirstStatement(c)]
        /\ UNCHANGED <<matches, base, pending>>
    BY <1>1 DEF Begin, Goto, tables, WriteInv, HandlersInOrder
  <2>2. /\ FirstStatement(c) \in {"insertRow", "commit", "check"}
        /\ FirstStatement(c) = "check" => Kind[c] \notin {"publish", "backfill"}
    BY FirstStatementType
  <2>3. HandlersInOrder'
    BY <2>1, <2>2 DEF WriteInv, HandlersInOrder, TypeOK, Accepts, Exists, CanFinalize, CanCorrect
  <2>4. VersionsIdentifyRows'
    <3>1. TargetOf(c) \in Matches /\ NoRow.version = 0
      BY TargetType DEF NoRow
    <3>2. \A m \in Matches : /\ matches'[m] = matches[m]
                             /\ matches[m].version \in Nat
                             /\ matches[m].version = 0 => matches[m] = NoRow
      BY <2>1 DEF WriteInv, VersionsIdentifyRows, TypeOK, MatchRows
    <3>3. ASSUME NEW v \in Workers, pc'[v] # "idle"
          PROVE  LET row == matches'[TargetOf(cmd'[v])] IN
                 /\ base'[v].version <= row.version
                 /\ base'[v].version = row.version => base'[v] = row
      <4>1. CASE v = w
        <5>1. cmd'[v] = c /\ base'[v] = NoRow
          BY <2>1, <4>1 DEF TypeOK
        <5> QED BY <3>1, <3>2, <5>1
      <4>2. CASE v # w
        <5>1. pc[v] # "idle" /\ cmd'[v] = cmd[v] /\ base'[v] = base[v]
          BY <2>1, <3>3, <4>2 DEF TypeOK
        <5> QED BY <2>1, <5>1 DEF WriteInv, VersionsIdentifyRows
      <4> QED BY <4>1, <4>2
    <3> QED BY <3>2, <3>3 DEF VersionsIdentifyRows
  <2>5. LocksAreExclusive'
    BY <2>1 DEF WriteInv, LocksAreExclusive
  <2>6. WritesAreCurrent'
    BY <2>1, <2>2 DEF WriteInv, WritesAreCurrent, TypeOK, TargetOf, Accepts, Exists,
                      CanFinalize, CanCorrect
  <2> QED BY <2>3, <2>4, <2>5, <2>6 DEF WriteInv
<1>2. ASSUME NEW w \in Workers, RollBack(w) PROVE WriteInv'
  BY <1>2, EndTransactionWriteInv DEF RollBack, tables
<1>3. ASSUME NEW w \in Workers, CheckProcessed(w) PROVE WriteInv'
  <2>1. CASE RollBack(w)
    BY <1>2, <2>1
  <2>2. CASE ~RollBack(w)
    <3>1. cmd[w] \in Commands /\ pc[w] = "check"
      BY <1>3 DEF CheckProcessed, TypeOK
    <3>2. Goto(w, AfterCheck(cmd[w])) /\ UNCHANGED <<matches, cmd, base, pending>>
      BY <1>3, <2>2 DEF CheckProcessed, tables
    <3>3. AfterCheck(cmd[w]) \in Statements \ {"idle", "check"}
      BY <3>1, AfterCheckType DEF Statements
    <3>4. Kind[cmd[w]] \in Kinds \ {"publish", "backfill"}
      BY <3>1, KindType DEF WriteInv, HandlersInOrder
    <3> QED BY <3>1, <3>2, <3>3, <3>4, AfterCheckType, GotoWriteInv
  <2> QED BY <2>1, <2>2
<1>4. ASSUME NEW w \in Workers, LoadProposal(w) PROVE WriteInv'
  <2>1. CASE RollBack(w)
    BY <1>2, <2>1
  <2>2. CASE ~RollBack(w)
    <3>1. pc[w] = "loadProposal" /\ Kind[cmd[w]] = "approve"
      BY <1>4 DEF LoadProposal, WriteInv, HandlersInOrder
    <3>2. Goto(w, "loadMatch") /\ UNCHANGED <<matches, cmd, base, pending>>
      BY <1>4, <2>2 DEF LoadProposal, tables
    <3>3. "loadMatch" \in Statements
      BY DEF Statements
    <3> QED BY <3>1, <3>2, <3>3, GotoWriteInv
  <2> QED BY <2>1, <2>2
<1>5. ASSUME NEW w \in Workers, LoadMatch(w) PROVE WriteInv'
  <2>1. CASE RollBack(w)
    BY <1>2, <2>1
  <2>2. CASE ~RollBack(w)
    BY <1>5, <2>2, LoadMatchWriteInv
  <2> QED BY <2>1, <2>2
<1>6. ASSUME NEW w \in Workers, SaveProposal(w) PROVE WriteInv'
  <2> DEFINE p == IF Kind[cmd[w]] = "approve" THEN ProposalOf[cmd[w]] ELSE cmd[w]
             s == IF Kind[cmd[w]] = "approve" THEN "saveMatch" ELSE "mark"
  <2>1. /\ pc[w] = "saveProposal"
        /\ ~Blocked(w, Key("proposals", p))
        /\ Write(w, Key("proposals", p))
        /\ Goto(w, s)
        /\ UNCHANGED <<matches, cmd, base>>
    BY <1>6 DEF SaveProposal, tables
  <2>2. Key("proposals", p) \in Keys
    BY <2>1, KindType DEF TypeOK, Key, Keys, TableNames
  <2>3. s = "saveMatch" => Accepts(cmd[w], base[w])
    BY <2>1 DEF WriteInv, HandlersInOrder
  <2>4. \A m \in Matches : Key("proposals", p) # Key("matches", m)
    BY DEF Key
  <2> QED BY <2>1, <2>2, <2>3, <2>4, WriteWriteInv
<1>7. ASSUME NEW w \in Workers, SaveMatch(w) PROVE WriteInv'
  <2>1. CASE RollBack(w)
    BY <1>2, <2>1
  <2>2. CASE ~RollBack(w)
    <3> DEFINE m == TargetOf(cmd[w])
               s == IF Kind[cmd[w]] = "stats" THEN "saveStats" ELSE "mark"
    <3>1. /\ pc[w] = "saveMatch"
          /\ matches[m].version = base[w].version
          /\ ~Blocked(w, Key("matches", m))
          /\ Write(w, Key("matches", m))
          /\ Goto(w, s)
          /\ UNCHANGED <<matches, cmd, base>>
      BY <1>7, <2>2 DEF SaveMatch, tables
    <3>2. /\ m \in Matches
          /\ Key("matches", m) \in Keys
      BY <3>1, TargetType DEF TypeOK, Key, Keys, TableNames
    <3>3. base[w] = matches[m] /\ Accepts(cmd[w], base[w])
      BY <3>1 DEF WriteInv, VersionsIdentifyRows, HandlersInOrder
    <3>4. \A n \in Matches : Key("matches", m) = Key("matches", n) => n = m
      BY DEF Key
    <3> QED BY <3>1, <3>2, <3>3, <3>4, WriteWriteInv
  <2> QED BY <2>1, <2>2
<1>8. ASSUME NEW w \in Workers, SaveStats(w) PROVE WriteInv'
  <2>1. /\ pc[w] = "saveStats"
        /\ ~Blocked(w, Key("stats", TargetOf(cmd[w])))
        /\ Write(w, Key("stats", TargetOf(cmd[w])))
        /\ Goto(w, "mark")
        /\ UNCHANGED <<matches, cmd, base>>
    BY <1>8 DEF SaveStats, tables
  <2>2. Key("stats", TargetOf(cmd[w])) \in Keys
    BY <2>1, TargetType DEF TypeOK, Key, Keys, TableNames
  <2>3. \A m \in Matches : Key("stats", TargetOf(cmd[w])) # Key("matches", m)
    BY DEF Key
  <2> QED BY <2>1, <2>2, <2>3, WriteWriteInv
<1>9. ASSUME NEW w \in Workers, InsertRow(w) PROVE WriteInv'
  <2>1. /\ pc[w] = "insertRow"
        /\ UNCHANGED <<matches, cmd, base>>
    BY <1>9 DEF InsertRow, tables
  <2>2. CASE Kind[cmd[w]] = "publish"
    <3>1. /\ ~Blocked(w, Key("publications", cmd[w]))
          /\ Write(w, Key("publications", cmd[w]))
          /\ Goto(w, "commit")
      BY <1>9, <2>2 DEF InsertRow
    <3>2. Key("publications", cmd[w]) \in Keys
      BY <2>1 DEF TypeOK, Key, Keys, TableNames
    <3>3. \A m \in Matches : Key("publications", cmd[w]) # Key("matches", m)
      BY DEF Key
    <3> QED BY <2>1, <3>1, <3>2, <3>3, WriteWriteInv
  <2>3. CASE Kind[cmd[w]] # "publish"
    <3>1. Goto(w, "mark") /\ UNCHANGED pending
      BY <1>9, <2>3 DEF InsertRow
    <3>2. "mark" \in Statements
      BY DEF Statements
    <3> QED BY <2>1, <3>1, <3>2, GotoWriteInv
  <2> QED BY <2>2, <2>3
<1>10. ASSUME NEW w \in Workers, MarkProcessed(w) PROVE WriteInv'
  <2>1. /\ pc[w] = "mark"
        /\ Goto(w, "commit")
        /\ UNCHANGED <<matches, cmd, base>>
    BY <1>10 DEF MarkProcessed, tables
  <2>2. CASE cmd[w] \in processed
    <3>1. UNCHANGED pending /\ "commit" \in Statements
      BY <1>10, <2>2 DEF MarkProcessed, Statements
    <3> QED BY <2>1, <3>1, GotoWriteInv
  <2>3. CASE cmd[w] \notin processed
    <3>1. ~Blocked(w, Key("idempotency", cmd[w])) /\ Write(w, Key("idempotency", cmd[w]))
      BY <1>10, <2>3 DEF MarkProcessed
    <3>2. Key("idempotency", cmd[w]) \in Keys
      BY <2>1 DEF TypeOK, Key, Keys, TableNames
    <3>3. \A m \in Matches : Key("idempotency", cmd[w]) # Key("matches", m)
      BY DEF Key
    <3> QED BY <2>1, <3>1, <3>2, <3>3, WriteWriteInv
  <2> QED BY <2>2, <2>3
<1>11. ASSUME NEW w \in Workers, Commit(w) PROVE WriteInv'
  BY <1>11, CommitWriteInv
<1>12. CASE UNCHANGED vars
  BY <1>12 DEF vars, WriteInv, HandlersInOrder, VersionsIdentifyRows, LocksAreExclusive,
               WritesAreCurrent, Accepts, Exists, CanFinalize, CanCorrect, TargetOf
<1>13. ASSUME NEW w \in Workers, Abort(w) PROVE WriteInv'
  BY <1>2, <1>13 DEF Abort
<1> QED
  BY <1>1, <1>3, <1>4, <1>5, <1>6, <1>7, <1>8, <1>9, <1>10, <1>11, <1>12, <1>13
  DEF Next, Step

\* On both backends, whatever the interleaving: an open transaction that has
\* saved a match holds its key alone and writes from the row that is stored.
THEOREM WritesFromCurrentRows == Spec => []WriteInv
<1>1. Init => TypeOK /\ WriteInv
  BY InitTypeOK, InitWriteInv
<1>2. TypeOK /\ WriteInv /\ [Next]_vars => (TypeOK /\ WriteInv)'
  BY NextTypeOK, NextWriteInv
<1> QED BY <1>1, <1>2, PTL DEF Spec

----------------------------------------------------------------------------
(***************************************************************************)
(* No lost update: command execution implements the life of each match.    *)
(***************************************************************************)
\* What an accepted command does to the row it loaded is an action of the
\* abstract match.
LEMMA AcceptedIsLifecycleStep ==
  ASSUME NEW w \in Workers, NEW c \in Commands, NEW m \in Matches,
         m = TargetOf(c), Accepts(c, matches[m]), matches'[m] = After(matches[m], c)
  PROVE  Lifecycle(m)!Next
<1>1. CASE Kind[c] = "upsert"
  <2>1. matches'[m] = Upserted(matches[m], c)
    BY <1>1 DEF After
  <2>2. Lifecycle(m)!CreateOrUpdate(c)
    BY <1>1, <2>1 DEF Lifecycle!CreateOrUpdate, Lifecycle!Upserted, Upserted
  <2> QED BY <2>2 DEF Lifecycle!Next, Lifecycle!TargetOf, TargetOf
<1>2. CASE Kind[c] = "stats"
  <2>1. matches'[m] = StatsRecorded(matches[m], c)
    BY <1>2 DEF After
  <2>2. Lifecycle(m)!RecordStats(c)
    BY <1>2, <2>1
    DEF Accepts, Exists, Lifecycle!RecordStats, Lifecycle!Exists,
        Lifecycle!StatsRecorded, StatsRecorded
  <2> QED BY <2>2 DEF Lifecycle!Next, Lifecycle!TargetOf, TargetOf
<1>3. CASE Kind[c] = "finalize"
  <2>1. matches'[m] = Finalized(matches[m], c)
    BY <1>3 DEF After
  <2>2. Lifecycle(m)!Finalize(c)
    BY <1>3, <2>1
    DEF Accepts, Exists, CanFinalize, Lifecycle!Finalize, Lifecycle!Exists,
        Lifecycle!CanFinalize, Lifecycle!Finalized, Finalized
  <2> QED BY <2>2 DEF Lifecycle!Next, Lifecycle!TargetOf, TargetOf
<1>4. CASE Kind[c] = "approve"
  <2>1. matches'[m] = Corrected(matches[m], ProposalOf[c])
    BY <1>4 DEF After
  <2>2. Lifecycle(m)!ApplyCorrection(c)
    BY <1>4, <2>1
    DEF Accepts, Exists, CanCorrect, Lifecycle!ApplyCorrection, Lifecycle!Exists,
        Lifecycle!CanCorrect, Lifecycle!Corrected, Corrected
  <2> QED BY <2>2 DEF Lifecycle!Next, Lifecycle!TargetOf, TargetOf
<1> QED BY <1>1, <1>2, <1>3, <1>4 DEF Accepts

\* Only COMMIT changes a match.
LEMMA OnlyCommitChangesMatches ==
  ASSUME [Next]_vars, matches' # matches
  PROVE  \E w \in Workers : Commit(w)
BY DEF Next, Step, vars, tables, Begin, Abort, RollBack, CheckProcessed, LoadProposal,
       LoadMatch, SaveProposal, SaveMatch, SaveStats, InsertRow, MarkProcessed

\* A step moves the committed row of a match as MatchLifecycle allows, or not at
\* all: the worker that commits a row holds its lock and loaded the one it replaces.
LEMMA NextFollowsLifecycle ==
  ASSUME TypeOK, WriteInv, [Next]_vars
  PROVE  [\A m \in Matches : [Lifecycle(m)!Next]_(matches[m])]_matches
<1> SUFFICES ASSUME matches' # matches, NEW m \in Matches, matches'[m] # matches[m]
             PROVE  Lifecycle(m)!Next
  OBVIOUS
<1>1. PICK w \in Workers : Commit(w)
  BY OnlyCommitChangesMatches
<1> DEFINE c == cmd[w]
<1>2. c \in Commands /\ TargetOf(c) \in Matches
  BY <1>1, TargetType DEF Commit, TypeOK
<1>3. /\ Key("matches", TargetOf(c)) \in pending[w]
      /\ matches' = [matches EXCEPT ![TargetOf(c)] = After(base[w], c)]
  BY <1>1 DEF Commit
<1>4. /\ base[w] = matches[TargetOf(c)]
      /\ Accepts(c, base[w])
  BY <1>2, <1>3 DEF WriteInv, WritesAreCurrent
<1>5. m = TargetOf(c) /\ matches'[m] = After(matches[m], c)
  BY <1>2, <1>3, <1>4 DEF TypeOK
<1> QED BY <1>2, <1>4, <1>5, AcceptedIsLifecycleStep

\* "Nunca hay lost update": every change of a match row is an operation of
\* the aggregate on the row that is stored, which that row accepts.
THEOREM NoLostUpdate == Spec => MatchesFollowLifecycle
<1>1. Init => \A m \in Matches : Lifecycle(m)!Init
  BY DEF Init, NoRow, Lifecycle!Init, Lifecycle!NoRow
<1>2. TypeOK /\ WriteInv /\ [Next]_vars =>
        [\A m \in Matches : [Lifecycle(m)!Next]_(matches[m])]_matches
  BY NextFollowsLifecycle
<1> QED
  BY <1>1, <1>2, TypeCorrect, WritesFromCurrentRows, PTL
  DEF Spec, MatchesFollowLifecycle

----------------------------------------------------------------------------
(***************************************************************************)
(* The correction history.                                                 *)
(***************************************************************************)
\* HistoryFollowsVersions, of one row.
ChainedHistory(row) ==
  \A i \in 1..Len(row.history) :
    /\ row.history[i].new = row.history[i].previous + 1
    /\ row.history[i].new <= row.version
    /\ i < Len(row.history) => row.history[i].new <= row.history[i + 1].previous

\* The commands other than approvals advance the version and keep the history.
LEMMA AfterKeepsHistory ==
  ASSUME NEW c \in Commands, NEW row \in MatchRows,
         Kind[c] \in {"upsert", "stats", "finalize"}
  PROVE  After(row, c).history = row.history
BY DEF After, Upserted, StatsRecorded, Finalized, MatchRows

\* A history that chains and ends at the version of its row still does once a
\* correction is appended that starts at that version.
LEMMA ChainKept ==
  ASSUME NEW row \in MatchRows, ChainedHistory(row), NEW next,
         next.version = row.version + 1, next.history = row.history
  PROVE  ChainedHistory(next)
<1>1. row.version \in Nat /\ \A i \in 1..Len(row.history) : row.history[i] \in Corrections
  BY DEF MatchRows
<1>2. \A i \in 1..Len(row.history) : row.history[i].new \in Nat
  BY <1>1 DEF Corrections
<1> QED BY <1>1, <1>2 DEF ChainedHistory

\* An approval appends an entry from the version the match had.
LEMMA ChainExtended ==
  ASSUME NEW row \in MatchRows, ChainedHistory(row), NEW next, NEW entry,
         entry.previous = row.version, entry.new = row.version + 1,
         next.version = row.version + 1, next.history = Append(row.history, entry)
  PROVE  ChainedHistory(next)
<1> DEFINE h == row.history
<1>1. /\ row.version \in Nat
      /\ h \in Seq(Corrections)
  BY DEF MatchRows
<1>2. \A i \in 1..Len(h) : h[i].new \in Nat
  <2>1. \A i \in 1..Len(h) : h[i] \in Corrections
    BY <1>1
  <2> QED BY <2>1 DEF Corrections
<1>3. /\ Len(next.history) = Len(h) + 1
      /\ Len(h) \in Nat
      /\ \A i \in 1..Len(h) : next.history[i] = h[i]
      /\ next.history[Len(h) + 1] = entry
  BY <1>1
<1> SUFFICES ASSUME NEW i \in 1..Len(next.history)
             PROVE  /\ next.history[i].new = next.history[i].previous + 1
                    /\ next.history[i].new <= next.version
                    /\ i < Len(next.history) =>
                         next.history[i].new <= next.history[i + 1].previous
  BY DEF ChainedHistory
<1>4. CASE i = Len(h) + 1
  BY <1>1, <1>3, <1>4
<1>5. CASE i \in 1..Len(h)
  <2>1. /\ h[i].new = h[i].previous + 1
        /\ h[i].new <= row.version
        /\ i < Len(h) => h[i].new <= h[i + 1].previous
        /\ next.history[i] = h[i]
    BY <1>3, <1>5 DEF ChainedHistory
  <2>2. h[i].new <= row.version + 1
    BY <1>1, <1>2, <1>5, <2>1
  <2>3. CASE i = Len(h)
    BY <1>3, <2>1, <2>2, <2>3
  <2>4. CASE i # Len(h)
    <3>1. i + 1 \in 1..Len(h) /\ i < Len(h)
      BY <1>3, <1>5, <2>4
    <3> QED BY <1>3, <2>1, <2>2, <3>1
  <2> QED BY <2>3, <2>4
<1> QED BY <1>3, <1>4, <1>5

\* What a handler makes of a row whose history chains has one that chains.
LEMMA AfterChained ==
  ASSUME NEW c \in Commands, NEW row \in MatchRows, ChainedHistory(row),
         Kind[c] \in {"upsert", "stats", "finalize", "approve"}
  PROVE  ChainedHistory(After(row, c))
<1>1. After(row, c).version = row.version + 1
  BY AfterVersion
<1>2. CASE Kind[c] # "approve"
  BY <1>1, <1>2, AfterKeepsHistory, ChainKept
<1>3. CASE Kind[c] = "approve"
  <2> DEFINE entry == [correction |-> ProposalOf[c], previous |-> row.version,
                       new |-> row.version + 1]
  <2>1. After(row, c) = Corrected(row, ProposalOf[c])
    BY <1>3 DEF After
  <2>2. After(row, c).history = Append(row.history, entry)
    BY <2>1 DEF Corrected, MatchRows
  <2>3. entry.previous = row.version /\ entry.new = row.version + 1
    OBVIOUS
  <2> HIDE DEF entry
  <2> QED BY <1>1, <2>2, <2>3, ChainExtended
<1> QED BY <1>2, <1>3

\* A committed match row is the one before, or what an accepted command made
\* of it.
LEMMA CommittedRow ==
  ASSUME TypeOK, WriteInv, [Next]_vars, NEW m \in Matches, matches'[m] # matches[m]
  PROVE  \E c \in Commands :
           /\ Kind[c] \in {"upsert", "stats", "finalize", "approve"}
           /\ matches'[m] = After(matches[m], c)
<1>1. PICK w \in Workers : Commit(w)
  BY OnlyCommitChangesMatches
<1> DEFINE c == cmd[w]
<1>2. c \in Commands /\ TargetOf(c) \in Matches
  BY <1>1, TargetType DEF Commit, TypeOK
<1>3. /\ Key("matches", TargetOf(c)) \in pending[w]
      /\ matches' = [matches EXCEPT ![TargetOf(c)] = After(base[w], c)]
  BY <1>1 DEF Commit
<1>4. base[w] = matches[TargetOf(c)] /\ Accepts(c, base[w])
  BY <1>2, <1>3 DEF WriteInv, WritesAreCurrent
<1> QED BY <1>2, <1>3, <1>4 DEF Accepts, TypeOK

\* The correction history of a match is a chain that never runs ahead of its
\* version, on both backends and however the approvals interleave.
THEOREM HistoryIsChained == Spec => []HistoryFollowsVersions
<1>1. Init => HistoryFollowsVersions
  BY DEF Init, NoRow, HistoryFollowsVersions
<1>2. TypeOK /\ WriteInv /\ HistoryFollowsVersions /\ [Next]_vars => HistoryFollowsVersions'
  <2> SUFFICES ASSUME TypeOK, WriteInv, HistoryFollowsVersions, [Next]_vars, NEW m \in Matches
               PROVE  ChainedHistory(matches'[m])
    BY DEF HistoryFollowsVersions, ChainedHistory
  <2>1. ChainedHistory(matches[m]) /\ matches[m] \in MatchRows
    BY DEF HistoryFollowsVersions, ChainedHistory, TypeOK
  <2>2. CASE matches'[m] = matches[m]
    BY <2>1, <2>2
  <2>3. CASE matches'[m] # matches[m]
    BY <2>1, <2>3, CommittedRow, AfterChained
  <2> QED BY <2>2, <2>3
<1> QED BY <1>1, <1>2, TypeCorrect, WritesFromCurrentRows, PTL DEF Spec
=============================================================================

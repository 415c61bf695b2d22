-------------------------- MODULE CommandEventProofs --------------------------
(***************************************************************************)
(* Proofs that the tables a command writes agree with each other and with  *)
(* the outbox, for every set of commands and matches, any number of        *)
(* workers, both backends and any number of attempts; and, on SQLite,      *)
(* where BEGIN IMMEDIATE admits one transaction at a time, that a command  *)
(* takes effect once and that execution implements the atomic commands of  *)
(* the API.                                                                *)
(***************************************************************************)
EXTENDS CommandProofs, FiniteSetTheorems

----------------------------------------------------------------------------
(***************************************************************************)
(* What a transaction has written when it comes to its end.                *)
(***************************************************************************)
\* The handler of c, having loaded that row, saves the match.
Saves(c, row) ==
  \/ Kind[c] \in {"upsert", "stats", "approve"}
  \/ Kind[c] = "finalize" /\ CanFinalize(row, c)

\* The proposal that the handler of c saves, if it saves one.
SavedProposals(c) ==
  IF Kind[c] = "propose" THEN {c} ELSE IF Kind[c] = "approve" THEN {ProposalOf[c]} ELSE {}

\* The keys in pending are those of the handler's own rows, and past the save
\* of a row its key is there: what a transaction commits is all or nothing.
KeysOf(w) ==
  /\ pc[w] = "insertRow" => Kind[cmd[w]] \in {"derive", "publish"}
  /\ pc[w] \in {"saveStats", "mark", "commit"} /\ Saves(cmd[w], base[w]) =>
       Key("matches", TargetOf(cmd[w])) \in pending[w]
  /\ pc[w] \in {"saveMatch", "saveStats", "mark", "commit"} =>
       \A p \in SavedProposals(cmd[w]) : Key("proposals", p) \in pending[w]
  /\ \A p \in Commands : Key("proposals", p) \in pending[w] => p \in SavedProposals(cmd[w])
  /\ \A k \in Commands : Key("idempotency", k) \in pending[w] => k = cmd[w]

KeysInv == \A w \in Workers : KeysOf(w)

\* The variables of every worker but w stay.
OthersWait(w) ==
  \A v \in Workers \ {w} :
    pc'[v] = pc[v] /\ cmd'[v] = cmd[v] /\ base'[v] = base[v] /\ pending'[v] = pending[v]

\* Only the keys of the worker that moves are in question.
LEMMA KeysOfOthers ==
  ASSUME KeysInv, NEW w \in Workers, OthersWait(w), KeysOf(w)'
  PROVE  KeysInv'
<1> SUFFICES ASSUME NEW v \in Workers, v # w PROVE KeysOf(v)'
  BY DEF KeysInv
<1> QED BY DEF KeysInv, KeysOf, OthersWait, Saves, SavedProposals, TargetOf, CanFinalize

\* Nothing is written in the beginning.
LEMMA InitKeysInv == Init => KeysInv
BY DEF Init, KeysInv, KeysOf

\* A transaction that ends has no keys.
LEMMA EndTransactionKeys ==
  ASSUME TypeOK, KeysInv, NEW w \in Workers, EndTransaction(w)
  PROVE  KeysInv'
<1>1. OthersWait(w) /\ pc'[w] = "idle" /\ pending'[w] = {}
  BY DEF EndTransaction, OthersWait, TypeOK
<1>2. KeysOf(w)'
  BY <1>1 DEF KeysOf
<1> QED BY <1>1, <1>2, KeysOfOthers

\* A handler that has loaded a row and does not save the match next has either
\* a proposal to save first or, refused, nothing at all.
LEMMA AfterLoadSaves ==
  ASSUME NEW c \in Commands, NEW row, Kind[c] \in {"upsert", "stats", "finalize", "approve"}
  PROVE  /\ AfterLoad(c, row) = "saveMatch" => Kind[c] # "approve"
         /\ AfterLoad(c, row) = "commit" => Kind[c] = "finalize" /\ ~CanFinalize(row, c)
BY DEF AfterLoad

\* Every step keeps the keys in order.
LEMMA NextKeysInv == TypeOK /\ WriteInv /\ KeysInv /\ [Next]_vars => KeysInv'
<1> SUFFICES ASSUME TypeOK, WriteInv, KeysInv, [Next]_vars PROVE KeysInv'
  OBVIOUS
<1> USE DEF TypeOK
<1>1. ASSUME NEW w \in Workers, NEW c \in Commands, Begin(w, c) PROVE KeysInv'
  <2>1. /\ pc'[w] = FirstStatement(c) /\ cmd'[w] = c /\ pending'[w] = {}
        /\ OthersWait(w)
    BY <1>1 DEF Begin, Goto, WriteInv, HandlersInOrder, OthersWait
  <2>2. /\ FirstStatement(c) \in {"insertRow", "commit", "check"}
        /\ FirstStatement(c) = "insertRow" => Kind[c] = "publish"
        /\ FirstStatement(c) = "commit" => Kind[c] = "backfill"
    BY DEF FirstStatement
  <2>3. KeysOf(w)'
    BY <2>1, <2>2 DEF KeysOf, Saves, SavedProposals
  <2> QED BY <2>1, <2>3, KeysOfOthers
<1>2. ASSUME NEW w \in Workers, RollBack(w) PROVE KeysInv'
  BY <1>2, EndTransactionKeys DEF RollBack
<1>3. ASSUME NEW w \in Workers, CheckProcessed(w), ~RollBack(w) PROVE KeysInv'
  <2> DEFINE c == cmd[w]
  <2>1. /\ pc[w] = "check" /\ c \in Commands /\ Kind[c] \in Kinds
        /\ pc'[w] = AfterCheck(c) /\ cmd'[w] = c /\ pending'[w] = pending[w]
        /\ OthersWait(w)
    BY <1>3, KindType DEF CheckProcessed, Goto, OthersWait
  <2>2. /\ Kind[c] \notin {"publish", "backfill"}
        /\ AfterCheck(c) = "insertRow" => Kind[c] = "derive"
    BY <2>1 DEF WriteInv, HandlersInOrder, AfterCheck
  <2>3. AfterCheck(c) \in {"saveProposal", "loadProposal", "insertRow", "loadMatch"}
    BY <2>1, AfterCheckType
  <2> HIDE DEF c
  <2>4. KeysOf(w)'
    BY <2>1, <2>2, <2>3 DEF KeysInv, KeysOf, c
  <2> QED BY <2>1, <2>4, KeysOfOthers
<1>4. ASSUME NEW w \in Workers, LoadProposal(w), ~RollBack(w) PROVE KeysInv'
  <2>1. /\ pc'[w] = "loadMatch" /\ cmd'[w] = cmd[w] /\ pending'[w] = pending[w]
        /\ OthersWait(w)
    BY <1>4 DEF LoadProposal, Goto, OthersWait
  <2>2. KeysOf(w)'
    BY <2>1 DEF KeysInv, KeysOf
  <2> QED BY <2>1, <2>2, KeysOfOthers
<1>5. ASSUME NEW w \in Workers, LoadMatch(w), ~RollBack(w) PROVE KeysInv'
  <2> DEFINE c == cmd[w]
             row == matches[TargetOf(c)]
             s == AfterLoad(c, row)
  <2>1. /\ pc[w] = "loadMatch" /\ c \in Commands /\ s # "idle"
        /\ pc'[w] = s /\ cmd'[w] = c /\ base'[w] = row /\ pending'[w] = pending[w]
        /\ OthersWait(w)
    BY <1>5 DEF LoadMatch, Goto, OthersWait
  <2>2. Kind[c] \in {"upsert", "stats", "finalize", "approve"}
    BY <2>1 DEF WriteInv, HandlersInOrder
  <2>3. /\ s \in {"saveMatch", "commit", "saveProposal"}
        /\ s = "saveMatch" => Kind[c] # "approve"
        /\ s = "commit" => Kind[c] = "finalize" /\ ~CanFinalize(row, c)
    BY <2>1, <2>2, AfterLoadType, AfterLoadSaves
  <2> HIDE DEF s, row
  <2>4. KeysOf(w)'
    BY <2>1, <2>2, <2>3 DEF KeysInv, KeysOf, Saves, SavedProposals
  <2> QED BY <2>1, <2>4, KeysOfOthers
<1>6. ASSUME NEW w \in Workers, SaveProposal(w) PROVE KeysInv'
  <2> DEFINE c == cmd[w]
             p == IF Kind[c] = "approve" THEN ProposalOf[c] ELSE c
             s == IF Kind[c] = "approve" THEN "saveMatch" ELSE "mark"
  <2>1. /\ pc[w] = "saveProposal" /\ cmd'[w] = c /\ base'[w] = base[w]
        /\ pc'[w] = s /\ pending'[w] = pending[w] \cup {Key("proposals", p)}
        /\ OthersWait(w)
    BY <1>6 DEF SaveProposal, Goto, Write, OthersWait
  <2>2. SavedProposals(c) = {p}
    BY <2>1 DEF WriteInv, HandlersInOrder, SavedProposals
  <2>3. s = "mark" => ~Saves(c, base[w])
    BY <2>1 DEF WriteInv, HandlersInOrder, Saves
  <2> HIDE DEF p
  <2>4. KeysOf(w)'
    BY <2>1, <2>2, <2>3 DEF KeysInv, KeysOf, Key
  <2> QED BY <2>1, <2>4, KeysOfOthers
<1>7. ASSUME NEW w \in Workers, SaveMatch(w), ~RollBack(w) PROVE KeysInv'
  <2> DEFINE c == cmd[w]
             s == IF Kind[c] = "stats" THEN "saveStats" ELSE "mark"
  <2>1. /\ pc[w] = "saveMatch" /\ cmd'[w] = c /\ base'[w] = base[w]
        /\ pc'[w] = s /\ pending'[w] = pending[w] \cup {Key("matches", TargetOf(c))}
        /\ OthersWait(w)
    BY <1>7 DEF SaveMatch, Goto, Write, OthersWait
  <2>2. KeysOf(w)'
    BY <2>1 DEF KeysInv, KeysOf, Key
  <2> QED BY <2>1, <2>2, KeysOfOthers
<1>8. ASSUME NEW w \in Workers, SaveStats(w) PROVE KeysInv'
  <2> DEFINE c == cmd[w]
  <2>1. /\ pc[w] = "saveStats" /\ cmd'[w] = c /\ base'[w] = base[w]
        /\ pc'[w] = "mark" /\ pending'[w] = pending[w] \cup {Key("stats", TargetOf(c))}
        /\ OthersWait(w)
    BY <1>8 DEF SaveStats, Goto, Write, OthersWait
  <2>2. KeysOf(w)'
    BY <2>1 DEF KeysInv, KeysOf, Key
  <2> QED BY <2>1, <2>2, KeysOfOthers
<1>9. ASSUME NEW w \in Workers, InsertRow(w) PROVE KeysInv'
  <2> DEFINE c == cmd[w]
  <2>1. /\ pc[w] = "insertRow" /\ cmd'[w] = c /\ base'[w] = base[w]
        /\ pc'[w] \in {"mark", "commit"} /\ OthersWait(w)
    BY <1>9 DEF InsertRow, Goto, Write, OthersWait
  <2>2. Kind[c] \in {"derive", "publish"}
    BY <2>1 DEF KeysInv, KeysOf
  <2>3. /\ ~Saves(c, base[w]) /\ SavedProposals(c) = {}
        /\ pending'[w] = pending[w] \/ pending'[w] = pending[w] \cup {Key("publications", c)}
    BY <1>9, <2>2 DEF InsertRow, Write, Saves, SavedProposals
  <2>4. KeysOf(w)'
    BY <2>1, <2>3 DEF KeysInv, KeysOf, Key
  <2> QED BY <2>1, <2>4, KeysOfOthers
<1>10. ASSUME NEW w \in Workers, MarkProcessed(w) PROVE KeysInv'
  <2> DEFINE c == cmd[w]
  <2>1. /\ pc[w] = "mark" /\ cmd'[w] = c /\ base'[w] = base[w]
        /\ pc'[w] = "commit" /\ OthersWait(w)
        /\ pending'[w] = pending[w] \/ pending'[w] = pending[w] \cup {Key("idempotency", c)}
    BY <1>10 DEF MarkProcessed, Goto, Write, OthersWait
  <2>2. KeysOf(w)'
    BY <2>1 DEF KeysInv, KeysOf, Key
  <2> QED BY <2>1, <2>2, KeysOfOthers
<1>11. ASSUME NEW w \in Workers, Commit(w) PROVE KeysInv'
  BY <1>11, EndTransactionKeys DEF Commit
<1>12. CASE UNCHANGED vars
  BY <1>12 DEF vars, KeysInv, KeysOf, Saves, SavedProposals, TargetOf, CanFinalize
<1> QED
  BY <1>1, <1>2, <1>3, <1>4, <1>5, <1>6, <1>7, <1>8, <1>9, <1>10, <1>11, <1>12
  DEF Next, Step, Abort

----------------------------------------------------------------------------
(***************************************************************************)
(* What a step does to the tables.                                         *)
(***************************************************************************)
\* A step begins an attempt, gives one up, commits one, or stays within one.
LEMMA NextForms ==
  ASSUME [Next]_vars
  PROVE  \/ \E w \in Workers, c \in Commands : Begin(w, c)
         \/ \E w \in Workers : RollBack(w) /\ UNCHANGED attempts
         \/ \E w \in Workers : Commit(w)
         \/ UNCHANGED <<tables, attempts, cmd, try>>
BY DEF Next, Step, vars, tables, Abort, CheckProcessed, LoadProposal, LoadMatch,
       SaveProposal, SaveMatch, SaveStats, InsertRow, MarkProcessed

\* Only COMMIT changes a table.
LEMMA OnlyCommitWrites ==
  ASSUME [Next]_vars, ~ \E w \in Workers : Commit(w)
  PROVE  UNCHANGED tables
BY NextForms DEF Begin, RollBack

\* What COMMIT does, in terms of the command: the row of the match becomes what
\* the handler made of the row that is stored, or stays; a proposal that the
\* handler saves becomes its copy; and the events are those of the stored row.
LEMMA CommitWrites ==
  ASSUME TypeOK, WriteInv, KeysInv, NEW w \in Workers, Commit(w),
         NEW c, c = cmd[w], NEW m, m = TargetOf(c)
  PROVE  /\ pc[w] = "commit" /\ c \in Commands /\ m \in Matches
         /\ try[w] \in Nat /\ base[w] \in MatchRows
         /\ Saves(c, base[w]) =>
              /\ base[w] = matches[m]
              /\ Accepts(c, matches[m])
              /\ matches' = [matches EXCEPT ![m] = After(matches[m], c)]
         /\ ~Saves(c, base[w]) => matches' = matches
         /\ proposals' = [p \in Commands |->
              IF p \notin SavedProposals(c) THEN proposals[p]
              ELSE IF Kind[c] = "propose" THEN Proposed
              ELSE ApprovedAt(matches[m].version + 1)]
         /\ processed' \in {processed, processed \cup {c}}
         /\ outbox' = Appended(outbox, EventsOf(c, try[w], base[w]))
         /\ attempts' = attempts /\ EndTransaction(w)
<1>1. /\ pc[w] = "commit" /\ c \in Commands /\ m \in Matches
      /\ try[w] \in Nat /\ base[w] \in MatchRows
  BY TargetType DEF Commit, TypeOK
<1>2. KeysOf(w)
  BY DEF KeysInv
<1>3. Key("matches", m) \in pending[w] <=> Saves(c, base[w])
  BY <1>1, <1>2 DEF KeysOf, WriteInv, WritesAreCurrent, Accepts, Saves
<1>4. Saves(c, base[w]) => base[w] = matches[m] /\ Accepts(c, matches[m])
  BY <1>1, <1>3 DEF WriteInv, WritesAreCurrent
<1>5. /\ Saves(c, base[w]) => matches' = [matches EXCEPT ![m] = After(base[w], c)]
      /\ ~Saves(c, base[w]) => matches' = matches
  BY <1>3 DEF Commit
<1>6. \A p \in Commands : Key("proposals", p) \in pending[w] <=> p \in SavedProposals(c)
  BY <1>1, <1>2 DEF KeysOf
<1>7. proposals' = [p \in Commands |->
        IF p \notin SavedProposals(c) THEN proposals[p]
        ELSE IF Kind[c] = "propose" THEN Proposed
        ELSE ApprovedAt(base[w].version + 1)]
  BY <1>6 DEF Commit
<1>8. \A p \in Commands : p \in SavedProposals(c) /\ Kind[c] # "propose" => Saves(c, base[w])
  BY DEF SavedProposals, Saves
<1>9. processed' \in {processed, processed \cup {c}}
  BY DEF Commit
<1>10. /\ outbox' = Appended(outbox, EventsOf(c, try[w], base[w]))
       /\ attempts' = attempts /\ EndTransaction(w)
  BY DEF Commit
<1> QED BY <1>1, <1>4, <1>5, <1>7, <1>8, <1>9, <1>10

\* INSERT ... ON CONFLICT DO NOTHING: the outbox keeps its events, gets no others
\* than those of the handler, and has one under each of their ids.
LEMMA AppendedEvents ==
  ASSUME NEW events, outbox' = Appended(outbox, events)
  PROVE  /\ outbox \subseteq outbox'
         /\ \A e \in outbox' : e \in outbox \/ e \in events
         /\ \A e \in events : \E o \in outbox' : o.id = e.id
         /\ \A e \in events : (\A o \in outbox : o.id # e.id) => e \in outbox'
BY DEF Appended

----------------------------------------------------------------------------
(***************************************************************************)
(* Attempts.                                                               *)
(***************************************************************************)
\* Two attempts of one command never share a number, and the outbox has no fresh
\* event of an attempt that has not committed.
AttemptsInv ==
  /\ \A w \in Workers :
       cmd[w] \in Commands =>
         /\ try[w] <= attempts[cmd[w]]
         /\ \A v \in Workers \ {w} : cmd[v] = cmd[w] => try[v] # try[w]
  /\ \A e \in outbox :
       e.id.tag # "own" =>
         /\ e.id.attempt <= attempts[e.id.by]
         /\ \A w \in Workers : cmd[w] = e.id.by => try[w] # e.id.attempt

\* A handler gives its own attempt to the events that get fresh ids.
LEMMA EventIdsOfAttempt ==
  ASSUME NEW c \in Commands, NEW n, NEW row, NEW e \in EventsOf(c, n, row), e.id.tag # "own"
  PROVE  e.id.by = c /\ e.id.attempt = n
<1>1. \A type, m : Own(ProposalOf[c], type, m).id.tag = "own" /\ Own(c, type, m).id.tag = "own"
  BY DEF Own
<1>2. \A type, m : Fresh(c, n, type, m).id.by = c /\ Fresh(c, n, type, m).id.attempt = n
  BY DEF Fresh
<1>3. e = Own(ProposalOf[c], "CorrectionApproved", TargetOf(c))
      \/ e = Own(c, "CorrectionProposed", TargetOf(c))
      \/ e = Own(c, "PublicationCreated", TargetOf(c))
      \/ \E type \in EventTypes : e = Fresh(c, n, type, TargetOf(c))
  BY DEF EventsOf, EventTypes
<1> QED BY <1>1, <1>2, <1>3

\* There are no attempts in the beginning.
LEMMA InitAttempts == Init => AttemptsInv
BY CommandAssumption DEF Init, AttemptsInv

\* Each attempt gets a number of its own.
LEMMA NextAttempts == TypeOK /\ WriteInv /\ KeysInv /\ AttemptsInv /\ [Next]_vars => AttemptsInv'
<1> SUFFICES ASSUME TypeOK, WriteInv, KeysInv, AttemptsInv, [Next]_vars PROVE AttemptsInv'
  OBVIOUS
<1>1. ASSUME NEW w \in Workers, NEW c \in Commands, Begin(w, c) PROVE AttemptsInv'
  <2>1. /\ attempts' = [attempts EXCEPT ![c] = @ + 1]
        /\ cmd' = [cmd EXCEPT ![w] = c]
        /\ try' = [try EXCEPT ![w] = attempts[c] + 1]
        /\ outbox' = outbox
    BY <1>1 DEF Begin, tables
  <2>2. /\ \A e \in outbox : e.id.by \in Commands /\ e.id.attempt \in Nat
        /\ \A d \in Commands :
             attempts[d] \in Nat /\ attempts'[d] \in Nat /\ attempts[d] <= attempts'[d]
        /\ attempts'[c] = attempts[c] + 1
        /\ \A v \in Workers : try[v] \in Nat
        /\ cmd'[w] = c /\ try'[w] = attempts[c] + 1
        /\ \A v \in Workers \ {w} : cmd'[v] = cmd[v] /\ try'[v] = try[v]
    BY <2>1 DEF TypeOK, Events, EventIds
  <2>3. \A v \in Workers : cmd[v] \in Commands => try[v] <= attempts[cmd[v]]
    BY DEF AttemptsInv
  <2>4. \A v \in Workers \ {w} : cmd'[v] \in Commands => try'[v] <= attempts'[cmd'[v]]
    <3> SUFFICES ASSUME NEW v \in Workers \ {w}, cmd[v] \in Commands
                 PROVE  try[v] <= attempts'[cmd[v]]
      BY <2>2
    <3>1. try[v] <= attempts[cmd[v]] /\ attempts[cmd[v]] <= attempts'[cmd[v]]
      BY <2>2, <2>3
    <3> QED BY <2>2, <3>1
  <2>5. \A v \in Workers \ {w} : cmd[v] = c => try[v] # attempts[c] + 1
    BY <2>2, <2>3
  <2>6. \A v \in Workers : cmd'[v] \in Commands =>
          /\ try'[v] <= attempts'[cmd'[v]]
          /\ \A u \in Workers \ {v} : cmd'[u] = cmd'[v] => try'[u] # try'[v]
    BY <2>2, <2>4, <2>5 DEF AttemptsInv
  <2>7. \A e \in outbox' : e.id.tag # "own" =>
          /\ e.id.attempt <= attempts'[e.id.by]
          /\ \A v \in Workers : cmd'[v] = e.id.by => try'[v] # e.id.attempt
    <3> SUFFICES ASSUME NEW e \in outbox, e.id.tag # "own"
                 PROVE  /\ e.id.attempt <= attempts'[e.id.by]
                        /\ \A v \in Workers : cmd'[v] = e.id.by => try'[v] # e.id.attempt
      BY <2>1
    <3>1. /\ e.id.attempt <= attempts[e.id.by] /\ attempts[e.id.by] <= attempts'[e.id.by]
          /\ \A v \in Workers : cmd[v] = e.id.by => try[v] # e.id.attempt
      BY <2>2 DEF AttemptsInv
    <3>2. e.id.by = c => e.id.attempt # attempts[c] + 1
      BY <2>2, <3>1
    <3> QED BY <2>2, <3>1, <3>2
  <2> QED BY <2>6, <2>7 DEF AttemptsInv
<1>2. ASSUME NEW w \in Workers, EndTransaction(w), attempts' = attempts,
             \A e \in outbox' : e \in outbox \/ e.id.tag = "own" \/
               /\ cmd[w] \in Commands
               /\ e.id.by = cmd[w]
               /\ e.id.attempt = try[w]
      PROVE  AttemptsInv'
  <2>1. /\ cmd'[w] = NoCommand
        /\ \A v \in Workers \ {w} : cmd'[v] = cmd[v] /\ try'[v] = try[v]
    BY <1>2 DEF EndTransaction, TypeOK
  <2>2. \A v \in Workers : cmd'[v] \in Commands => v # w
    BY <2>1, CommandAssumption
  <2>3. \A e \in outbox : e.id.by \in Commands
    BY DEF TypeOK, Events, EventIds
  <2> QED BY <1>2, <2>1, <2>2, <2>3, CommandAssumption DEF AttemptsInv
<1>3. ASSUME NEW w \in Workers, RollBack(w), UNCHANGED attempts PROVE AttemptsInv'
  BY <1>2, <1>3 DEF RollBack, tables
<1>4. ASSUME NEW w \in Workers, Commit(w) PROVE AttemptsInv'
  <2>1. /\ cmd[w] \in Commands /\ attempts' = attempts /\ EndTransaction(w)
        /\ outbox' = Appended(outbox, EventsOf(cmd[w], try[w], base[w]))
    BY <1>4, CommitWrites
  <2>2. \A e \in outbox' : e \in outbox \/ e \in EventsOf(cmd[w], try[w], base[w])
    BY <2>1, AppendedEvents
  <2> QED BY <1>2, <2>1, <2>2, EventIdsOfAttempt
<1>5. CASE UNCHANGED <<tables, attempts, cmd, try>>
  BY <1>5 DEF AttemptsInv, tables
<1> QED BY <1>1, <1>3, <1>4, <1>5, NextForms

----------------------------------------------------------------------------
(***************************************************************************)
(* Proposals.                                                              *)
(***************************************************************************)
\* The statements of a worker that has loaded a proposal.
HasProposal == {"loadMatch", "saveProposal", "saveMatch", "saveStats", "mark", "commit"}

\* Only propose commands make proposals, and the proposal an approval has loaded
\* does not go away.
ProposalsInv ==
  /\ \A p \in Commands : proposals[p].status # "NONE" => Kind[p] = "propose"
  /\ \A w \in Workers :
       pc[w] \in HasProposal /\ Kind[cmd[w]] = "approve" =>
         proposals[ProposalOf[cmd[w]]].status # "NONE"

\* There are no proposals in the beginning.
LEMMA InitProposals == Init => ProposalsInv
BY DEF Init, ProposalsInv, NoProposal, HasProposal

\* A saved proposal has a row, and no proposal loses it.
LEMMA CommitProposals ==
  ASSUME TypeOK, WriteInv, KeysInv, ProposalsInv, NEW w \in Workers, Commit(w)
  PROVE  /\ \A p \in SavedProposals(cmd[w]) :
              p \in Commands /\ Kind[p] = "propose" /\ proposals'[p].status # "NONE"
         /\ \A p \in Commands : p \notin SavedProposals(cmd[w]) => proposals'[p] = proposals[p]
<1> DEFINE c == cmd[w]
<1>1. /\ pc[w] = "commit" /\ c \in Commands /\ ProposalOf[c] \in Commands
      /\ proposals' = [p \in Commands |->
           IF p \notin SavedProposals(c) THEN proposals[p]
           ELSE IF Kind[c] = "propose" THEN Proposed
           ELSE ApprovedAt(matches[TargetOf(c)].version + 1)]
  BY CommitWrites, KindType
<1>2. \A p \in SavedProposals(c) : p \in Commands /\ Kind[p] = "propose"
  BY <1>1 DEF SavedProposals, ProposalsInv, HasProposal
<1>3. \A v : Proposed.status # "NONE" /\ ApprovedAt(v).status # "NONE"
  BY DEF Proposed, ApprovedAt
<1> HIDE DEF c
<1> QED BY <1>1, <1>2, <1>3 DEF c

\* Every step keeps ProposalsInv.
LEMMA NextProposals ==
  TypeOK /\ WriteInv /\ KeysInv /\ ProposalsInv /\ [Next]_vars => ProposalsInv'
<1> SUFFICES ASSUME TypeOK, WriteInv, KeysInv, ProposalsInv, [Next]_vars PROVE ProposalsInv'
  OBVIOUS
<1> USE DEF TypeOK
\* While the table stays, only the worker that moves is in question.
<1>1. ASSUME NEW w \in Workers, UNCHANGED proposals, OthersWait(w),
             pc'[w] \in HasProposal /\ Kind[cmd'[w]] = "approve" =>
               proposals[ProposalOf[cmd'[w]]].status # "NONE"
      PROVE  ProposalsInv'
  BY <1>1 DEF ProposalsInv, OthersWait
<1>2. ASSUME NEW w \in Workers, EndTransaction(w) PROVE OthersWait(w) /\ pc'[w] \notin HasProposal
  BY <1>2 DEF EndTransaction, OthersWait, HasProposal
<1>3. ASSUME NEW w \in Workers, NEW c \in Commands, Begin(w, c) PROVE ProposalsInv'
  <2>1. /\ pc'[w] = FirstStatement(c) /\ cmd'[w] = c /\ UNCHANGED proposals
        /\ OthersWait(w)
    BY <1>3 DEF Begin, Goto, OthersWait, tables
  <2>2. FirstStatement(c) \in HasProposal => Kind[c] = "backfill"
    BY DEF FirstStatement, HasProposal
  <2> QED BY <1>1, <2>1, <2>2
<1>4. ASSUME NEW w \in Workers, RollBack(w) PROVE ProposalsInv'
  BY <1>1, <1>2, <1>4 DEF RollBack, tables
<1>5. ASSUME NEW w \in Workers, CheckProcessed(w), ~RollBack(w) PROVE ProposalsInv'
  <2> DEFINE c == cmd[w]
  <2>1. /\ c \in Commands /\ pc'[w] = AfterCheck(c) /\ cmd'[w] = c /\ UNCHANGED proposals
        /\ OthersWait(w)
    BY <1>5 DEF CheckProcessed, Goto, OthersWait, tables
  <2>2. AfterCheck(c) \in HasProposal => Kind[c] # "approve"
    BY <2>1 DEF AfterCheck, HasProposal
  <2> QED BY <1>1, <2>1, <2>2
<1>6. ASSUME NEW w \in Workers, LoadProposal(w), ~RollBack(w) PROVE ProposalsInv'
  <2>1. /\ cmd'[w] = cmd[w] /\ UNCHANGED proposals /\ OthersWait(w)
        /\ proposals[ProposalOf[cmd[w]]].status = "PROPOSED"
    BY <1>6 DEF LoadProposal, Goto, OthersWait, tables
  <2> QED BY <1>1, <2>1
\* A statement of a worker that had its proposal already.
<1>7. ASSUME NEW w \in Workers, UNCHANGED <<proposals, cmd>>, OthersWait(w),
             pc[w] \in HasProposal \/ Kind[cmd[w]] # "approve"
      PROVE  ProposalsInv'
  <2>1. pc[w] \in HasProposal /\ Kind[cmd[w]] = "approve" =>
          proposals[ProposalOf[cmd[w]]].status # "NONE"
    BY DEF ProposalsInv
  <2> QED BY <1>1, <1>7, <2>1
<1>8. ASSUME NEW w \in Workers, LoadMatch(w), ~RollBack(w) PROVE ProposalsInv'
  BY <1>7, <1>8 DEF LoadMatch, Goto, OthersWait, tables, HasProposal
<1>9. ASSUME NEW w \in Workers, SaveProposal(w) PROVE ProposalsInv'
  BY <1>7, <1>9 DEF SaveProposal, Goto, Write, OthersWait, tables, HasProposal
<1>10. ASSUME NEW w \in Workers, SaveMatch(w), ~RollBack(w) PROVE ProposalsInv'
  BY <1>7, <1>10 DEF SaveMatch, Goto, Write, OthersWait, tables, HasProposal
<1>11. ASSUME NEW w \in Workers, SaveStats(w) PROVE ProposalsInv'
  BY <1>7, <1>11 DEF SaveStats, Goto, Write, OthersWait, tables, HasProposal
<1>12. ASSUME NEW w \in Workers, InsertRow(w) PROVE ProposalsInv'
  <2>1. /\ UNCHANGED <<proposals, cmd>> /\ OthersWait(w) /\ pc[w] = "insertRow"
    BY <1>12 DEF InsertRow, Goto, Write, OthersWait, tables
  <2>2. Kind[cmd[w]] # "approve"
    BY <2>1 DEF KeysInv, KeysOf
  <2> QED BY <1>7, <2>1, <2>2
<1>13. ASSUME NEW w \in Workers, MarkProcessed(w) PROVE ProposalsInv'
  BY <1>7, <1>13 DEF MarkProcessed, Goto, Write, OthersWait, tables, HasProposal
<1>14. ASSUME NEW w \in Workers, Commit(w) PROVE ProposalsInv'
  <2>1. /\ \A p \in SavedProposals(cmd[w]) :
             p \in Commands /\ Kind[p] = "propose" /\ proposals'[p].status # "NONE"
        /\ \A p \in Commands : p \notin SavedProposals(cmd[w]) => proposals'[p] = proposals[p]
    BY <1>14, CommitProposals
  <2>2. OthersWait(w) /\ pc'[w] \notin HasProposal
    BY <1>2, <1>14 DEF Commit
  <2>3. \A v \in Workers : pc'[v] \in HasProposal => ProposalOf[cmd[v]] \in Commands /\ v # w
    BY <2>2, KindType DEF HasProposal, OthersWait
  <2> QED BY <2>1, <2>2, <2>3 DEF ProposalsInv, OthersWait
<1>15. CASE UNCHANGED vars
  BY <1>15 DEF vars, ProposalsInv
<1> QED
  BY <1>3, <1>4, <1>5, <1>6, <1>8, <1>9, <1>10, <1>11, <1>12, <1>13, <1>14, <1>15
  DEF Next, Step, Abort

\* All the facts about workers that the theorems below rest on.
WorkerInv == TypeOK /\ WriteInv /\ KeysInv /\ ProposalsInv /\ AttemptsInv

\* They hold in every state.
LEMMA WorkerInvariant == Spec => []WorkerInv
<1>1. Init => WorkerInv
  BY InitTypeOK, InitWriteInv, InitKeysInv, InitProposals, InitAttempts DEF WorkerInv
<1>2. WorkerInv /\ [Next]_vars => WorkerInv'
  BY NextTypeOK, NextWriteInv, NextKeysInv, NextProposals, NextAttempts DEF WorkerInv
<1> QED BY <1>1, <1>2, PTL DEF Spec

----------------------------------------------------------------------------
(***************************************************************************)
(* The events of a handler.                                                *)
(***************************************************************************)
\* The fresh events of a running attempt are not in the outbox yet.
LEMMA FreshIsNew ==
  ASSUME WorkerInv, NEW w \in Workers, Commit(w), NEW row,
         NEW e \in EventsOf(cmd[w], try[w], row), e.id.tag # "own"
  PROVE  \A o \in outbox : o.id # e.id
<1>1. cmd[w] \in Commands
  BY CommitWrites DEF WorkerInv
<1>2. e.id.by = cmd[w] /\ e.id.attempt = try[w]
  BY <1>1, EventIdsOfAttempt
<1> QED BY <1>2 DEF WorkerInv, AttemptsInv

\* A handler that saves a match returns one change event, about that match and
\* with a fresh id; any other returns none.
LEMMA ChangeEventOf ==
  ASSUME NEW c \in Commands, NEW n, NEW row
  PROVE  /\ Saves(c, row) =>
              \E e \in EventsOf(c, n, row) :
                /\ e.of = TargetOf(c) /\ e.type \in ChangeTypes /\ e.id.tag # "own"
                /\ \A o \in EventsOf(c, n, row) : o.type \in ChangeTypes => o = e
         /\ ~Saves(c, row) => \A o \in EventsOf(c, n, row) : o.type \notin ChangeTypes
<1> DEFINE m == TargetOf(c)
<1>1. /\ \A type : Fresh(c, n, type, m).type = type /\ Fresh(c, n, type, m).of = m
      /\ \A type : Fresh(c, n, type, m).id.tag = type
      /\ \A p, type : Own(p, type, m).type = type
  BY DEF Fresh, Own
<1>2. Kind[c] \in Kinds
  BY KindType
<1>3. CASE Kind[c] \in {"upsert", "stats"}
  <2>1. EventsOf(c, n, row) = {Fresh(c, n, "MatchUpserted", m)}
    BY <1>3 DEF EventsOf
  <2> QED BY <1>1, <1>3, <2>1 DEF Saves, ChangeTypes
<1>4. CASE Kind[c] = "finalize" /\ CanFinalize(row, c)
  <2>1. EventsOf(c, n, row) =
          {Fresh(c, n, "MatchValidationStarted", m), Fresh(c, n, "MatchValidated", m),
           Fresh(c, n, "MatchFinalized", m)}
    BY <1>4 DEF EventsOf
  <2>2. Fresh(c, n, "MatchFinalized", m) \in EventsOf(c, n, row)
    BY <2>1
  <2> QED BY <1>1, <1>4, <2>1, <2>2 DEF Saves, ChangeTypes
<1>5. CASE Kind[c] = "finalize" /\ ~CanFinalize(row, c)
  <2>1. EventsOf(c, n, row) =
          {Fresh(c, n, "MatchValidationStarted", m), Fresh(c, n, "ValidationFailed", m)}
    BY <1>5 DEF EventsOf
  <2> QED BY <1>1, <1>5, <2>1 DEF Saves, ChangeTypes
<1>6. CASE Kind[c] = "approve"
  <2>1. EventsOf(c, n, row) = {Fresh(c, n, "MatchUpdatedByCorrection", m),
                               Own(ProposalOf[c], "CorrectionApproved", m)}
    BY <1>6 DEF EventsOf
  <2>2. Fresh(c, n, "MatchUpdatedByCorrection", m) \in EventsOf(c, n, row)
    BY <2>1
  <2> QED BY <1>1, <1>6, <2>1, <2>2 DEF Saves, ChangeTypes
<1>7. CASE Kind[c] \in {"propose", "derive", "publish", "backfill"}
  <2>1. \A e \in EventsOf(c, n, row) :
          e.type \in {"CorrectionProposed", "DerivedRowGenerated", "PublicationCreated",
                      "SeasonBackfillStarted", "SeasonBackfillCompleted"}
    BY <1>1, <1>7 DEF EventsOf
  <2> QED BY <1>7, <2>1 DEF Saves, ChangeTypes
<1> QED BY <1>2, <1>3, <1>4, <1>5, <1>6, <1>7 DEF Kinds

\* Who an event is by: the command, or the proposal it approves.
LEMMA EventsBy ==
  ASSUME NEW c \in Commands, NEW n, NEW row, NEW e \in EventsOf(c, n, row)
  PROVE  e.id.by = c \/ (Kind[c] = "approve" /\ e.id.by = ProposalOf[c])
<1> DEFINE m == TargetOf(c)
<1>1. Kind[c] \in Kinds
  BY KindType
<1>2. CASE Kind[c] = "approve"
  <2>1. \/ e = Fresh(c, n, "MatchUpdatedByCorrection", m)
        \/ e = Own(ProposalOf[c], "CorrectionApproved", m)
    BY <1>2 DEF EventsOf
  <2>2. e.id.by = c \/ e.id.by = ProposalOf[c]
    BY <2>1 DEF Fresh, Own
  <2> QED BY <1>2, <2>2
<1>3. CASE Kind[c] # "approve"
  <2>1. \/ e = Own(c, "CorrectionProposed", m)
        \/ e = Own(c, "PublicationCreated", m)
        \/ \E type \in EventTypes : e = Fresh(c, n, type, m)
    BY <1>1, <1>3 DEF EventsOf, EventTypes, Kinds
  <2>2. CASE e = Own(c, "CorrectionProposed", m) \/ e = Own(c, "PublicationCreated", m)
    BY <2>2 DEF Own
  <2>3. CASE \E type \in EventTypes : e = Fresh(c, n, type, m)
    BY <2>3 DEF Fresh
  <2> QED BY <2>1, <2>2, <2>3
<1> QED BY <1>2, <1>3

\* Every handler returns an event of its own.
LEMMA SomeEvent ==
  ASSUME NEW c \in Commands, NEW n, NEW row
  PROVE  \E e \in EventsOf(c, n, row) : e.id.by = c
<1>1. /\ \A type, m : Own(c, type, m).id.by = c
      /\ \A type, m : Fresh(c, n, type, m).id.by = c
  BY DEF Own, Fresh
<1>2. Kind[c] \in Kinds
  BY KindType
<1>3. \/ \E type : Fresh(c, n, type, TargetOf(c)) \in EventsOf(c, n, row)
      \/ \E type : Own(c, type, TargetOf(c)) \in EventsOf(c, n, row)
  BY <1>2 DEF EventsOf, Kinds
<1> QED BY <1>1, <1>3

----------------------------------------------------------------------------
(***************************************************************************)
(* An idempotency record comes with an effect.                             *)
(***************************************************************************)
\* A retry that is answered from the idempotency table never hides a command
\* that left no event.
THEOREM ProcessedMeansDone == Spec => []ProcessedHasEffect
<1>1. Init => ProcessedHasEffect
  BY DEF Init, ProcessedHasEffect
<1>2. WorkerInv /\ ProcessedHasEffect /\ [Next]_vars => ProcessedHasEffect'
  <2> SUFFICES ASSUME WorkerInv, ProcessedHasEffect, [Next]_vars PROVE ProcessedHasEffect'
    OBVIOUS
  <2>1. ASSUME NEW w \in Workers, Commit(w) PROVE ProcessedHasEffect'
    <3>1. /\ cmd[w] \in Commands
          /\ processed' \in {processed, processed \cup {cmd[w]}}
          /\ outbox' = Appended(outbox, EventsOf(cmd[w], try[w], base[w]))
      BY <2>1, CommitWrites DEF WorkerInv
    <3>2. PICK e \in EventsOf(cmd[w], try[w], base[w]) : e.id.by = cmd[w]
      BY <3>1, SomeEvent
    <3>3. \E o \in outbox' : o.id = e.id
      BY <3>1, AppendedEvents
    <3>4. outbox \subseteq outbox'
      BY <3>1, AppendedEvents
    <3> QED BY <3>1, <3>2, <3>3, <3>4 DEF ProcessedHasEffect
  <2>2. CASE UNCHANGED tables
    BY <2>2 DEF ProcessedHasEffect, tables
  <2> QED BY <2>1, <2>2, OnlyCommitWrites
<1> QED BY <1>1, <1>2, WorkerInvariant, PTL DEF Spec

----------------------------------------------------------------------------
(***************************************************************************)
(* An approved proposal was applied.                                       *)
(***************************************************************************)
\* A history never loses an entry, and an approval adds one.
LEMMA AfterHistory ==
  ASSUME NEW c \in Commands, NEW row \in MatchRows, NEW i \in 1..Len(row.history)
  PROVE  /\ i \in 1..Len(After(row, c).history)
         /\ After(row, c).history[i] = row.history[i]
<1>1. CASE Kind[c] = "approve"
  <2> DEFINE entry == [correction |-> ProposalOf[c], previous |-> row.version,
                       new |-> row.version + 1]
  <2>1. After(row, c).history = Append(row.history, entry)
    BY <1>1 DEF After, Corrected, MatchRows
  <2> HIDE DEF entry
  <2>2. row.history \in Seq(Corrections)
    BY DEF MatchRows
  <2> QED BY <2>1, <2>2
<1>2. CASE Kind[c] # "approve"
  <2>1. After(row, c).history = row.history
    BY <1>2 DEF After, Upserted, StatsRecorded, Finalized, MatchRows
  <2> QED BY <2>1
<1> QED BY <1>1, <1>2

\* What an approval adds names its proposal and the version it reaches.
LEMMA CorrectedHistory ==
  ASSUME NEW c \in Commands, NEW row \in MatchRows, Kind[c] = "approve"
  PROVE  \E i \in 1..Len(After(row, c).history) :
           /\ After(row, c).history[i].correction = ProposalOf[c]
           /\ After(row, c).history[i].new = row.version + 1
<1> DEFINE entry == [correction |-> ProposalOf[c], previous |-> row.version,
                     new |-> row.version + 1]
<1>1. After(row, c).history = Append(row.history, entry)
  BY DEF After, Corrected, MatchRows
<1>2. entry.correction = ProposalOf[c] /\ entry.new = row.version + 1
  OBVIOUS
<1> HIDE DEF entry
<1>3. row.history \in Seq(Corrections) /\ Len(row.history) \in Nat
  BY DEF MatchRows
<1>4. /\ Len(row.history) + 1 \in 1..Len(After(row, c).history)
      /\ After(row, c).history[Len(row.history) + 1] = entry
  BY <1>1, <1>3
<1> QED BY <1>2, <1>4

\* Both rows of an approval survive, or neither: the proposal is APPROVED only
\* when the match has the correction, at the version the proposal records.
THEOREM ApprovalIsApplied == Spec => []ApprovedIsApplied
<1>1. Init => ApprovedIsApplied
  BY DEF Init, ApprovedIsApplied, NoProposal
<1>2. WorkerInv /\ ApprovedIsApplied /\ [Next]_vars => ApprovedIsApplied'
  <2> SUFFICES ASSUME WorkerInv, ApprovedIsApplied, [Next]_vars PROVE ApprovedIsApplied'
    OBVIOUS
  <2>1. ASSUME NEW w \in Workers, Commit(w) PROVE ApprovedIsApplied'
    <3> DEFINE c == cmd[w]
               m == TargetOf(c)
    <3>1. /\ c \in Commands /\ m \in Matches /\ matches \in [Matches -> MatchRows]
          /\ Saves(c, base[w]) => matches' = [matches EXCEPT ![m] = After(matches[m], c)]
          /\ ~Saves(c, base[w]) => matches' = matches
          /\ proposals' = [p \in Commands |->
               IF p \notin SavedProposals(c) THEN proposals[p]
               ELSE IF Kind[c] = "propose" THEN Proposed
               ELSE ApprovedAt(matches[m].version + 1)]
      BY <2>1, CommitWrites DEF WorkerInv, TypeOK
    <3> HIDE DEF c, m
    <3>2. ASSUME NEW n \in Matches, NEW i \in 1..Len(matches[n].history)
          PROVE  /\ i \in 1..Len(matches'[n].history)
                 /\ matches'[n].history[i] = matches[n].history[i]
      <4>1. matches'[n] = matches[n] \/ matches'[n] = After(matches[n], c)
        BY <3>1
      <4> QED BY <3>1, <4>1, AfterHistory
    <3> SUFFICES ASSUME NEW p \in Commands, proposals'[p].status = "APPROVED"
                 PROVE  \E i \in 1..Len(matches'[MatchOf[p]].history) :
                          /\ matches'[MatchOf[p]].history[i].correction = p
                          /\ matches'[MatchOf[p]].history[i].new = proposals'[p].new
      BY DEF ApprovedIsApplied
    <3>3. MatchOf[p] \in Matches
      BY KindType
    <3>4. CASE p \notin SavedProposals(c)
      <4>1. proposals'[p] = proposals[p]
        BY <3>1, <3>4
      <4>2. PICK i \in 1..Len(matches[MatchOf[p]].history) :
              /\ matches[MatchOf[p]].history[i].correction = p
              /\ matches[MatchOf[p]].history[i].new = proposals[p].new
        BY <4>1 DEF ApprovedIsApplied
      <4> QED BY <3>2, <3>3, <4>1, <4>2
    <3>5. CASE p \in SavedProposals(c)
      <4>1. Kind[c] = "approve" /\ p = ProposalOf[c]
        <5>1. Proposed.status = "PROPOSED"
          BY DEF Proposed
        <5> QED BY <3>1, <3>5, <5>1 DEF SavedProposals
      <4>2. proposals'[p] = ApprovedAt(matches[m].version + 1)
        BY <3>1, <3>5, <4>1
      <4>3. m = MatchOf[p] /\ matches'[m] = After(matches[m], c)
        BY <3>1, <4>1 DEF m, TargetOf, Saves
      <4>4. proposals'[p].new = matches[m].version + 1
        BY <4>2 DEF ApprovedAt
      <4>5. PICK i \in 1..Len(After(matches[m], c).history) :
              /\ After(matches[m], c).history[i].correction = ProposalOf[c]
              /\ After(matches[m], c).history[i].new = matches[m].version + 1
        BY <3>1, <4>1, CorrectedHistory
      <4> QED BY <4>1, <4>3, <4>4, <4>5
    <3> QED BY <3>4, <3>5
  <2>2. CASE UNCHANGED tables
    BY <2>2 DEF ApprovedIsApplied, tables
  <2> QED BY <2>1, <2>2, OnlyCommitWrites
<1> QED BY <1>1, <1>2, WorkerInvariant, PTL DEF Spec

----------------------------------------------------------------------------
(***************************************************************************)
(* State and outbox agree.                                                 *)
(***************************************************************************)
\* An event under the id of a proposal is the event of its proposing: approvals
\* take the same id later, and the outbox ignores the second event.
OwnEventsInv ==
  \A e \in outbox :
    e.id.tag = "own" /\ Kind[e.id.by] = "propose" =>
      e = Own(e.id.by, "CorrectionProposed", MatchOf[e.id.by])

EventsInv == IsFiniteSet(outbox) /\ OwnEventsInv /\ StateAndOutboxAgree

\* The change events of match m, and the events by c, among some events.
ChangesOf(events, m) == {e \in events : e.of = m /\ e.type \in ChangeTypes}
BornOf(events, c)    == {e \in events : e.id.by = c}

\* There are no events in the beginning.
LEMMA InitEvents == Init => EventsInv
<1> SUFFICES ASSUME Init PROVE EventsInv
  OBVIOUS
<1>1. outbox = {} /\ IsFiniteSet({}) /\ Cardinality({}) = 0
  BY FS_EmptySet DEF Init
<1>3. VersionsHaveEvents
  <2> SUFFICES ASSUME NEW m \in Matches
               PROVE  Cardinality({e \in outbox : e.of = m /\ e.type \in ChangeTypes})
                        = matches[m].version
    BY DEF VersionsHaveEvents
  <2>1. {e \in outbox : e.of = m /\ e.type \in ChangeTypes} = {}
    BY <1>1
  <2>2. matches[m].version = 0
    BY DEF Init, NoRow
  <2> QED BY <1>1, <2>1, <2>2
<1>4. RowsHaveEvents
  <2> SUFFICES ASSUME NEW c \in Commands
               PROVE  Cardinality({e \in outbox : e.id.by = c}) = derived[c]
    BY DEF RowsHaveEvents
  <2>1. {e \in outbox : e.id.by = c} = {}
    BY <1>1
  <2>2. derived[c] = 0
    BY DEF Init
  <2> QED BY <1>1, <2>1, <2>2
<1>5. ProposalsHaveEvents
  BY <1>1 DEF Init, ProposalsHaveEvents, NoProposal
<1>6. OwnEventsInv
  BY <1>1 DEF OwnEventsInv
<1> QED BY <1>1, <1>3, <1>4, <1>5, <1>6 DEF EventsInv, StateAndOutboxAgree

\* A handler returns finitely many events.
LEMMA EventsFinite ==
  ASSUME NEW c \in Commands, NEW n, NEW row
  PROVE  IsFiniteSet(EventsOf(c, n, row))
<1>1. \A x, y, z : IsFiniteSet({x, y, z})
  <2> TAKE x, y, z
  <2>1. IsFiniteSet({x} \cup {y})
    BY FS_Singleton, FS_AddElement
  <2>2. IsFiniteSet(({x} \cup {y}) \cup {z})
    BY <2>1, FS_AddElement
  <2>3. ({x} \cup {y}) \cup {z} = {x, y, z}
    OBVIOUS
  <2> QED BY <2>2, <2>3
<1>2. Kind[c] \in Kinds
  BY KindType
<1>3. \E x, y, z : EventsOf(c, n, row) = {x, y, z}
  <2>1. \A x : {x} = {x, x, x}
    OBVIOUS
  <2>2. \A x, y : {x, y} = {x, y, y}
    OBVIOUS
  <2> DEFINE F(type) == Fresh(c, n, type, TargetOf(c))
  <2>3. CASE Kind[c] \in {"upsert", "stats", "propose", "derive", "publish"}
    <3>1. \E x : EventsOf(c, n, row) = {x}
      BY <2>3 DEF EventsOf
    <3> QED BY <2>1, <3>1
  <2>4. CASE Kind[c] \in {"approve", "backfill"}
    <3>1. \E x, y : EventsOf(c, n, row) = {x, y}
      BY <2>4 DEF EventsOf
    <3> QED BY <2>2, <3>1
  <2>5. CASE Kind[c] = "finalize"
    <3>1. CASE CanFinalize(row, c)
      <4>1. EventsOf(c, n, row) =
              {F("MatchValidationStarted"), F("MatchValidated"), F("MatchFinalized")}
        BY <2>5, <3>1 DEF EventsOf
      <4> QED BY <4>1
    <3>2. CASE ~CanFinalize(row, c)
      <4>1. EventsOf(c, n, row) = {F("MatchValidationStarted"), F("ValidationFailed")}
        BY <2>5, <3>2 DEF EventsOf
      <4> QED BY <2>2, <4>1
    <3> QED BY <3>1, <3>2
  <2> QED BY <1>2, <2>3, <2>4, <2>5 DEF Kinds
<1>4. PICK x, y, z : EventsOf(c, n, row) = {x, y, z}
  BY <1>3
<1>5. IsFiniteSet({x, y, z})
  BY <1>1
<1> QED BY <1>4, <1>5

\* A commit advances the version of a match with one more change event.
LEMMA CommitVersions ==
  ASSUME WorkerInv, EventsInv, NEW w \in Workers, Commit(w)
  PROVE  VersionsHaveEvents'
<1> DEFINE c == cmd[w]
           m == TargetOf(c)
           new == EventsOf(c, try[w], base[w])
<1>1. /\ c \in Commands /\ m \in Matches /\ matches \in [Matches -> MatchRows]
      /\ Saves(c, base[w]) =>
           /\ Accepts(c, matches[m])
           /\ matches' = [matches EXCEPT ![m] = After(matches[m], c)]
      /\ ~Saves(c, base[w]) => matches' = matches
      /\ outbox' = Appended(outbox, new)
  BY CommitWrites DEF WorkerInv, TypeOK
<1>2. /\ outbox \subseteq outbox'
      /\ \A e \in outbox' : e \in outbox \/ e \in new
      /\ \A e \in new : (\A o \in outbox : o.id # e.id) => e \in outbox'
  BY <1>1, AppendedEvents
<1> SUFFICES ASSUME NEW n \in Matches
             PROVE  Cardinality(ChangesOf(outbox', n)) = matches'[n].version
  BY DEF VersionsHaveEvents, ChangesOf
<1>3. IsFiniteSet(ChangesOf(outbox, n)) /\ Cardinality(ChangesOf(outbox, n)) = matches[n].version
  <2>1. ChangesOf(outbox, n) \subseteq outbox
    BY DEF ChangesOf
  <2>2. IsFiniteSet(ChangesOf(outbox, n))
    BY <2>1, FS_Subset DEF EventsInv
  <2> QED BY <2>2 DEF EventsInv, StateAndOutboxAgree, VersionsHaveEvents, ChangesOf
<1>4. CASE ~Saves(c, base[w])
  <2>1. \A e \in new : e.type \notin ChangeTypes
    BY <1>1, <1>4, ChangeEventOf
  <2>2. ChangesOf(outbox', n) = ChangesOf(outbox, n)
    BY <1>2, <2>1 DEF ChangesOf
  <2> QED BY <1>1, <1>3, <1>4, <2>2
<1>5. CASE Saves(c, base[w])
  <2>1. PICK e \in new :
          /\ e.of = m /\ e.type \in ChangeTypes /\ e.id.tag # "own"
          /\ \A o \in new : o.type \in ChangeTypes => o = e
    BY <1>1, <1>5, ChangeEventOf
  <2>2. \A o \in outbox : o.id # e.id
    BY <2>1, FreshIsNew
  <2>3. e \in outbox' /\ e \notin outbox
    BY <1>2, <2>2
  <2>4. CASE n = m
    <3>1. ChangesOf(outbox', n) = ChangesOf(outbox, n) \cup {e} /\ e \notin ChangesOf(outbox, n)
      BY <1>2, <2>1, <2>3, <2>4 DEF ChangesOf
    <3>2. Cardinality(ChangesOf(outbox', n)) = Cardinality(ChangesOf(outbox, n)) + 1
      BY <1>3, <3>1, FS_AddElement
    <3>3. matches'[n].version = matches[n].version + 1
      BY <1>1, <1>5, <2>4, AfterVersion DEF Accepts
    <3> QED BY <1>3, <3>2, <3>3
  <2>5. CASE n # m
    <3>1. ChangesOf(outbox', n) = ChangesOf(outbox, n)
      BY <1>2, <2>1, <2>5 DEF ChangesOf
    <3> QED BY <1>1, <1>3, <1>5, <2>5, <3>1
  <2> QED BY <2>4, <2>5
<1> QED BY <1>4, <1>5

\* A commit adds a derived row with one more event.
LEMMA CommitRows ==
  ASSUME WorkerInv, EventsInv, NEW w \in Workers, Commit(w)
  PROVE  RowsHaveEvents'
<1> DEFINE c == cmd[w]
           new == EventsOf(c, try[w], base[w])
<1>1. c \in Commands /\ pc[w] = "commit" /\ outbox' = Appended(outbox, new)
  BY CommitWrites DEF WorkerInv
<1>2. /\ outbox \subseteq outbox'
      /\ \A e \in outbox' : e \in outbox \/ e \in new
      /\ \A e \in new : (\A o \in outbox : o.id # e.id) => e \in outbox'
  BY <1>1, AppendedEvents
<1> SUFFICES ASSUME NEW d \in Commands, Kind[d] = "derive"
             PROVE  Cardinality(BornOf(outbox', d)) = derived'[d]
  BY DEF RowsHaveEvents, BornOf
<1>3. IsFiniteSet(BornOf(outbox, d)) /\ Cardinality(BornOf(outbox, d)) = derived[d]
  <2>1. BornOf(outbox, d) \subseteq outbox
    BY DEF BornOf
  <2>2. IsFiniteSet(BornOf(outbox, d))
    BY <2>1, FS_Subset DEF EventsInv
  <2> QED BY <2>2 DEF EventsInv, StateAndOutboxAgree, RowsHaveEvents, BornOf
<1>4. derived \in [Commands -> Nat]
  BY DEF WorkerInv, TypeOK
<1>5. CASE d = c
  <2> DEFINE e == Fresh(c, try[w], "DerivedRowGenerated", TargetOf(c))
  <2>1. new = {e}
    BY <1>5 DEF EventsOf
  <2>2. e.id.by = c /\ e.id.tag # "own"
    BY DEF Fresh
  <2> HIDE DEF e
  <2>3. \A o \in outbox : o.id # e.id
    BY <2>1, <2>2, FreshIsNew
  <2>4. BornOf(outbox', d) = BornOf(outbox, d) \cup {e} /\ e \notin BornOf(outbox, d)
    BY <1>2, <1>5, <2>1, <2>2, <2>3 DEF BornOf
  <2>5. Cardinality(BornOf(outbox', d)) = Cardinality(BornOf(outbox, d)) + 1
    BY <1>3, <2>4, FS_AddElement
  <2>6. derived'[d] = derived[d] + 1
    <3>1. derived' = [derived EXCEPT ![c] = @ + 1]
      BY <1>5 DEF Commit
    <3> QED BY <1>1, <1>4, <1>5, <3>1
  <2> QED BY <1>3, <2>5, <2>6
<1>6. CASE d # c
  <2>1. \A e \in new : e.id.by # d
    <3> SUFFICES ASSUME NEW e \in new, e.id.by = d PROVE FALSE
      OBVIOUS
    <3>1. Kind[c] = "approve" /\ d = ProposalOf[c]
      BY <1>1, <1>6, EventsBy
    <3>2. Kind[d] = "propose"
      BY <1>1, <3>1 DEF WorkerInv, ProposalsInv, HasProposal
    <3> QED BY <3>2
  <2>2. BornOf(outbox', d) = BornOf(outbox, d)
    BY <1>2, <2>1 DEF BornOf
  <2>3. derived'[d] = derived[d]
    <3>1. \/ derived' = [derived EXCEPT ![c] = @ + 1]
          \/ derived' = [derived EXCEPT ![c] = 1]
          \/ derived' = derived
      BY DEF Commit
    <3> QED BY <1>4, <1>6, <3>1
  <2> QED BY <1>3, <2>2, <2>3
<1> QED BY <1>5, <1>6

\* A commit of a proposal adds its CorrectionProposed event, and one of an
\* approval adds no event under the id of the proposal.
LEMMA CommitProposalEvents ==
  ASSUME WorkerInv, EventsInv, NEW w \in Workers, Commit(w)
  PROVE  OwnEventsInv' /\ ProposalsHaveEvents'
<1> DEFINE c == cmd[w]
           new == EventsOf(c, try[w], base[w])
<1>1. c \in Commands /\ pc[w] = "commit" /\ outbox' = Appended(outbox, new)
  BY CommitWrites DEF WorkerInv
<1>2. /\ \A p \in SavedProposals(c) :
           p \in Commands /\ Kind[p] = "propose" /\ proposals'[p].status # "NONE"
      /\ \A p \in Commands : p \notin SavedProposals(c) => proposals'[p] = proposals[p]
  BY CommitProposals DEF WorkerInv
<1>3. /\ outbox \subseteq outbox'
      /\ \A e \in outbox' : e \in outbox \/ (e \in new /\ \A o \in outbox : o.id # e.id)
      /\ \A e \in new : (\A o \in outbox : o.id # e.id) => e \in outbox'
  BY <1>1 DEF Appended
<1>4. Kind[c] \in Kinds
  BY <1>1, KindType
\* An approval finds the event of its proposal.
<1>5. ASSUME NEW p, Kind[c] = "approve", p = ProposalOf[c]
      PROVE  /\ proposals[p].status # "NONE" /\ p \in Commands /\ Kind[p] = "propose"
             /\ Own(p, "CorrectionProposed", MatchOf[p]) \in outbox
  <2>1. p \in Commands /\ proposals[p].status # "NONE"
    BY <1>1, <1>5, KindType DEF WorkerInv, ProposalsInv, HasProposal
  <2> QED BY <2>1 DEF WorkerInv, ProposalsInv, EventsInv, StateAndOutboxAgree, ProposalsHaveEvents
\* So the only new event under an own id is that of a proposal or a publication.
<1>6. ASSUME NEW e \in outbox', e \notin outbox, e.id.tag = "own"
      PROVE  \/ Kind[c] = "propose" /\ e = Own(c, "CorrectionProposed", MatchOf[c])
             \/ Kind[c] = "publish" /\ e = Own(c, "PublicationCreated", TargetOf(c))
  <2>1. e \in new /\ \A o \in outbox : o.id # e.id
    BY <1>3, <1>6
  <2>2. \A type \in EventTypes : Fresh(c, try[w], type, TargetOf(c)).id.tag # "own"
    BY DEF Fresh, EventTypes
  <2>3. CASE Kind[c] = "approve"
    <3> DEFINE p == ProposalOf[c]
    <3>1. \/ e = Fresh(c, try[w], "MatchUpdatedByCorrection", TargetOf(c))
          \/ e = Own(p, "CorrectionApproved", TargetOf(c))
      BY <2>1, <2>3 DEF EventsOf
    <3>2. e = Own(p, "CorrectionApproved", TargetOf(c))
      BY <1>6, <2>2, <3>1 DEF EventTypes
    <3>3. e.id = Own(p, "CorrectionProposed", MatchOf[p]).id
      BY <3>2 DEF Own
    <3> QED BY <1>5, <2>1, <2>3, <3>3
  <2>4. CASE Kind[c] = "propose"
    <3>1. e = Own(c, "CorrectionProposed", TargetOf(c))
      BY <2>1, <2>4 DEF EventsOf
    <3> QED BY <2>4, <3>1 DEF TargetOf
  <2>5. CASE Kind[c] = "publish"
    BY <2>1, <2>5 DEF EventsOf
  <2>6. CASE Kind[c] \in {"upsert", "stats", "finalize", "derive", "backfill"}
    <3>1. \E type \in EventTypes : e = Fresh(c, try[w], type, TargetOf(c))
      BY <2>1, <2>6 DEF EventsOf, EventTypes
    <3> QED BY <1>6, <2>2, <3>1
  <2> QED BY <1>4, <2>3, <2>4, <2>5, <2>6 DEF Kinds
<1>7. \A p, q, t, u, m, n : Own(p, t, m) = Own(q, u, n) => p = q /\ t = u
  BY DEF Own
<1>8. \A p, t, m : Own(p, t, m).id.by = p /\ Own(p, t, m).id.tag = "own"
  BY DEF Own
<1>9. OwnEventsInv'
  <2> SUFFICES ASSUME NEW e \in outbox', e.id.tag = "own", Kind[e.id.by] = "propose"
               PROVE  e = Own(e.id.by, "CorrectionProposed", MatchOf[e.id.by])
    BY DEF OwnEventsInv
  <2>1. CASE e \in outbox
    BY <2>1 DEF EventsInv, OwnEventsInv
  <2>2. CASE e \notin outbox
    BY <1>6, <1>8, <2>2
  <2> QED BY <2>1, <2>2
<1>10. ProposalsHaveEvents'
  <2> SUFFICES ASSUME NEW p \in Commands
               PROVE  proposals'[p].status # "NONE"
                        <=> Own(p, "CorrectionProposed", MatchOf[p]) \in outbox'
    BY DEF ProposalsHaveEvents
  <2> DEFINE e == Own(p, "CorrectionProposed", MatchOf[p])
  <2>1. proposals[p].status # "NONE" <=> e \in outbox
    BY DEF EventsInv, StateAndOutboxAgree, ProposalsHaveEvents
  <2>2. CASE Kind[c] = "propose" /\ p = c
    <3>1. proposals'[p].status # "NONE"
      BY <1>2, <2>2 DEF SavedProposals
    <3>2. e \in new
      BY <2>2 DEF EventsOf, TargetOf
    <3>3. \A o \in outbox : o.id = e.id => o = e
      <4>1. e.id.tag = "own" /\ e.id.by = p
        BY <1>8
      <4> QED BY <2>2, <4>1 DEF EventsInv, OwnEventsInv
    <3>4. e \in outbox'
      BY <1>3, <3>2, <3>3
    <3> QED BY <3>1, <3>4
  <2>3. CASE ~(Kind[c] = "propose" /\ p = c)
    <3>1. e \in outbox' => e \in outbox
      <4>1. e.id.tag = "own" /\ e # Own(c, "PublicationCreated", TargetOf(c))
        BY <1>7, <1>8
      <4>2. Kind[c] = "propose" => e # Own(c, "CorrectionProposed", MatchOf[c])
        BY <1>7, <2>3
      <4> QED BY <1>6, <4>1, <4>2
    <3>2. proposals'[p].status # "NONE" <=> proposals[p].status # "NONE"
      <4>1. CASE p \notin SavedProposals(c)
        BY <1>2, <4>1
      <4>2. CASE p \in SavedProposals(c)
        BY <1>2, <1>5, <2>3, <4>2 DEF SavedProposals
      <4> QED BY <4>1, <4>2
    <3> QED BY <1>3, <2>1, <3>1, <3>2
  <2> QED BY <2>2, <2>3
<1> QED BY <1>9, <1>10

\* Every step keeps state and outbox together.
LEMMA NextEvents == WorkerInv /\ EventsInv /\ [Next]_vars => EventsInv'
<1> SUFFICES ASSUME WorkerInv, EventsInv, [Next]_vars PROVE EventsInv'
  OBVIOUS
<1>1. ASSUME NEW w \in Workers, Commit(w) PROVE EventsInv'
  <2>1. IsFiniteSet(outbox')
    <3>1. /\ cmd[w] \in Commands
          /\ outbox' = Appended(outbox, EventsOf(cmd[w], try[w], base[w]))
      BY <1>1, CommitWrites DEF WorkerInv
    <3>2. IsFiniteSet(outbox \cup EventsOf(cmd[w], try[w], base[w]))
      BY <3>1, EventsFinite, FS_Union DEF EventsInv
    <3>3. outbox' \subseteq outbox \cup EventsOf(cmd[w], try[w], base[w])
      BY <3>1, AppendedEvents
    <3> QED BY <3>2, <3>3, FS_Subset
  <2>2. VersionsHaveEvents' /\ RowsHaveEvents' /\ OwnEventsInv' /\ ProposalsHaveEvents'
    BY <1>1, CommitVersions, CommitRows, CommitProposalEvents
  <2> QED BY <2>1, <2>2 DEF EventsInv, StateAndOutboxAgree
<1>2. CASE UNCHANGED tables
  BY <1>2 DEF EventsInv, OwnEventsInv, StateAndOutboxAgree, VersionsHaveEvents, RowsHaveEvents,
              ProposalsHaveEvents, tables
<1> QED BY <1>1, <1>2, OnlyCommitWrites

\* State and outbox never disagree, whatever commits, rolls back and is retried:
\* as many change events as versions, as derived rows, as proposals.
THEOREM OutboxMatchesState == Spec => []StateAndOutboxAgree
<1>1. Init => EventsInv
  BY InitEvents
<1>2. WorkerInv /\ EventsInv /\ [Next]_vars => EventsInv'
  BY NextEvents
<1>3. EventsInv => StateAndOutboxAgree
  BY DEF EventsInv
<1> QED BY <1>1, <1>2, <1>3, WorkerInvariant, PTL DEF Spec

----------------------------------------------------------------------------
(***************************************************************************)
(* A match is finalized once.                                              *)
(***************************************************************************)
\* A match that has a MatchFinalized event is final, and has no second one.
FinalInv ==
  \A e \in outbox :
    e.type = "MatchFinalized" =>
      /\ matches[e.of].status = "FINALIZED"
      /\ \A o \in outbox : o.type = "MatchFinalized" /\ o.of = e.of => o = e

\* No handler takes a match out of its final status.
LEMMA AfterStatus ==
  ASSUME NEW c \in Commands, NEW row \in MatchRows
  PROVE  /\ row.status = "FINALIZED" => After(row, c).status = "FINALIZED"
         /\ Kind[c] = "finalize" => After(row, c).status = "FINALIZED"
BY DEF After, Upserted, StatsRecorded, Finalized, Corrected, MatchRows

\* A MatchFinalized event is returned by a finalization that was accepted, about
\* its match, and by no other handler.
LEMMA FinalizedEventOf ==
  ASSUME NEW c \in Commands, NEW n, NEW row, NEW e \in EventsOf(c, n, row),
         e.type = "MatchFinalized"
  PROVE  /\ Kind[c] = "finalize" /\ CanFinalize(row, c)
         /\ e = Fresh(c, n, "MatchFinalized", TargetOf(c)) /\ e.of = TargetOf(c)
<1> DEFINE m == TargetOf(c)
<1>1. /\ \A type : Fresh(c, n, type, m).type = type /\ Fresh(c, n, type, m).of = m
      /\ \A p, type : Own(p, type, m).type = type
  BY DEF Fresh, Own
<1>2. Kind[c] \in Kinds
  BY KindType
<1>3. CASE Kind[c] = "finalize"
  <2>1. CASE CanFinalize(row, c)
    <3>1. EventsOf(c, n, row) =
            {Fresh(c, n, "MatchValidationStarted", m), Fresh(c, n, "MatchValidated", m),
             Fresh(c, n, "MatchFinalized", m)}
      BY <1>3, <2>1 DEF EventsOf
    <3> QED BY <1>1, <1>3, <2>1, <3>1
  <2>2. CASE ~CanFinalize(row, c)
    <3>1. EventsOf(c, n, row) =
            {Fresh(c, n, "MatchValidationStarted", m), Fresh(c, n, "ValidationFailed", m)}
      BY <1>3, <2>2 DEF EventsOf
    <3> QED BY <1>1, <3>1
  <2> QED BY <2>1, <2>2
<1>4. CASE Kind[c] # "finalize"
  <2>1. \/ \E p : \E type \in EventTypes \ {"MatchFinalized"} : e = Own(p, type, m)
        \/ \E type \in EventTypes \ {"MatchFinalized"} : e = Fresh(c, n, type, m)
    BY <1>2, <1>4 DEF EventsOf, EventTypes, Kinds
  <2> QED BY <1>1, <2>1
<1> QED BY <1>3, <1>4

\* A COMMIT that finalizes finds the match not final, and so without the event.
LEMMA CommitFinal ==
  ASSUME WorkerInv, FinalInv, NEW w \in Workers, Commit(w)
  PROVE  FinalInv'
<1> DEFINE c == cmd[w]
           m == TargetOf(c)
           new == EventsOf(c, try[w], base[w])
<1>1. /\ c \in Commands /\ m \in Matches /\ matches \in [Matches -> MatchRows]
      /\ Saves(c, base[w]) =>
           /\ base[w] = matches[m]
           /\ matches' = [matches EXCEPT ![m] = After(matches[m], c)]
      /\ ~Saves(c, base[w]) => matches' = matches
      /\ outbox' = Appended(outbox, new)
      /\ outbox \subseteq Events
  BY CommitWrites DEF WorkerInv, TypeOK
<1>2. \A e \in outbox' : e \in outbox \/ e \in new
  BY <1>1, AppendedEvents
<1>3. ASSUME NEW n \in Matches, matches[n].status = "FINALIZED"
      PROVE  matches'[n].status = "FINALIZED"
  BY <1>1, <1>3, AfterStatus
<1>4. ASSUME NEW e \in new, e.type = "MatchFinalized"
      PROVE  /\ e.of = m /\ matches'[m].status = "FINALIZED"
             /\ \A o \in outbox : o.type = "MatchFinalized" => o.of # m
             /\ \A o \in new : o.type = "MatchFinalized" => o = e
  <2>1. /\ Kind[c] = "finalize" /\ CanFinalize(base[w], c) /\ e.of = m
        /\ \A o \in new : o.type = "MatchFinalized" => o = e
    BY <1>1, <1>4, FinalizedEventOf
  <2>2. base[w] = matches[m] /\ matches' = [matches EXCEPT ![m] = After(matches[m], c)]
    BY <1>1, <2>1 DEF Saves
  <2>3. matches[m].status # "FINALIZED"
    BY <2>1, <2>2 DEF CanFinalize
  <2>4. matches'[m].status = "FINALIZED"
    BY <1>1, <2>1, <2>2, AfterStatus
  <2> QED BY <2>1, <2>3, <2>4 DEF FinalInv
<1>5. \A e \in outbox : e.of \in Matches
  BY <1>1 DEF Events
<1> SUFFICES ASSUME NEW e \in outbox', e.type = "MatchFinalized"
             PROVE  /\ matches'[e.of].status = "FINALIZED"
                    /\ \A o \in outbox' : o.type = "MatchFinalized" /\ o.of = e.of => o = e
  BY DEF FinalInv
<1>6. CASE e \in outbox
  <2>1. /\ matches[e.of].status = "FINALIZED"
        /\ \A o \in outbox : o.type = "MatchFinalized" /\ o.of = e.of => o = e
    BY <1>6 DEF FinalInv
  <2>2. \A o \in new : o.type = "MatchFinalized" => o.of # e.of
    BY <1>4, <1>6
  <2> QED BY <1>2, <1>3, <1>5, <1>6, <2>1, <2>2
<1>7. CASE e \in new
  BY <1>2, <1>4, <1>7
<1> QED BY <1>2, <1>6, <1>7

\* A match is finalized at most once, whoever asks, however often and on both
\* backends: two finalizations that loaded the same row do not both commit.
THEOREM FinalizedAtMostOnce == Spec => []FinalizedOnce
<1>1. Init => FinalInv
  BY DEF Init, FinalInv
<1>2. WorkerInv /\ FinalInv /\ [Next]_vars => FinalInv'
  <2> SUFFICES ASSUME WorkerInv, FinalInv, [Next]_vars PROVE FinalInv'
    OBVIOUS
  <2>1. CASE UNCHANGED tables
    BY <2>1 DEF FinalInv, tables
  <2> QED BY <2>1, CommitFinal, OnlyCommitWrites
<1>3. FinalInv => FinalizedOnce
  <2> SUFFICES ASSUME FinalInv, NEW m \in Matches
               PROVE  Cardinality({e \in outbox : e.of = m /\ e.type = "MatchFinalized"}) <= 1
    BY DEF FinalizedOnce
  <2> DEFINE finals == {e \in outbox : e.of = m /\ e.type = "MatchFinalized"}
  <2>1. \A e, o \in finals : o = e
    BY DEF FinalInv
  <2> HIDE DEF finals
  <2>2. CASE finals = {}
    BY <2>2, FS_EmptySet DEF finals
  <2>3. CASE finals # {}
    <3>1. PICK e : finals = {e}
      BY <2>1, <2>3
    <3>2. Cardinality(finals) = 1
      BY <3>1, FS_Singleton
    <3> QED BY <3>2 DEF finals
  <2> QED BY <2>2, <2>3
<1> QED BY <1>1, <1>2, <1>3, WorkerInvariant, PTL DEF Spec

----------------------------------------------------------------------------
(***************************************************************************)
(* One transaction at a time.                                              *)
(***************************************************************************)
\* The commands with an idempotency record.
Once(c) == Kind[c] \notin {"publish", "backfill"}

\* The match is not fit to be finalized: events, but no record.
Refused(c, row) == Kind[c] = "finalize" /\ ~CanFinalize(row, c)

\* Nobody else runs a command while w does.
Alone(w) == \A v \in Workers \ {w} : pc[v] = "idle"

\* What a worker has read is still so, and what it has to write it has written:
\* its command is not processed, the proposal it approves is not approved, the
\* match is as it loaded it and, for a finalization, there; at the end there is
\* the idempotency record unless the handler refused, and the statistics if any.
SerialOf(w) ==
  /\ pc[w] # "idle" => Alone(w)
  /\ pc[w] \notin {"idle", "check"} /\ Once(cmd[w]) => cmd[w] \notin processed
  /\ pc[w] \in HasProposal /\ Kind[cmd[w]] = "approve" =>
       proposals[ProposalOf[cmd[w]]].status = "PROPOSED"
  /\ pc[w] \in HasProposal \ {"loadMatch"}
     /\ Kind[cmd[w]] \in {"upsert", "stats", "finalize", "approve"} =>
       base[w] = matches[TargetOf(cmd[w])]
  /\ pc[w] \in HasProposal \ {"loadMatch"} /\ Kind[cmd[w]] = "finalize" => Exists(base[w])
  /\ pc[w] = "saveStats" => Kind[cmd[w]] = "stats"
  /\ pc[w] = "mark" => Once(cmd[w]) /\ ~Refused(cmd[w], base[w])
  /\ pc[w] = "commit" /\ Once(cmd[w]) /\ ~Refused(cmd[w], base[w]) =>
       Key("idempotency", cmd[w]) \in pending[w]
  /\ Key("idempotency", cmd[w]) \in pending[w] =>
       pc[w] = "commit" /\ Once(cmd[w]) /\ ~Refused(cmd[w], base[w])
  /\ pc[w] \in {"mark", "commit"} /\ Kind[cmd[w]] = "stats" =>
       Key("stats", TargetOf(cmd[w])) \in pending[w]
  /\ \A m \in Matches :
       Key("stats", m) \in pending[w] => Kind[cmd[w]] = "stats" /\ m = TargetOf(cmd[w])

SerialInv == \A w \in Workers : SerialOf(w)

\* A worker that has nothing open satisfies SerialOf.
LEMMA IdleIsSerial ==
  ASSUME NEW w \in Workers, pc[w] = "idle", pending[w] = {}
  PROVE  SerialOf(w)
BY DEF SerialOf, HasProposal

\* No transaction is open in the beginning.
LEMMA InitSerial == Init => SerialInv
BY IdleIsSerial DEF Init, SerialInv

\* When a transaction ends none is open, whatever it committed.
LEMMA EndTransactionSerial ==
  ASSUME TypeOK, WriteInv, SerialInv, NEW w \in Workers, pc[w] # "idle", EndTransaction(w)
  PROVE  SerialInv'
<1>1. pc'[w] = "idle" /\ pending'[w] = {}
  BY DEF EndTransaction, TypeOK
<1>2. \A v \in Workers \ {w} : pc'[v] = "idle" /\ pending'[v] = {}
  BY DEF EndTransaction, TypeOK, SerialInv, SerialOf, Alone, WriteInv, HandlersInOrder
<1> QED BY <1>1, <1>2 DEF SerialInv, SerialOf, HasProposal

\* Only the transaction that moves is in question, while no table changes.
LEMMA SerialStatement ==
  ASSUME TypeOK, WriteInv, SerialInv, NEW w \in Workers, Alone(w), OthersWait(w),
         UNCHANGED tables, Alone(w)' => SerialOf(w)'
  PROVE  SerialInv'
<1>1. \A v \in Workers \ {w} : pc'[v] = "idle" /\ pending'[v] = {}
  BY DEF Alone, OthersWait, WriteInv, HandlersInOrder
<1>2. SerialOf(w)'
  BY <1>1 DEF Alone
<1> QED BY <1>1, <1>2 DEF SerialInv, SerialOf, HasProposal

\* On SQLite every step leaves one transaction open at most, with what it read
\* still so.
LEMMA NextSerial ==
  ASSUME Backend = "sqlite"
  PROVE  TypeOK /\ WriteInv /\ KeysInv /\ SerialInv /\ [Next]_vars => SerialInv'
<1> SUFFICES ASSUME TypeOK, WriteInv, KeysInv, SerialInv, [Next]_vars PROVE SerialInv'
  OBVIOUS
<1> USE DEF TypeOK
<1>1. ASSUME NEW w \in Workers, NEW c \in Commands, Begin(w, c) PROVE SerialInv'
  <2>1. /\ pc'[w] = FirstStatement(c) /\ cmd'[w] = c /\ pending'[w] = {}
        /\ OthersWait(w) /\ Alone(w) /\ UNCHANGED tables
    BY <1>1 DEF Begin, Goto, WriteInv, HandlersInOrder, OthersWait, Alone
  <2>2. /\ FirstStatement(c) \in {"insertRow", "commit", "check"}
        /\ FirstStatement(c) = "insertRow" => Kind[c] = "publish"
        /\ FirstStatement(c) = "commit" => Kind[c] = "backfill"
    BY DEF FirstStatement
  <2>3. Alone(w)' => SerialOf(w)'
    BY <2>1, <2>2 DEF SerialOf, Once, HasProposal
  <2> QED BY <2>1, <2>3, SerialStatement
<1>2. ASSUME NEW w \in Workers, pc[w] # "idle", RollBack(w) PROVE SerialInv'
  BY <1>2, EndTransactionSerial DEF RollBack
\* A worker that is not idle is alone.
<1>3. ASSUME NEW w \in Workers, pc[w] # "idle" PROVE Alone(w)
  BY <1>3 DEF SerialInv, SerialOf
<1>4. ASSUME NEW w \in Workers, CheckProcessed(w), ~RollBack(w) PROVE SerialInv'
  <2> DEFINE c == cmd[w]
  <2>1. /\ pc[w] = "check" /\ c \in Commands /\ c \notin processed
        /\ pc'[w] = AfterCheck(c) /\ cmd'[w] = c /\ pending'[w] = pending[w]
        /\ OthersWait(w) /\ UNCHANGED tables
    BY <1>4 DEF CheckProcessed, Goto, OthersWait
  <2>2. Kind[c] \notin {"publish", "backfill"}
    BY <2>1 DEF WriteInv, HandlersInOrder
  <2>3. /\ AfterCheck(c) \in {"saveProposal", "loadProposal", "insertRow", "loadMatch"}
        /\ AfterCheck(c) = "saveProposal" => Kind[c] = "propose"
        /\ AfterCheck(c) = "loadMatch" => Kind[c] # "approve"
    BY <2>1, AfterCheckType
  <2>4. SerialOf(w)
    BY DEF SerialInv
  <2>5. UNCHANGED <<processed, proposals, matches>>
    BY <2>1 DEF tables
  <2> HIDE DEF c
  <2>6. Alone(w)' => SerialOf(w)'
    BY <2>1, <2>2, <2>3, <2>4, <2>5 DEF SerialOf, HasProposal, c
  <2> QED BY <1>3, <2>1, <2>6, SerialStatement
<1>5. ASSUME NEW w \in Workers, LoadProposal(w), ~RollBack(w) PROVE SerialInv'
  <2>1. /\ pc[w] = "loadProposal" /\ proposals[ProposalOf[cmd[w]]].status = "PROPOSED"
        /\ pc'[w] = "loadMatch" /\ cmd'[w] = cmd[w] /\ pending'[w] = pending[w]
        /\ OthersWait(w) /\ UNCHANGED tables /\ UNCHANGED <<processed, proposals, matches>>
    BY <1>5 DEF LoadProposal, Goto, OthersWait, tables
  <2>2. SerialOf(w)
    BY DEF SerialInv
  <2>3. Alone(w)' => SerialOf(w)'
    BY <2>1, <2>2 DEF SerialOf, HasProposal
  <2> QED BY <1>3, <2>1, <2>3, SerialStatement
<1>6. ASSUME NEW w \in Workers, LoadMatch(w), ~RollBack(w) PROVE SerialInv'
  <2> DEFINE c == cmd[w]
             row == matches[TargetOf(c)]
             s == AfterLoad(c, row)
  <2>1. /\ pc[w] = "loadMatch" /\ c \in Commands /\ s # "idle"
        /\ pc'[w] = s /\ cmd'[w] = c /\ base'[w] = row /\ pending'[w] = pending[w]
        /\ OthersWait(w) /\ UNCHANGED tables /\ UNCHANGED <<processed, proposals, matches>>
    BY <1>6 DEF LoadMatch, Goto, OthersWait, tables
  <2>2. Kind[c] \in {"upsert", "stats", "finalize", "approve"}
    BY <2>1 DEF WriteInv, HandlersInOrder
  <2>3. /\ s \in {"saveMatch", "commit", "saveProposal"}
        /\ s = "commit" => Refused(c, row)
        /\ Kind[c] = "finalize" => Exists(row)
    BY <2>1, <2>2, AfterLoadType, AfterLoadSaves DEF Refused, AfterLoad
  <2>4. SerialOf(w)
    BY DEF SerialInv
  <2> HIDE DEF s
  <2>5. Alone(w)' => SerialOf(w)'
    BY <2>1, <2>2, <2>3, <2>4 DEF SerialOf, HasProposal, Refused
  <2> QED BY <1>3, <2>1, <2>5, SerialStatement
<1>7. ASSUME NEW w \in Workers, SaveProposal(w) PROVE SerialInv'
  <2> DEFINE c == cmd[w]
             p == IF Kind[c] = "approve" THEN ProposalOf[c] ELSE c
             s == IF Kind[c] = "approve" THEN "saveMatch" ELSE "mark"
  <2>1. /\ pc[w] = "saveProposal" /\ cmd'[w] = c /\ base'[w] = base[w]
        /\ pc'[w] = s /\ pending'[w] = pending[w] \cup {Key("proposals", p)}
        /\ OthersWait(w) /\ UNCHANGED tables /\ UNCHANGED <<processed, proposals, matches>>
    BY <1>7 DEF SaveProposal, Goto, Write, OthersWait, tables
  <2>2. Kind[c] = "propose" \/ Kind[c] = "approve"
    BY <2>1 DEF WriteInv, HandlersInOrder
  <2>3. SerialOf(w)
    BY DEF SerialInv
  <2> HIDE DEF p
  <2>4. Alone(w)' => SerialOf(w)'
    BY <2>1, <2>2, <2>3 DEF SerialOf, HasProposal, Once, Refused, Key
  <2> QED BY <1>3, <2>1, <2>4, SerialStatement
<1>8. ASSUME NEW w \in Workers, SaveMatch(w), ~RollBack(w) PROVE SerialInv'
  <2> DEFINE c == cmd[w]
             s == IF Kind[c] = "stats" THEN "saveStats" ELSE "mark"
  <2>1. /\ pc[w] = "saveMatch" /\ cmd'[w] = c /\ base'[w] = base[w]
        /\ pc'[w] = s /\ pending'[w] = pending[w] \cup {Key("matches", TargetOf(c))}
        /\ OthersWait(w) /\ UNCHANGED tables /\ UNCHANGED <<processed, proposals, matches>>
    BY <1>8 DEF SaveMatch, Goto, Write, OthersWait, tables
  <2>2. Once(c) /\ ~Refused(c, base[w])
    BY <2>1 DEF WriteInv, HandlersInOrder, Accepts, Once, Refused
  <2>3. SerialOf(w)
    BY DEF SerialInv
  <2>4. Alone(w)' => SerialOf(w)'
    BY <2>1, <2>2, <2>3 DEF SerialOf, HasProposal, Refused, Key
  <2> QED BY <1>3, <2>1, <2>4, SerialStatement
<1>9. ASSUME NEW w \in Workers, SaveStats(w) PROVE SerialInv'
  <2> DEFINE c == cmd[w]
  <2>1. /\ pc[w] = "saveStats" /\ cmd'[w] = c /\ base'[w] = base[w]
        /\ pc'[w] = "mark" /\ pending'[w] = pending[w] \cup {Key("stats", TargetOf(c))}
        /\ OthersWait(w) /\ UNCHANGED tables /\ UNCHANGED <<processed, proposals, matches>>
    BY <1>9 DEF SaveStats, Goto, Write, OthersWait, tables
  <2>2. SerialOf(w) /\ Kind[c] = "stats"
    BY <2>1 DEF SerialInv, SerialOf
  <2>3. Alone(w)' => SerialOf(w)'
    BY <2>1, <2>2 DEF SerialOf, HasProposal, Once, Refused, Key, TargetOf
  <2> QED BY <1>3, <2>1, <2>3, SerialStatement
<1>10. ASSUME NEW w \in Workers, InsertRow(w) PROVE SerialInv'
  <2> DEFINE c == cmd[w]
  <2>1. /\ pc[w] = "insertRow" /\ cmd'[w] = c /\ base'[w] = base[w]
        /\ pc'[w] = IF Kind[c] = "publish" THEN "commit" ELSE "mark"
        /\ OthersWait(w) /\ UNCHANGED tables /\ UNCHANGED <<processed, proposals, matches>>
        /\ pending'[w] = pending[w] \/ pending'[w] = pending[w] \cup {Key("publications", c)}
    BY <1>10 DEF InsertRow, Goto, Write, OthersWait, tables
  <2>2. Kind[c] \in {"derive", "publish"}
    BY <2>1 DEF KeysInv, KeysOf
  <2>3. SerialOf(w)
    BY DEF SerialInv
  <2>4. Alone(w)' => SerialOf(w)'
    BY <2>1, <2>2, <2>3 DEF SerialOf, HasProposal, Once, Refused, Key
  <2> QED BY <1>3, <2>1, <2>4, SerialStatement
<1>11. ASSUME NEW w \in Workers, MarkProcessed(w) PROVE SerialInv'
  <2> DEFINE c == cmd[w]
  <2>1. /\ pc[w] = "mark" /\ cmd'[w] = c /\ base'[w] = base[w] /\ pc'[w] = "commit"
        /\ OthersWait(w) /\ UNCHANGED tables /\ UNCHANGED <<processed, proposals, matches>>
        /\ IF c \in processed THEN pending'[w] = pending[w]
           ELSE pending'[w] = pending[w] \cup {Key("idempotency", c)}
    BY <1>11 DEF MarkProcessed, Goto, Write, OthersWait, tables
  <2>2. SerialOf(w)
    BY DEF SerialInv
  <2>3. Once(c) /\ ~Refused(c, base[w]) /\ c \notin processed
    BY <2>1, <2>2 DEF SerialOf
  <2>4. Alone(w)' => SerialOf(w)'
    BY <2>1, <2>2, <2>3 DEF SerialOf, HasProposal, Refused, Key
  <2> QED BY <1>3, <2>1, <2>4, SerialStatement
<1>12. ASSUME NEW w \in Workers, Commit(w) PROVE SerialInv'
  BY <1>12, EndTransactionSerial DEF Commit
<1>13. CASE UNCHANGED vars
  BY <1>13 DEF vars, SerialInv, SerialOf, Alone, HasProposal, TargetOf, Refused, CanFinalize
<1> QED
  BY <1>1, <1>2, <1>4, <1>5, <1>6, <1>7, <1>8, <1>9, <1>10, <1>11, <1>12, <1>13
  DEF Next, Step, Abort, CheckProcessed, LoadProposal, LoadMatch, SaveMatch

\* It holds in every state on SQLite.
LEMMA SerialInvariant ==
  ASSUME Backend = "sqlite"
  PROVE  Spec => []SerialInv
<1>1. WorkerInv /\ SerialInv /\ [Next]_vars => SerialInv'
  BY NextSerial DEF WorkerInv
<1> QED BY <1>1, InitSerial, WorkerInvariant, PTL DEF Spec

\* What a COMMIT on SQLite does: the command has taken no effect before, takes
\* it on the rows as they are, and is remembered unless the handler refused.
LEMMA SerialCommit ==
  ASSUME WorkerInv, SerialInv, NEW w \in Workers, Commit(w), NEW c, c = cmd[w]
  PROVE  /\ Once(c) => c \notin processed
         /\ processed' = IF Once(c) /\ ~Refused(c, base[w])
                           THEN processed \cup {c} ELSE processed
         /\ Kind[c] = "approve" => proposals[ProposalOf[c]].status = "PROPOSED"
         /\ Kind[c] \in {"upsert", "stats", "finalize", "approve"} =>
              base[w] = matches[TargetOf(c)]
         /\ Kind[c] = "finalize" => Exists(base[w])
         /\ projection' = IF Kind[c] = "stats"
                            THEN [projection EXCEPT ![TargetOf(c)] = c] ELSE projection
         /\ derived' = CASE Kind[c] = "derive"  -> [derived EXCEPT ![c] = @ + 1]
                         [] Kind[c] = "publish" -> [derived EXCEPT ![c] = 1]
                         [] OTHER               -> derived
<1>1. pc[w] = "commit" /\ c \in Commands /\ TargetOf(c) \in Matches
  BY CommitWrites DEF WorkerInv
<1>2. SerialOf(w)
  BY DEF SerialInv
<1>3. /\ Once(c) => c \notin processed
      /\ Kind[c] = "approve" => proposals[ProposalOf[c]].status = "PROPOSED"
      /\ Kind[c] \in {"upsert", "stats", "finalize", "approve"} =>
           base[w] = matches[TargetOf(c)]
      /\ Kind[c] = "finalize" => Exists(base[w])
  BY <1>1, <1>2 DEF SerialOf, HasProposal
<1>4. Key("idempotency", c) \in pending[w] <=> Once(c) /\ ~Refused(c, base[w])
  BY <1>1, <1>2 DEF SerialOf
<1>5. Key("stats", TargetOf(c)) \in pending[w] <=> Kind[c] = "stats"
  BY <1>1, <1>2 DEF SerialOf
<1>6. /\ processed' = IF Key("idempotency", c) \in pending[w] THEN processed \cup {c}
                      ELSE processed
      /\ projection' = IF Key("stats", TargetOf(c)) \in pending[w]
                         THEN [projection EXCEPT ![TargetOf(c)] = c] ELSE projection
      /\ derived' = CASE Kind[c] = "derive"  -> [derived EXCEPT ![c] = @ + 1]
                      [] Kind[c] = "publish" -> [derived EXCEPT ![c] = 1]
                      [] OTHER               -> derived
  BY DEF Commit
<1> QED BY <1>3, <1>4, <1>5, <1>6

----------------------------------------------------------------------------
(***************************************************************************)
(* A proposal is applied once.                                             *)
(***************************************************************************)
\* A proposal whose command is not processed has no row, and a history names
\* approved proposals only, each once.
AppliedInv ==
  /\ \A p \in Commands : proposals[p].status # "NONE" => p \in processed
  /\ AppliedIsApproved
  /\ CorrectedOnce


\* In the beginning nothing is proposed and nothing corrected.
LEMMA InitApplied == Init => AppliedInv
BY DEF Init, AppliedInv, AppliedIsApproved, CorrectedOnce, NoProposal, NoRow

\* An entry of the history of a match after a command was one before, or is the
\* last one, of the proposal the command approves.
LEMMA HistoryAfter ==
  ASSUME NEW c \in Commands, NEW row \in MatchRows, NEW i \in 1..Len(After(row, c).history)
  PROVE  \/ i \in 1..Len(row.history) /\ After(row, c).history[i] = row.history[i]
         \/ /\ Kind[c] = "approve" /\ i = Len(row.history) + 1
            /\ After(row, c).history[i].correction = ProposalOf[c]
<1>1. CASE Kind[c] = "approve"
  <2> DEFINE entry == [correction |-> ProposalOf[c], previous |-> row.version,
                       new |-> row.version + 1]
  <2>1. After(row, c).history = Append(row.history, entry)
    BY <1>1 DEF After, Corrected, MatchRows
  <2>2. entry.correction = ProposalOf[c]
    OBVIOUS
  <2> HIDE DEF entry
  <2>3. row.history \in Seq(Corrections) /\ Len(row.history) \in Nat
    BY DEF MatchRows
  <2>4. i \in 1..Len(row.history) \/ i = Len(row.history) + 1
    BY <2>1, <2>3
  <2> QED BY <1>1, <2>1, <2>2, <2>3, <2>4
<1>2. CASE Kind[c] # "approve"
  <2>1. After(row, c).history = row.history
    BY <1>2 DEF After, Upserted, StatsRecorded, Finalized, MatchRows
  <2> QED BY <2>1
<1> QED BY <1>1, <1>2

\* A COMMIT proposes what was never proposed, or approves what no match has yet.
LEMMA CommitApplied ==
  ASSUME WorkerInv, SerialInv, AppliedInv, NEW w \in Workers, Commit(w)
  PROVE  AppliedInv'
<1> DEFINE c == cmd[w]
           m == TargetOf(c)
<1>1. /\ c \in Commands /\ m \in Matches /\ matches \in [Matches -> MatchRows]
      /\ Saves(c, base[w]) => matches' = [matches EXCEPT ![m] = After(matches[m], c)]
      /\ ~Saves(c, base[w]) => matches' = matches
      /\ proposals' = [p \in Commands |->
           IF p \notin SavedProposals(c) THEN proposals[p]
           ELSE IF Kind[c] = "propose" THEN Proposed
           ELSE ApprovedAt(matches[m].version + 1)]
  BY CommitWrites DEF WorkerInv, TypeOK
<1>2. /\ Once(c) => c \notin processed
      /\ processed' = IF Once(c) /\ ~Refused(c, base[w]) THEN processed \cup {c} ELSE processed
      /\ Kind[c] = "approve" => proposals[ProposalOf[c]].status = "PROPOSED"
  BY SerialCommit
<1>3. /\ Kind[c] = "propose" => Once(c) /\ ~Refused(c, base[w])
      /\ Kind[c] = "approve" => ProposalOf[c] \in Commands
  BY <1>1, KindType DEF Once, Refused
<1>4. \A v : Proposed.status = "PROPOSED" /\ ApprovedAt(v).status = "APPROVED"
  BY DEF Proposed, ApprovedAt
<1> HIDE DEF c, m
<1>5. \A p \in Commands : proposals'[p].status # "NONE" => p \in processed'
  <2>1. processed \subseteq processed'
    BY <1>2
  <2> SUFFICES ASSUME NEW p \in Commands, proposals'[p].status # "NONE" PROVE p \in processed'
    OBVIOUS
  <2>2. CASE p \notin SavedProposals(c)
    BY <1>1, <2>1, <2>2 DEF AppliedInv
  <2>3. CASE Kind[c] = "propose" /\ p = c
    BY <1>2, <1>3, <2>3
  <2>4. CASE Kind[c] = "approve" /\ p = ProposalOf[c]
    BY <1>2, <2>1, <2>4 DEF AppliedInv
  <2> QED BY <2>2, <2>3, <2>4 DEF SavedProposals
\* What a match had before is still approved, and is not approved now.
<1>6. ASSUME NEW n \in Matches, NEW i \in 1..Len(matches[n].history)
      PROVE  /\ matches[n].history[i].correction \in Commands
             /\ proposals'[matches[n].history[i].correction].status = "APPROVED"
             /\ Kind[c] = "approve" => matches[n].history[i].correction # ProposalOf[c]
  <2> DEFINE p == matches[n].history[i].correction
  <2>1. p \in Commands /\ proposals[p].status = "APPROVED"
    <3>1. matches[n].history[i] \in Corrections
      BY <1>1 DEF MatchRows
    <3> QED BY <3>1 DEF Corrections, AppliedInv, AppliedIsApproved
  <2> HIDE DEF p
  <2>2. Kind[c] = "approve" => p # ProposalOf[c]
    BY <1>2, <2>1
  <2>3. Kind[c] = "propose" => p # c
    BY <1>2, <1>3, <2>1 DEF AppliedInv
  <2>4. p \notin SavedProposals(c)
    BY <2>2, <2>3 DEF SavedProposals
  <2> QED BY <1>1, <2>1, <2>2, <2>4 DEF p
<1>7. ASSUME NEW n \in Matches, NEW i \in 1..Len(matches'[n].history)
      PROVE  \/ /\ i \in 1..Len(matches[n].history)
                /\ matches'[n].history[i] = matches[n].history[i]
             \/ /\ Kind[c] = "approve" /\ i = Len(matches[n].history) + 1
                /\ matches'[n].history[i].correction = ProposalOf[c]
  <2>1. matches'[n] = matches[n] \/ matches'[n] = After(matches[n], c)
    BY <1>1
  <2> QED BY <1>1, <1>7, <2>1, HistoryAfter
<1>8. AppliedIsApproved'
  <2> SUFFICES ASSUME NEW n \in Matches, NEW i \in 1..Len(matches'[n].history)
               PROVE  proposals'[matches'[n].history[i].correction].status = "APPROVED"
    BY DEF AppliedIsApproved
  <2>1. CASE i \in 1..Len(matches[n].history) /\ matches'[n].history[i] = matches[n].history[i]
    BY <1>6, <2>1
  <2>2. CASE Kind[c] = "approve" /\ matches'[n].history[i].correction = ProposalOf[c]
    BY <1>1, <1>3, <1>4, <2>2 DEF SavedProposals
  <2> QED BY <1>7, <2>1, <2>2
<1>9. CorrectedOnce'
  <2> SUFFICES ASSUME NEW n \in Matches,
                      NEW i \in 1..Len(matches'[n].history),
                      NEW j \in 1..Len(matches'[n].history),
                      matches'[n].history[i].correction = matches'[n].history[j].correction
               PROVE  i = j
    BY DEF CorrectedOnce
  <2> DEFINE old == 1..Len(matches[n].history)
             Kept(k) == k \in old /\ matches'[n].history[k] = matches[n].history[k]
             Added(k) == /\ Kind[c] = "approve" /\ k = Len(matches[n].history) + 1
                         /\ matches'[n].history[k].correction = ProposalOf[c]
  <2>1. (Kept(i) \/ Added(i)) /\ (Kept(j) \/ Added(j))
    BY <1>7
  <2>2. CASE Kept(i) /\ Kept(j)
    <3>1. \A k, l \in old :
            matches[n].history[k].correction = matches[n].history[l].correction => k = l
      BY DEF AppliedInv, CorrectedOnce
    <3> QED BY <2>2, <3>1
  <2>3. CASE Added(i) /\ Added(j)
    BY <2>3
  <2>4. CASE (Kept(i) /\ Added(j)) \/ (Added(i) /\ Kept(j))
    BY <1>6, <2>4
  <2> QED BY <2>1, <2>2, <2>3, <2>4
<1> QED BY <1>5, <1>8, <1>9 DEF AppliedInv

\* On SQLite a correction is applied while its proposal is PROPOSED, which then
\* becomes APPROVED for good.
LEMMA AppliedInvariant ==
  ASSUME Backend = "sqlite"
  PROVE  Spec => []AppliedInv
<1>1. WorkerInv /\ SerialInv /\ AppliedInv /\ [Next]_vars => AppliedInv'
  <2>1. UNCHANGED tables /\ AppliedInv => AppliedInv'
    BY DEF tables, AppliedInv, AppliedIsApproved, CorrectedOnce
  <2> QED BY <2>1, CommitApplied, OnlyCommitWrites
<1> QED BY <1>1, InitApplied, SerialInvariant, WorkerInvariant, PTL DEF Spec

\* "Only proposed corrections may be approved": on SQLite no proposal is applied
\* twice, however many approvals name it and however often they are sent.
THEOREM NoProposalTwice ==
  ASSUME Backend = "sqlite"
  PROVE  Spec => []CorrectedOnce
<1>1. AppliedInv => CorrectedOnce
  BY DEF AppliedInv
<1> QED BY <1>1, AppliedInvariant, PTL

\* Nothing reopens a correction that was applied: on SQLite its proposal stays
\* APPROVED, even when the proposing command is sent again.
THEOREM AppliedStaysApproved ==
  ASSUME Backend = "sqlite"
  PROVE  Spec => []AppliedIsApproved
<1>1. AppliedInv => AppliedIsApproved
  BY DEF AppliedInv
<1> QED BY <1>1, AppliedInvariant, PTL

----------------------------------------------------------------------------
(***************************************************************************)
(* A replayed command changes nothing.                                     *)
(***************************************************************************)
\* An event of an attempt that changed something.
Effective(e) == e.id.tag # "own" /\ e.type \notin {"MatchValidationStarted", "ValidationFailed"}

\* The effects of one command are those of one attempt, and come with its
\* idempotency record.
EffectsInv ==
  /\ \A e \in outbox :
       Effective(e) /\ Once(e.id.by) =>
         /\ e.id.by \in processed
         /\ \A o \in outbox : Effective(o) /\ o.id.by = e.id.by => o.id.attempt = e.id.attempt
  /\ \A c \in Commands :
       Once(c) => derived[c] <= 1 /\ (c \notin processed => derived[c] = 0)

\* In the beginning nothing has an effect.
LEMMA InitEffects == Init => EffectsInv
BY DEF Init, EffectsInv

\* The commands that leave a row or an effective event are remembered, and a
\* remembered command does not get to its COMMIT.
LEMMA CommitEffects ==
  ASSUME WorkerInv, SerialInv, EffectsInv, NEW w \in Workers, Commit(w)
  PROVE  EffectsInv'
<1> DEFINE c == cmd[w]
           new == EventsOf(c, try[w], base[w])
<1>1. c \in Commands /\ outbox' = Appended(outbox, new)
  BY CommitWrites DEF WorkerInv
<1>2. /\ Once(c) => c \notin processed
      /\ processed' = IF Once(c) /\ ~Refused(c, base[w]) THEN processed \cup {c} ELSE processed
      /\ derived' = CASE Kind[c] = "derive"  -> [derived EXCEPT ![c] = @ + 1]
                      [] Kind[c] = "publish" -> [derived EXCEPT ![c] = 1]
                      [] OTHER               -> derived
  BY SerialCommit
<1>3. \A e \in outbox' : e \in outbox \/ e \in new
  BY <1>1, AppendedEvents
<1>4. ASSUME NEW e \in new, Effective(e)
      PROVE  e.id.by = c /\ e.id.attempt = try[w] /\ ~Refused(c, base[w])
  <2>1. e.id.by = c /\ e.id.attempt = try[w]
    BY <1>1, <1>4, EventIdsOfAttempt DEF Effective
  <2>2. ASSUME Refused(c, base[w]) PROVE FALSE
    <3>1. \/ e = Fresh(c, try[w], "MatchValidationStarted", TargetOf(c))
          \/ e = Fresh(c, try[w], "ValidationFailed", TargetOf(c))
      BY <2>2 DEF Refused, EventsOf
    <3> QED BY <1>4, <3>1 DEF Effective, Fresh
  <2> QED BY <2>1, <2>2
<1> HIDE DEF c, new
<1>5. ASSUME NEW e \in outbox', Effective(e), Once(e.id.by)
      PROVE  /\ e.id.by \in processed'
             /\ \A o \in outbox' : Effective(o) /\ o.id.by = e.id.by => o.id.attempt = e.id.attempt
  <2>1. CASE e \in new
    <3>1. e.id.by = c /\ e.id.attempt = try[w] /\ c \in processed' /\ c \notin processed
      BY <1>2, <1>4, <1>5, <2>1
    <3>2. \A o \in outbox : ~(Effective(o) /\ o.id.by = c)
      BY <1>5, <3>1 DEF EffectsInv
    <3> QED BY <1>3, <1>4, <3>1, <3>2
  <2>2. CASE e \in outbox
    <3>1. /\ e.id.by \in processed
          /\ \A o \in outbox : Effective(o) /\ o.id.by = e.id.by => o.id.attempt = e.id.attempt
      BY <1>5, <2>2 DEF EffectsInv
    <3>2. \A o \in new : Effective(o) => o.id.by # e.id.by
      BY <1>2, <1>4, <1>5, <3>1
    <3> QED BY <1>2, <1>3, <3>1, <3>2
  <2> QED BY <1>3, <1>5, <2>1, <2>2
<1>6. ASSUME NEW d \in Commands, Once(d)
      PROVE  derived'[d] <= 1 /\ (d \notin processed' => derived'[d] = 0)
  <2>1. derived \in [Commands -> Nat] /\ processed \subseteq processed'
    BY <1>2 DEF WorkerInv, TypeOK
  <2>2. derived[d] <= 1 /\ (d \notin processed => derived[d] = 0)
    BY <1>6 DEF EffectsInv
  <2>3. CASE d = c /\ Kind[c] = "derive"
    <3>1. derived'[d] = derived[d] + 1 /\ d \notin processed /\ d \in processed'
      BY <1>1, <1>2, <1>6, <2>1, <2>3 DEF Refused
    <3> QED BY <2>2, <3>1
  <2>4. CASE ~(d = c /\ Kind[c] = "derive")
    <3>1. derived'[d] = derived[d]
      <4>1. Kind[c] = "publish" => d # c
        BY <1>6 DEF Once
      <4> QED BY <1>2, <2>1, <2>4, <4>1
    <3> QED BY <2>1, <2>2, <3>1
  <2> QED BY <2>3, <2>4
<1> QED BY <1>5, <1>6 DEF EffectsInv

\* "Replaying it produces no duplicate state or events": on SQLite one attempt
\* at most of those with one command id has an effect.
THEOREM ReplaysAreIdempotent ==
  ASSUME Backend = "sqlite"
  PROVE  Spec => []ReplayHasNoEffect
<1>1. WorkerInv /\ SerialInv /\ EffectsInv /\ [Next]_vars => EffectsInv'
  <2>1. UNCHANGED tables /\ EffectsInv => EffectsInv'
    BY DEF tables, EffectsInv
  <2> QED BY <2>1, CommitEffects, OnlyCommitWrites
<1>2. EffectsInv => ReplayHasNoEffect
  <2> SUFFICES ASSUME EffectsInv, NEW c \in Commands, Once(c)
               PROVE  Cardinality(EffectiveAttempts(c)) <= 1 /\ derived[c] <= 1
    BY DEF ReplayHasNoEffect, Once
  <2>1. \A n \in EffectiveAttempts(c) :
          \E e \in outbox : Effective(e) /\ e.id.by = c /\ n = e.id.attempt
    BY DEF EffectiveAttempts, Effective
  <2>2. \A n, k \in EffectiveAttempts(c) : n = k
    BY <2>1 DEF EffectsInv
  <2>3. CASE EffectiveAttempts(c) = {}
    BY <2>3, FS_EmptySet DEF EffectsInv
  <2>4. CASE EffectiveAttempts(c) # {}
    <3>1. PICK n : EffectiveAttempts(c) = {n}
      BY <2>2, <2>4
    <3>2. Cardinality(EffectiveAttempts(c)) = 1
      BY <3>1, FS_Singleton
    <3> QED BY <3>2 DEF EffectsInv
  <2> QED BY <2>3, <2>4
<1> QED BY <1>1, <1>2, InitEffects, SerialInvariant, WorkerInvariant, PTL DEF Spec
----------------------------------------------------------------------------
(***************************************************************************)
(* Execution implements the atomic commands.                               *)
(***************************************************************************)
\* Every attempt that runs was sent, and clients send so many.
BoundInv ==
  /\ \A c \in Commands : attempts[c] <= MaxAttempts[c]
  /\ \A w \in Workers : pc[w] # "idle" => try[w] >= 1

\* It holds in every state, on both backends.
LEMMA BoundInvariant == Spec => []BoundInv
<1>1. Init => BoundInv
  BY ExecutionAssumption DEF Init, BoundInv
<1>2. TypeOK /\ BoundInv /\ [Next]_vars => BoundInv'
  <2> SUFFICES ASSUME TypeOK, BoundInv, [Next]_vars PROVE BoundInv'
    OBVIOUS
  <2>1. ASSUME NEW w \in Workers, NEW c \in Commands, Begin(w, c) PROVE BoundInv'
    <3>1. /\ attempts' = [attempts EXCEPT ![c] = @ + 1] /\ attempts[c] < MaxAttempts[c]
          /\ try' = [try EXCEPT ![w] = attempts[c] + 1]
          /\ pc' = [pc EXCEPT ![w] = FirstStatement(c)]
      BY <2>1 DEF Begin, Goto
    <3>2. attempts[c] \in Nat /\ MaxAttempts[c] \in Nat
      BY ExecutionAssumption DEF TypeOK
    <3> QED BY <3>1, <3>2 DEF BoundInv, TypeOK
  <2>2. ASSUME NEW w \in Workers, EndTransaction(w), attempts' = attempts PROVE BoundInv'
    BY <2>2 DEF EndTransaction, BoundInv, TypeOK
\* A worker that moves within its attempt keeps the number of it.
  <2>3. ASSUME NEW w \in Workers, NEW s, pc[w] # "idle", Goto(w, s),
               UNCHANGED <<attempts, try>>
        PROVE  BoundInv'
    BY <2>3 DEF Goto, BoundInv, TypeOK
  <2>4. ASSUME NEW w \in Workers, Step(w) PROVE BoundInv'
    <3>1. attempts' = attempts
      BY <2>4 DEF Step, CheckProcessed, LoadProposal, LoadMatch, SaveProposal, SaveMatch,
                  SaveStats, InsertRow, MarkProcessed, Commit
    <3>2. CASE EndTransaction(w)
      BY <2>2, <3>1, <3>2
    <3>3. CASE ~EndTransaction(w)
      <4>1. pc[w] # "idle" /\ try' = try /\ \E s : Goto(w, s)
        BY <2>4, <3>3 DEF Step, CheckProcessed, LoadProposal, LoadMatch, SaveProposal, SaveMatch,
                          SaveStats, InsertRow, MarkProcessed, Commit, RollBack
      <4> QED BY <2>3, <3>1, <4>1
    <3> QED BY <3>2, <3>3
  <2>5. ASSUME NEW w \in Workers, Abort(w) PROVE BoundInv'
    BY <2>2, <2>5 DEF Abort, RollBack
  <2>6. CASE UNCHANGED vars
    BY <2>6 DEF vars, BoundInv
  <2> QED BY <2>1, <2>4, <2>5, <2>6 DEF Next
<1> QED BY <1>1, <1>2, TypeCorrect, PTL DEF Spec

\* The aggregates and the events are those of the abstract specification.
LEMMA AtomicDomain ==
  ASSUME NEW c, NEW n, NEW row
  PROVE  /\ Atomic!TargetOf(c) = TargetOf(c)
         /\ Atomic!EventsOf(c, n, row) = EventsOf(c, n, row)
         /\ Atomic!CanFinalize(row, c) = CanFinalize(row, c)
         /\ Atomic!CanCorrect(row, c) = CanCorrect(row, c)
         /\ Atomic!Exists(row) = Exists(row)
         /\ Atomic!Upserted(row, c) = Upserted(row, c)
         /\ Atomic!StatsRecorded(row, c) = StatsRecorded(row, c)
         /\ Atomic!Finalized(row, c) = Finalized(row, c)
         /\ Atomic!Corrected(row, c) = Corrected(row, c)
<1>1. Atomic!TargetOf(c) = TargetOf(c)
  BY DEF Atomic!TargetOf, TargetOf
<1>2. /\ Atomic!CanFinalize(row, c) = CanFinalize(row, c)
      /\ Atomic!CanCorrect(row, c) = CanCorrect(row, c)
      /\ Atomic!Exists(row) = Exists(row)
  BY DEF Atomic!CanFinalize, CanFinalize, Atomic!CanCorrect, CanCorrect, Atomic!Exists, Exists
<1>3. Atomic!EventsOf(c, n, row) = EventsOf(c, n, row)
  BY <1>1, <1>2 DEF Atomic!EventsOf, EventsOf, Atomic!Fresh, Fresh, Atomic!Own, Own
<1>4. /\ Atomic!Upserted(row, c) = Upserted(row, c)
      /\ Atomic!StatsRecorded(row, c) = StatsRecorded(row, c)
      /\ Atomic!Finalized(row, c) = Finalized(row, c)
      /\ Atomic!Corrected(row, c) = Corrected(row, c)
  BY DEF Atomic!Upserted, Upserted, Atomic!StatsRecorded, StatsRecorded, Atomic!Finalized,
         Finalized, Atomic!Corrected, Corrected
<1> QED BY <1>1, <1>2, <1>3, <1>4

\* The initial states are those of the abstract specification.
LEMMA InitAtomic == Init => Atomic!Init
BY DEF Init, Atomic!Init, NoRow, Atomic!NoRow, NoProposal, Atomic!NoProposal

\* A COMMIT on SQLite is the abstract command, at that step.
LEMMA CommitAtomic ==
  ASSUME WorkerInv, SerialInv, BoundInv, NEW w \in Workers, Commit(w)
  PROVE  Atomic!Next
<1> DEFINE c == cmd[w]
           n == try[w]
           m == TargetOf(c)
           row == matches[m]
<1>1. /\ pc[w] = "commit" /\ c \in Commands /\ m \in Matches
      /\ Saves(c, base[w]) =>
           /\ Accepts(c, row)
           /\ matches' = [matches EXCEPT ![m] = After(row, c)]
      /\ ~Saves(c, base[w]) => matches' = matches
      /\ proposals' = [p \in Commands |->
           IF p \notin SavedProposals(c) THEN proposals[p]
           ELSE IF Kind[c] = "propose" THEN Proposed
           ELSE ApprovedAt(row.version + 1)]
      /\ outbox' = Appended(outbox, EventsOf(c, n, base[w]))
  BY CommitWrites DEF WorkerInv
<1>2. /\ Once(c) => c \notin processed
      /\ processed' = IF Once(c) /\ ~Refused(c, base[w]) THEN processed \cup {c} ELSE processed
      /\ Kind[c] = "approve" => proposals[ProposalOf[c]].status = "PROPOSED"
      /\ Kind[c] \in {"upsert", "stats", "finalize", "approve"} => base[w] = row
      /\ Kind[c] = "finalize" => Exists(base[w])
      /\ projection' = IF Kind[c] = "stats" THEN [projection EXCEPT ![m] = c] ELSE projection
      /\ derived' = CASE Kind[c] = "derive"  -> [derived EXCEPT ![c] = @ + 1]
                      [] Kind[c] = "publish" -> [derived EXCEPT ![c] = 1]
                      [] OTHER               -> derived
  BY SerialCommit
<1>3. n \in 1..MaxAttempts[c]
  <2>1. /\ n \in Nat /\ attempts[c] \in Nat /\ MaxAttempts[c] \in Nat
        /\ 1 <= n /\ n <= attempts[c] /\ attempts[c] <= MaxAttempts[c]
    BY <1>1, ExecutionAssumption DEF WorkerInv, TypeOK, AttemptsInv, BoundInv
  <2> QED BY <2>1
<1>4. Kind[c] \in Kinds /\ ProposalOf[c] \in Commands
  BY <1>1, KindType
<1>5. /\ proposals \in [Commands -> ProposalRows]
      /\ SavedProposals(c) = {} => proposals' = proposals
  <2>1. proposals \in [Commands -> ProposalRows]
    BY DEF WorkerInv, TypeOK
  <2> HIDE DEF c, row
  <2> QED BY <1>1, <2>1
<1>6. Atomic!Current(c) = row
  BY AtomicDomain DEF Atomic!Current
\* What an accepted command does in every case.
<1>7. ASSUME Once(c), ~Refused(c, base[w]), EventsOf(c, n, base[w]) = EventsOf(c, n, row)
      PROVE  Atomic!AcceptOnce(c, n)
  BY <1>1, <1>2, <1>6, <1>7, AtomicDomain DEF Atomic!AcceptOnce, Atomic!Appended, Appended
<1> HIDE DEF c, n, m, row
<1>8. CASE Kind[c] = "upsert"
  <2>1. /\ Once(c) /\ ~Refused(c, base[w]) /\ base[w] = row /\ SavedProposals(c) = {}
        /\ Saves(c, base[w]) /\ After(row, c) = Upserted(row, c)
    BY <1>2, <1>8 DEF Once, Refused, SavedProposals, Saves, After
  <2>2. Atomic!AcceptOnce(c, n)
    BY <1>7, <2>1
  <2>3. matches' = [matches EXCEPT ![Atomic!TargetOf(c)] = Atomic!Upserted(@, c)]
    BY <1>1, <2>1, AtomicDomain DEF m, row
  <2>4. Atomic!CreateOrUpdateMatch(c, n)
    BY <1>2, <1>5, <1>8, <2>1, <2>2, <2>3 DEF Atomic!CreateOrUpdateMatch
  <2> QED BY <1>1, <1>3, <2>4 DEF Atomic!Next
<1>9. CASE Kind[c] = "stats"
  <2>1. /\ Once(c) /\ ~Refused(c, base[w]) /\ base[w] = row /\ SavedProposals(c) = {}
        /\ Saves(c, base[w]) /\ After(row, c) = StatsRecorded(row, c)
    BY <1>2, <1>9 DEF Once, Refused, SavedProposals, Saves, After
  <2>2. Atomic!AcceptOnce(c, n)
    BY <1>7, <2>1
  <2>3. /\ matches' = [matches EXCEPT ![Atomic!TargetOf(c)] = Atomic!StatsRecorded(@, c)]
        /\ projection' = [projection EXCEPT ![Atomic!TargetOf(c)] = c]
    BY <1>1, <1>2, <1>9, <2>1, AtomicDomain DEF m, row
  <2>4. Atomic!Exists(Atomic!Current(c))
    BY <1>1, <1>6, <1>9, <2>1, AtomicDomain DEF Accepts
  <2>5. Atomic!UpsertMatchStats(c, n)
    BY <1>2, <1>5, <1>9, <2>1, <2>2, <2>3, <2>4 DEF Atomic!UpsertMatchStats
  <2> QED BY <1>1, <1>3, <2>5 DEF Atomic!Next
<1>10. CASE Kind[c] = "finalize" /\ CanFinalize(row, c)
  <2>1. /\ Once(c) /\ ~Refused(c, base[w]) /\ base[w] = row /\ SavedProposals(c) = {}
        /\ Saves(c, base[w]) /\ After(row, c) = Finalized(row, c)
    BY <1>2, <1>10 DEF Once, Refused, SavedProposals, Saves, After
  <2>2. Atomic!AcceptOnce(c, n)
    BY <1>7, <2>1
  <2>3. matches' = [matches EXCEPT ![Atomic!TargetOf(c)] = Atomic!Finalized(@, c)]
    BY <1>1, <2>1, AtomicDomain DEF m, row
  <2>4. Atomic!Exists(Atomic!Current(c)) /\ Atomic!CanFinalize(Atomic!Current(c), c)
    BY <1>1, <1>6, <1>10, <2>1, AtomicDomain DEF Accepts
  <2>5. Atomic!FinalizeMatch(c, n)
    BY <1>2, <1>5, <1>10, <2>1, <2>2, <2>3, <2>4 DEF Atomic!FinalizeMatch
  <2> QED BY <1>1, <1>3, <2>5 DEF Atomic!Next
<1>11. CASE Kind[c] = "propose"
  <2>1. /\ Once(c) /\ ~Refused(c, base[w]) /\ SavedProposals(c) = {c} /\ ~Saves(c, base[w])
    BY <1>2, <1>11 DEF Once, Refused, SavedProposals, Saves
  <2>2. EventsOf(c, n, base[w]) = EventsOf(c, n, row)
    BY <1>11 DEF EventsOf
  <2>3. Atomic!AcceptOnce(c, n)
    BY <1>7, <2>1, <2>2
  <2>4. proposals' = [proposals EXCEPT ![c] = Atomic!Proposed]
    BY <1>1, <1>5, <1>11, <2>1 DEF Proposed, Atomic!Proposed
  <2>5. Atomic!ProposeCorrection(c, n)
    BY <1>1, <1>2, <1>11, <2>1, <2>3, <2>4 DEF Atomic!ProposeCorrection
  <2> QED BY <1>1, <1>3, <2>5 DEF Atomic!Next
<1>12. CASE Kind[c] = "approve"
  <2> DEFINE p == ProposalOf[c]
  <2>1. /\ Once(c) /\ ~Refused(c, base[w]) /\ base[w] = row /\ SavedProposals(c) = {p}
        /\ Saves(c, base[w]) /\ After(row, c) = Corrected(row, p)
    BY <1>2, <1>12 DEF Once, Refused, SavedProposals, Saves, After
  <2>2. Atomic!AcceptOnce(c, n)
    BY <1>7, <2>1
  <2>3. matches' = [matches EXCEPT ![Atomic!TargetOf(c)] = Atomic!Corrected(@, p)]
    BY <1>1, <2>1, AtomicDomain DEF m, row
  <2>4. proposals' = [proposals EXCEPT ![p] = Atomic!ApprovedAt(Atomic!Current(c).version + 1)]
    BY <1>1, <1>4, <1>5, <1>6, <1>12, <2>1 DEF ApprovedAt, Atomic!ApprovedAt
  <2>5. Atomic!Exists(Atomic!Current(c)) /\ Atomic!CanCorrect(Atomic!Current(c), p)
    BY <1>1, <1>6, <1>12, <2>1, AtomicDomain DEF Accepts
  <2>6. Atomic!ApproveCorrection(c, n)
    BY <1>2, <1>12, <2>1, <2>2, <2>3, <2>4, <2>5 DEF Atomic!ApproveCorrection
  <2> QED BY <1>1, <1>3, <2>6 DEF Atomic!Next
<1>13. CASE Kind[c] = "derive"
  <2>1. /\ Once(c) /\ ~Refused(c, base[w]) /\ SavedProposals(c) = {} /\ ~Saves(c, base[w])
    BY <1>2, <1>13 DEF Once, Refused, SavedProposals, Saves
  <2>2. EventsOf(c, n, base[w]) = EventsOf(c, n, row)
    BY <1>13 DEF EventsOf
  <2>3. Atomic!AcceptOnce(c, n)
    BY <1>7, <2>1, <2>2
  <2>4. Atomic!Derive(c, n)
    BY <1>1, <1>2, <1>5, <1>13, <2>1, <2>3 DEF Atomic!Derive
  <2> QED BY <1>1, <1>3, <2>4 DEF Atomic!Next
\* What is not remembered: a refusal, a publication, a backfill.
<1>14. ASSUME ~Saves(c, base[w]), SavedProposals(c) = {}, ~Once(c) \/ Refused(c, base[w]),
              EventsOf(c, n, base[w]) = EventsOf(c, n, row)
       PROVE  /\ UNCHANGED <<matches, proposals, processed>>
              /\ outbox' = Atomic!Appended(outbox, Atomic!EventsOf(c, n, Atomic!Current(c)))
  BY <1>1, <1>2, <1>5, <1>6, <1>14, AtomicDomain DEF Atomic!Appended, Appended
<1>15. CASE Kind[c] = "finalize" /\ ~CanFinalize(row, c)
  <2>1. /\ base[w] = row /\ Once(c) /\ Refused(c, base[w])
        /\ SavedProposals(c) = {} /\ ~Saves(c, base[w])
    BY <1>2, <1>15 DEF Once, Refused, SavedProposals, Saves
  <2>2. Exists(row)
    BY <1>2, <1>15, <2>1
  <2>3. Atomic!RefuseFinalization(c, n)
    BY <1>2, <1>6, <1>14, <1>15, <2>1, <2>2, AtomicDomain DEF Atomic!RefuseFinalization
  <2> QED BY <1>1, <1>3, <2>3 DEF Atomic!Next
<1>16. CASE Kind[c] = "publish"
  <2>1. ~Once(c) /\ SavedProposals(c) = {} /\ ~Saves(c, base[w])
    BY <1>16 DEF Once, SavedProposals, Saves
  <2>2. EventsOf(c, n, base[w]) = EventsOf(c, n, row)
    BY <1>16 DEF EventsOf
  <2>3. Atomic!CreatePublication(c, n)
    BY <1>2, <1>14, <1>16, <2>1, <2>2 DEF Atomic!CreatePublication
  <2> QED BY <1>1, <1>3, <2>3 DEF Atomic!Next
<1>17. CASE Kind[c] = "backfill"
  <2>1. ~Once(c) /\ SavedProposals(c) = {} /\ ~Saves(c, base[w])
    BY <1>17 DEF Once, SavedProposals, Saves
  <2>2. EventsOf(c, n, base[w]) = EventsOf(c, n, row)
    BY <1>17 DEF EventsOf
  <2>3. Atomic!BackfillSeason(c, n)
    BY <1>2, <1>14, <1>17, <2>1, <2>2 DEF Atomic!BackfillSeason
  <2> QED BY <1>1, <1>3, <2>3 DEF Atomic!Next
<1> QED
  BY <1>4, <1>8, <1>9, <1>10, <1>11, <1>12, <1>13, <1>15, <1>16, <1>17 DEF Kinds

\* "ONE transaction (state + events + idempotency)": on SQLite command execution
\* implements the atomic commands of the API, each at its COMMIT, on the rows
\* as they are then and with an idempotency record never again.
THEOREM ExecutionIsAtomic ==
  ASSUME Backend = "sqlite"
  PROVE  Spec => CommandsAreAtomic
<1>1. WorkerInv /\ SerialInv /\ BoundInv /\ [Next]_vars => [Atomic!Next]_Atomic!vars
  <2>1. UNCHANGED tables => UNCHANGED Atomic!vars
    BY DEF tables, Atomic!vars
  <2> QED BY <2>1, CommitAtomic, OnlyCommitWrites
<1> QED
  BY <1>1, InitAtomic, SerialInvariant, WorkerInvariant, BoundInvariant, PTL
  DEF Spec, CommandsAreAtomic, Atomic!Spec
=============================================================================

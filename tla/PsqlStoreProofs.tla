-------------------------- MODULE PsqlStoreProofs --------------------------
(***************************************************************************)
(* Proofs about PsqlStore for every number of flows, samples, Commits,     *)
(* sessions and failures: its types, the samples it takes refer to flows   *)
(* of their own session, and it does what SampleStore promises.            *)
(***************************************************************************)
EXTENDS PsqlStore, SequenceTheorems, TLAPS

States == {"open", "aborted", "committed", "failed"}

SampleRecord == [n : Nat, session : Nat, flow_id : Nat]
Transactions == [state : States, rows : SUBSET SampleRecord]

FlowTable == Seq([session : Nat, flow : Flows])

\* The types the proofs need: those of TypeOK, without its bounds.
Typed ==
    /\ txs \in [Kinds -> Seq(Transactions)]
    /\ tx \in [Kinds -> Nat]
    /\ stmt \in [Kinds -> Nat]
    /\ \A k \in Kinds : tx[k] = Len(txs[k]) /\ tx[k] >= 1 /\ stmt[k] <= tx[k]
    /\ at \in [Kinds -> [Steps -> Nat]]
    /\ db_flows \in FlowTable
    /\ cache \in [Flows -> Nat \cup {NoFlow}]
    /\ handed \in [Flows -> Nat]
    /\ session \in Nat
    /\ samples \in Nat

\* A Flow_id that was set in this session.
OfSession(id) == id \in DOMAIN db_flows /\ db_flows[id].session = session

\* What the cache and the flows of the aggregation hold was set in this
\* session, or never.  An id that was never set is not handed out.
FlowsFresh ==
    /\ \A f \in Flows : cache[f] \in {NoFlow, NoId} \/ OfSession(cache[f])
    /\ \A f \in Flows : handed[f] = NoId \/ OfSession(handed[f])

-----------------------------------------------------------------------------
(* The steps of a goroutine of Commit.                                     *)

\* A move takes one goroutine of one kind from one step to another.
LEMMA MovesFacts ==
    ASSUME Typed, NEW k \in Kinds, NEW from \in Steps, NEW to \in Steps, from # to,
           Moves(k, from, to)
    PROVE  /\ at' \in [Kinds -> [Steps -> Nat]]
           /\ \A j \in Kinds : j # k => at'[j] = at[j]
           /\ at'[k][from] = at[k][from] - 1
           /\ at'[k][to] = at[k][to] + 1
           /\ \A s \in Steps \ {from, to} : at'[k][s] = at[k][s]
<1>1. at \in [Kinds -> [Steps -> Nat]] /\ at[k] \in [Steps -> Nat] /\ at[k][from] - 1 \in Nat
  BY DEF Typed, Moves
<1>2. at' = [at EXCEPT ![k][from] = at[k][from] - 1, ![k][to] = at[k][to] + 1]
  BY <1>1 DEF Moves
<1>3. QED
  BY <1>1, <1>2

\* A return takes one goroutine of one kind away.
LEMMA ReturnsFacts ==
    ASSUME Typed, NEW k \in Kinds, NEW from \in Steps, Returns(k, from)
    PROVE  /\ at' \in [Kinds -> [Steps -> Nat]]
           /\ \A j \in Kinds : j # k => at'[j] = at[j]
           /\ at'[k][from] = at[k][from] - 1
           /\ \A s \in Steps \ {from} : at'[k][s] = at[k][s]
<1>1. at \in [Kinds -> [Steps -> Nat]] /\ at[k] \in [Steps -> Nat] /\ at[k][from] - 1 \in Nat
  BY DEF Typed, Returns
<1>2. QED
  BY <1>1 DEF Returns

-----------------------------------------------------------------------------
(* The transactions.                                                       *)

\* Only transaction i of kind k changes, into t.
Changes(k, i, t) == txs' = [txs EXCEPT ![k][i] = t]

\* One transaction of one kind is replaced by another.
LEMMA ChangesFacts ==
    ASSUME Typed, NEW k \in Kinds, NEW i \in 1..Len(txs[k]), NEW t \in Transactions,
           Changes(k, i, t)
    PROVE  /\ txs' \in [Kinds -> Seq(Transactions)]
           /\ \A j \in Kinds : j # k => txs'[j] = txs[j]
           /\ Len(txs'[k]) = Len(txs[k])
           /\ DOMAIN txs'[k] = DOMAIN txs[k]
           /\ txs'[k][i] = t
           /\ \A j \in DOMAIN txs[k] : j # i => txs'[k][j] = txs[k][j]
<1>1. txs[k] \in Seq(Transactions) /\ txs \in [Kinds -> Seq(Transactions)]
  BY DEF Typed
<1>2. [txs[k] EXCEPT ![i] = t] \in Seq(Transactions)
  BY <1>1
<1>3. txs' = [txs EXCEPT ![k] = [txs[k] EXCEPT ![i] = t]]
  BY DEF Changes
<1>4. QED
  BY <1>1, <1>2, <1>3

\* The transactions are numbered from one, the current one is the last.
LEMMA TxFacts ==
    ASSUME Typed, NEW k \in Kinds
    PROVE  /\ txs[k] \in Seq(Transactions)
           /\ tx[k] \in 1..Len(txs[k])
           /\ txs[k][tx[k]] \in Transactions
           /\ stmt[k] # 0 => stmt[k] \in 1..Len(txs[k]) /\ txs[k][stmt[k]] \in Transactions
BY DEF Typed

\* A transaction with another state, or with one more row.
InState(t, state) == [state |-> state, rows |-> t.rows]
WithRow(t, row) == [state |-> t.state, rows |-> t.rows \cup {row}]

\* EXCEPT on a transaction, as a record.
LEMMA RecordFacts ==
    ASSUME NEW t \in Transactions, NEW x
    PROVE  /\ [t EXCEPT !.rows = x] = [state |-> t.state, rows |-> x]
           /\ [t EXCEPT !.state = x] = [state |-> x, rows |-> t.rows]
BY DEF Transactions

\* The actions that change a transaction, in terms of Changes.
LEMMA TakenChanges ==
    ASSUME Typed, NEW k \in Kinds, SampleTaken(k)
    PROVE  \E id \in Carried(k) :
               /\ id \in Nat
               /\ NextSample(k, id) \in SampleRecord
               /\ WithRow(txs[k][stmt[k]], NextSample(k, id)) \in Transactions
               /\ Changes(k, stmt[k], WithRow(txs[k][stmt[k]], NextSample(k, id)))
<1>1. PICK id \in Carried(k) :
          txs' = [txs EXCEPT ![k][stmt[k]].rows = @ \cup {NextSample(k, id)}]
  BY DEF SampleTaken
<1>2. stmt[k] \in 1..Len(txs[k]) /\ txs[k] \in Seq(Transactions)
      /\ txs[k][stmt[k]] \in Transactions
  BY TxFacts DEF SampleTaken
<1>3. id \in Nat
  BY <1>1 DEF Carried, Typed, NoId
<1>4. NextSample(k, id) \in SampleRecord
  BY <1>3 DEF NextSample, SampleRecord, Typed
<1>5. WithRow(txs[k][stmt[k]], NextSample(k, id)) \in Transactions
  BY <1>2, <1>4 DEF WithRow, Transactions
<1>6. WithRow(txs[k][stmt[k]], NextSample(k, id))
          = [txs[k][stmt[k]] EXCEPT !.rows = @ \cup {NextSample(k, id)}]
  BY <1>2, RecordFacts DEF WithRow
<1>7. Changes(k, stmt[k], WithRow(txs[k][stmt[k]], NextSample(k, id)))
  BY <1>1, <1>6 DEF Changes
<1>8. QED
  BY <1>1, <1>3, <1>4, <1>5, <1>7

\* A statement that fails aborts the transaction it is prepared in.
LEMMA FailsChanges ==
    ASSUME Typed, NEW k \in Kinds, SampleFails(k)
    PROVE  /\ stmt[k] \in 1..Len(txs[k])
           /\ InState(txs[k][stmt[k]], "aborted") \in Transactions
           /\ Changes(k, stmt[k], InState(txs[k][stmt[k]], "aborted"))
<1>1. stmt[k] \in 1..Len(txs[k]) /\ txs[k][stmt[k]] \in Transactions
  BY TxFacts DEF SampleFails
<1>2. InState(txs[k][stmt[k]], "aborted") \in Transactions
  BY <1>1 DEF InState, Transactions, States
<1>3. InState(txs[k][stmt[k]], "aborted") = [txs[k][stmt[k]] EXCEPT !.state = "aborted"]
  BY <1>1 DEF InState, Transactions
<1>4. QED
  BY <1>1, <1>2, <1>3 DEF SampleFails, Changes

\* A commit changes the state of the current transaction only.
LEMMA CommitsChanges ==
    ASSUME Typed, NEW k \in Kinds, TxCommits(k)
    PROVE  /\ InState(txs[k][tx[k]], "committed") \in Transactions
           /\ Changes(k, tx[k], InState(txs[k][tx[k]], "committed"))
<1>1. tx[k] \in 1..Len(txs[k]) /\ txs[k][tx[k]] \in Transactions
  BY TxFacts
<1>2. InState(txs[k][tx[k]], "committed") \in Transactions
  BY <1>1 DEF InState, Transactions, States
<1>3. InState(txs[k][tx[k]], "committed") = [txs[k][tx[k]] EXCEPT !.state = "committed"]
  BY <1>1 DEF InState, Transactions
<1>4. Changes(k, tx[k], InState(txs[k][tx[k]], "committed"))
  BY <1>3 DEF TxCommits, Changes
<1>5. QED
  BY <1>2, <1>4

\* So does a commit that fails; a transaction stays committed.
LEMMA DropsChanges ==
    ASSUME Typed, NEW k \in Kinds, TxFails(k)
    PROVE  LET state == IF txs[k][tx[k]].state = "committed" THEN "committed" ELSE "failed"
           IN  /\ InState(txs[k][tx[k]], state) \in Transactions
               /\ Changes(k, tx[k], InState(txs[k][tx[k]], state))
<1> DEFINE state == IF txs[k][tx[k]].state = "committed" THEN "committed" ELSE "failed"
<1>1. tx[k] \in 1..Len(txs[k]) /\ txs[k][tx[k]] \in Transactions
  BY TxFacts
<1>2. InState(txs[k][tx[k]], state) \in Transactions
  BY <1>1 DEF InState, Transactions, States
<1>3. InState(txs[k][tx[k]], state)
          = [txs[k][tx[k]] EXCEPT !.state = IF @ = "committed" THEN @ ELSE "failed"]
  BY <1>1 DEF InState, Transactions
<1>4. Changes(k, tx[k], InState(txs[k][tx[k]], state))
  BY <1>3 DEF TxFails, Changes
<1>5. QED
  BY <1>2, <1>4

-----------------------------------------------------------------------------
(* The flows.                                                              *)

\* Sync leaves a row for the flow in the table and keeps the other rows.
LEMMA SyncedFacts ==
    ASSUME Typed, NEW f \in Flows, FlowSynced(f)
    PROVE  /\ db_flows' \in FlowTable
           /\ \A i \in DOMAIN db_flows : i \in DOMAIN db_flows' /\ db_flows'[i] = db_flows[i]
           /\ \E id \in DOMAIN db_flows' :
                  /\ db_flows'[id] = Row(f)
                  /\ cache' = [cache EXCEPT ![f] = id]
                  /\ handed' = [handed EXCEPT ![f] = id]
<1>1. db_flows \in FlowTable /\ Row(f) \in [session : Nat, flow : Flows]
  BY DEF Typed, Row
<1>2. CASE Found(f) = {}
  <2>1. db_flows' = Append(db_flows, Row(f))
    BY <1>2 DEF FlowSynced
  <2>2. /\ db_flows' \in FlowTable
        /\ Len(db_flows') = Len(db_flows) + 1
        /\ db_flows'[Len(db_flows) + 1] = Row(f)
        /\ \A i \in 1..Len(db_flows) : db_flows'[i] = db_flows[i]
    BY <1>1, <2>1 DEF FlowTable
  <2>3. DOMAIN db_flows = 1..Len(db_flows) /\ DOMAIN db_flows' = 1..(Len(db_flows) + 1)
        /\ Len(db_flows) \in Nat
    BY <1>1, <2>2 DEF FlowTable
  <2>4. /\ cache' = [cache EXCEPT ![f] = Len(db_flows) + 1]
        /\ handed' = [handed EXCEPT ![f] = Len(db_flows) + 1]
    BY <1>2 DEF FlowSynced
  <2>5. Len(db_flows) + 1 \in DOMAIN db_flows'
    BY <2>3
  <2>6. \A i \in DOMAIN db_flows : i \in DOMAIN db_flows' /\ db_flows'[i] = db_flows[i]
    BY <2>2, <2>3
  <2>7. QED
    BY <2>2, <2>4, <2>5, <2>6
<1>3. CASE Found(f) # {}
  <2>1. db_flows' = db_flows
    BY <1>3 DEF FlowSynced
  <2>2. PICK id \in Found(f) :
            /\ cache' = [cache EXCEPT ![f] = id]
            /\ handed' = [handed EXCEPT ![f] = id]
    BY <1>3 DEF FlowSynced
  <2>3. id \in DOMAIN db_flows' /\ db_flows'[id] = Row(f)
    BY <2>1, <2>2 DEF Found
  <2>4. QED
    BY <1>1, <2>1, <2>2, <2>3
<1>4. QED
  BY <1>2, <1>3

-----------------------------------------------------------------------------

\* What prep_bulk_stmts leaves has the types.
LEMMA TypedInit == Init => Typed
<1> SUFFICES ASSUME Init PROVE Typed
  OBVIOUS
<1>1. Open \in Transactions
  BY DEF Open, Transactions, States
<1>2. <<Open>> \in Seq(Transactions) /\ Len(<<Open>>) = 1
  BY <1>1
<1>3. /\ txs \in [Kinds -> Seq(Transactions)]
      /\ \A k \in Kinds : tx[k] = Len(txs[k]) /\ tx[k] >= 1 /\ stmt[k] <= tx[k]
  BY <1>2 DEF Init
<1>4. db_flows \in FlowTable
  BY DEF Init, FlowTable
<1>5. QED
  BY <1>3, <1>4 DEF Init, Typed, NoFlow, NoId

\* The part of Typed that the actions on flows have to keep.
LEMMA TypedFlows ==
    ASSUME Typed, UNCHANGED <<bulk, samples>>,
           db_flows' \in FlowTable,
           cache' \in [Flows -> Nat \cup {NoFlow}],
           handed' \in [Flows -> Nat],
           session' \in Nat
    PROVE  Typed'
BY DEF Typed, bulk

\* The part of Typed that the actions on transactions have to keep.
LEMMA TypedBulk ==
    ASSUME Typed, UNCHANGED flows,
           txs' \in [Kinds -> Seq(Transactions)],
           tx' \in [Kinds -> Nat],
           stmt' \in [Kinds -> Nat],
           \A k \in Kinds : tx'[k] = Len(txs'[k]) /\ tx'[k] >= 1 /\ stmt'[k] <= tx'[k],
           at' \in [Kinds -> [Steps -> Nat]],
           samples' \in Nat
    PROVE  Typed'
BY DEF Typed, flows

\* A change of one transaction keeps the number of transactions.
LEMMA TypedChange ==
    ASSUME Typed, NEW k \in Kinds, NEW i \in 1..Len(txs[k]), NEW t \in Transactions,
           Changes(k, i, t), UNCHANGED <<tx, stmt, flows>>,
           at' \in [Kinds -> [Steps -> Nat]], samples' \in Nat
    PROVE  Typed'
<1>1. txs' \in [Kinds -> Seq(Transactions)] /\ \A j \in Kinds : Len(txs'[j]) = Len(txs[j])
  BY ChangesFacts
<1>2. QED
  BY <1>1, TypedBulk DEF Typed

\* Types are kept by every step.
LEMMA TypedNext == Typed /\ [Next]_vars => Typed'
<1> SUFFICES ASSUME Typed, [Next]_vars PROVE Typed'
  OBVIOUS
<1>1. ASSUME NEW f \in Flows, FlowCached(f) PROVE Typed'
  <2>1. handed' \in [Flows -> Nat]
    BY <1>1 DEF FlowCached, Typed
  <2>2. QED
    BY <1>1, <2>1, TypedFlows DEF FlowCached, Typed, calls
<1>2. ASSUME NEW f \in Flows, FlowSynced(f) PROVE Typed'
  <2>1. PICK id \in DOMAIN db_flows' :
            /\ cache' = [cache EXCEPT ![f] = id]
            /\ handed' = [handed EXCEPT ![f] = id]
    BY <1>2, SyncedFacts
  <2>2. db_flows' \in FlowTable
    BY <1>2, SyncedFacts
  <2>3. id \in Nat
    BY <2>1, <2>2 DEF FlowTable
  <2>4. cache' \in [Flows -> Nat \cup {NoFlow}] /\ handed' \in [Flows -> Nat]
    BY <2>1, <2>3 DEF Typed
  <2>5. QED
    BY <1>2, <2>2, <2>4, TypedFlows DEF FlowSynced, Typed, calls
<1>3. ASSUME NEW f \in Flows, FlowFails(f) PROVE Typed'
  BY <1>3, TypedFlows DEF FlowFails, Typed, NoId
<1>4. CASE NextSession
  BY <1>4, TypedFlows DEF NextSession, Typed, NoId, calls
<1>5. ASSUME NEW k \in Kinds, SampleTaken(k) PROVE Typed'
  <2>1. PICK id \in Carried(k) :
            /\ WithRow(txs[k][stmt[k]], NextSample(k, id)) \in Transactions
            /\ Changes(k, stmt[k], WithRow(txs[k][stmt[k]], NextSample(k, id)))
    BY <1>5, TakenChanges
  <2>2. stmt[k] \in 1..Len(txs[k])
    BY <1>5, TxFacts DEF SampleTaken
  <2>3. samples' \in Nat /\ at' \in [Kinds -> [Steps -> Nat]]
    BY <1>5 DEF SampleTaken, Typed
  <2>4. QED
    BY <1>5, <2>1, <2>2, <2>3, TypedChange DEF SampleTaken
<1>6. ASSUME NEW k \in Kinds, SampleRefused(k) PROVE Typed'
  BY <1>6 DEF SampleRefused, Typed, bulk, flows
<1>7. ASSUME NEW k \in Kinds, SampleFails(k) PROVE Typed'
  <2>1. samples' \in Nat /\ at' \in [Kinds -> [Steps -> Nat]]
    BY <1>7 DEF SampleFails, Typed
  <2>2. UNCHANGED <<tx, stmt, flows>>
    BY <1>7 DEF SampleFails
  <2>3. QED
    BY <1>7, <2>1, <2>2, FailsChanges, TypedChange
<1>8. ASSUME NEW k \in Kinds, SamplePanics(k) PROVE Typed'
  BY <1>8 DEF SamplePanics, Typed, bulk, flows, calls
<1>9. CASE Commit
  <2>1. at' \in [Kinds -> [Steps -> Nat]]
    BY <1>9 DEF Commit, Typed, Steps
  <2>2. QED
    BY <1>9, <2>1 DEF Commit, Typed, flows
<1>10. ASSUME NEW k \in Kinds, Lock(k) PROVE Typed'
  <2>1. at' \in [Kinds -> [Steps -> Nat]]
    BY <1>10, MovesFacts DEF Lock, Steps
  <2>2. QED
    BY <1>10, <2>1 DEF Lock, Typed, flows, calls
<1>11. ASSUME NEW k \in Kinds, TxCommits(k) PROVE Typed'
  <2>1. at' \in [Kinds -> [Steps -> Nat]] /\ samples' \in Nat
    BY <1>11, MovesFacts DEF TxCommits, Typed, calls, Steps
  <2>2. QED
    BY <1>11, <2>1, CommitsChanges, TxFacts, TypedChange DEF TxCommits
<1>12. ASSUME NEW k \in Kinds, TxFails(k) PROVE Typed'
  <2>1. AfterExit("begin") \in Steps /\ AfterExit("begin") # "commit" /\ "commit" \in Steps
    BY DEF AfterExit, Steps
  <2>2. at' \in [Kinds -> [Steps -> Nat]] /\ samples' \in Nat
    BY <1>12, <2>1, MovesFacts DEF TxFails, Typed
  <2>3. QED
    BY <1>12, <2>2, DropsChanges, TxFacts, TypedChange DEF TxFails
<1>13. ASSUME NEW k \in Kinds, Begin(k) PROVE Typed'
  <2>1. at' \in [Kinds -> [Steps -> Nat]]
    BY <1>13, MovesFacts DEF Begin, Steps
  <2>2. Open \in Transactions
    BY DEF Open, Transactions, States
  <2>3. Append(txs[k], Open) \in Seq(Transactions) /\ Len(Append(txs[k], Open)) = tx[k] + 1
    BY <2>2 DEF Typed
  <2>4. /\ txs' = [txs EXCEPT ![k] = Append(txs[k], Open)]
        /\ tx' = [tx EXCEPT ![k] = tx[k] + 1]
    BY <1>13, <2>3 DEF Begin, Typed
  <2>5. /\ txs' \in [Kinds -> Seq(Transactions)]
        /\ tx' \in [Kinds -> Nat]
        /\ \A j \in Kinds : tx'[j] = Len(txs'[j]) /\ tx'[j] >= 1 /\ stmt[j] <= tx'[j]
    BY <2>3, <2>4 DEF Typed
  <2>6. QED
    BY <1>13, <2>1, <2>5 DEF Begin, Typed, flows, calls
<1>14. ASSUME NEW k \in Kinds, BeginFails(k) PROVE Typed'
  <2>1. at' \in [Kinds -> [Steps -> Nat]]
    BY <1>14, MovesFacts DEF BeginFails, Steps
  <2>2. QED
    BY <1>14, <2>1 DEF BeginFails, Typed, flows
<1>15. ASSUME NEW k \in Kinds, Prepare(k) PROVE Typed'
  <2>1. at' \in [Kinds -> [Steps -> Nat]]
    BY <1>15, ReturnsFacts DEF Prepare, Steps
  <2>2. stmt' \in [Kinds -> Nat] /\ \A j \in Kinds : stmt'[j] <= tx[j]
    BY <1>15 DEF Prepare, Typed
  <2>3. QED
    BY <1>15, <2>1, <2>2, TypedBulk DEF Prepare, Typed, calls
<1>16. ASSUME NEW k \in Kinds, PrepareFails(k) PROVE Typed'
  <2>1. at' \in [Kinds -> [Steps -> Nat]]
    BY <1>16, ReturnsFacts DEF PrepareFails, Steps
  <2>2. stmt' \in [Kinds -> Nat] /\ \A j \in Kinds : stmt'[j] <= tx[j]
    BY <1>16 DEF PrepareFails, Typed
  <2>3. QED
    BY <1>16, <2>1, <2>2, TypedBulk DEF PrepareFails, Typed
<1>17. CASE ProcessEnds
  BY <1>17 DEF ProcessEnds, Typed, bulk, flows, calls
<1>18. CASE UNCHANGED vars
  BY <1>18 DEF vars, Typed, bulk, flows, calls
<1>19. QED
  BY <1>1, <1>2, <1>3, <1>4, <1>5, <1>6, <1>7, <1>8, <1>9, <1>10, <1>11, <1>12,
     <1>13, <1>14, <1>15, <1>16, <1>17, <1>18
     DEF Next, PersistFlow, PersistSample, Committing, Gone

\* The types hold always.
LEMMA TypedCorrect == Spec => []Typed
BY TypedInit, TypedNext, PTL DEF Spec

-----------------------------------------------------------------------------

\* What an id stands for is kept when the table grows within the session.
LEMMA OfSessionKept ==
    ASSUME NEW id, OfSession(id), session' = session,
           \A i \in DOMAIN db_flows : i \in DOMAIN db_flows' /\ db_flows'[i] = db_flows[i]
    PROVE  OfSession(id)'
BY DEF OfSession

\* FlowsFresh is inductive: ClearCache comes with every new session.
LEMMA FreshNext == Typed /\ FlowsFresh /\ [Next]_vars => FlowsFresh'
<1> SUFFICES ASSUME Typed, FlowsFresh, [Next]_vars PROVE FlowsFresh'
  OBVIOUS
<1>1. ASSUME NEW f \in Flows, FlowCached(f) PROVE FlowsFresh'
  BY <1>1 DEF FlowCached, FlowsFresh, OfSession, Typed
<1>2. ASSUME NEW f \in Flows, FlowSynced(f) PROVE FlowsFresh'
  <2>1. PICK id \in DOMAIN db_flows' :
            /\ db_flows'[id] = Row(f)
            /\ cache' = [cache EXCEPT ![f] = id]
            /\ handed' = [handed EXCEPT ![f] = id]
    BY <1>2, SyncedFacts
  <2>2. session' = session
    BY <1>2 DEF FlowSynced
  <2>3. OfSession(id)'
    BY <2>1, <2>2 DEF OfSession, Row
  <2>4. \A i : OfSession(i) => OfSession(i)'
    BY <1>2, <2>2, SyncedFacts, OfSessionKept
  <2>5. QED
    BY <2>1, <2>3, <2>4 DEF FlowsFresh, Typed
<1>3. ASSUME NEW f \in Flows, FlowFails(f) PROVE FlowsFresh'
  BY <1>3 DEF FlowFails, FlowsFresh, OfSession, Typed
<1>4. CASE NextSession
  BY <1>4 DEF NextSession, FlowsFresh
<1>5. CASE UNCHANGED flows
  BY <1>5 DEF flows, FlowsFresh, OfSession
<1>6. QED
  BY <1>1, <1>2, <1>3, <1>4, <1>5
     DEF Next, PersistFlow, PersistSample, Committing, Gone, vars,
         SampleTaken, SampleRefused, SampleFails, SamplePanics, Commit, Lock,
         TxCommits, TxFails, Begin, BeginFails, Prepare, PrepareFails, ProcessEnds

(***************************************************************************)
(* RowsReferToFlows is inductive: a new row takes its id from a flow of    *)
(* the session, and no other step adds a row or removes a flow.            *)
(***************************************************************************)
LEMMA RowsNext == Typed /\ FlowsFresh /\ RowsReferToFlows /\ [Next]_vars => RowsReferToFlows'
<1> SUFFICES ASSUME Typed, FlowsFresh, RowsReferToFlows, [Next]_vars
             PROVE  RowsReferToFlows'
  OBVIOUS
<1> DEFINE Fine(r) == r.flow_id \in DOMAIN db_flows /\ db_flows[r.flow_id].session = r.session
<1>0. "packet" \in Kinds
  BY DEF Kinds
<1>1. ASSUME NEW f \in Flows, FlowSynced(f) PROVE RowsReferToFlows'
  <2>1. txs' = txs
    BY <1>1 DEF FlowSynced, bulk
  <2>2. QED
    BY <1>1, <2>1, SyncedFacts DEF RowsReferToFlows
<1>2. ASSUME NEW k \in Kinds, SampleTaken(k) PROVE RowsReferToFlows'
  <2>1. PICK id \in Carried(k) :
            /\ WithRow(txs[k][stmt[k]], NextSample(k, id)) \in Transactions
            /\ Changes(k, stmt[k], WithRow(txs[k][stmt[k]], NextSample(k, id)))
    BY <1>2, TakenChanges
  <2>2. stmt[k] \in 1..Len(txs[k]) /\ db_flows' = db_flows
    BY <1>2, TxFacts DEF SampleTaken, flows
  <2>3. CASE k # "packet"
    BY <1>0, <2>1, <2>2, <2>3, ChangesFacts DEF RowsReferToFlows
  <2>4. CASE k = "packet"
    <3>1. Fine(NextSample(k, id))
      BY <2>1, <2>4 DEF Carried, NextSample, FlowsFresh, OfSession
    <3>2. \A i \in DOMAIN txs[k] : \A r \in txs'[k][i].rows :
              r = NextSample(k, id) \/ r \in txs[k][i].rows
      BY <2>1, <2>2, ChangesFacts DEF WithRow
    <3>3. DOMAIN txs'[k] = DOMAIN txs[k]
      BY <2>1, <2>2, ChangesFacts
    <3>4. QED
      BY <2>2, <2>4, <3>1, <3>2, <3>3 DEF RowsReferToFlows
  <2>5. QED
    BY <2>3, <2>4
<1>3. ASSUME NEW k \in Kinds, NEW i \in 1..Len(txs[k]), NEW state,
             InState(txs[k][i], state) \in Transactions,
             Changes(k, i, InState(txs[k][i], state)), db_flows' = db_flows
      PROVE  RowsReferToFlows'
  <2>1. \A j \in DOMAIN txs[k] : txs'[k][j].rows = txs[k][j].rows
    BY <1>3, ChangesFacts DEF InState
  <2>2. DOMAIN txs'[k] = DOMAIN txs[k] /\ \A j \in Kinds : j # k => txs'[j] = txs[j]
    BY <1>3, ChangesFacts
  <2>3. QED
    BY <1>0, <1>3, <2>1, <2>2 DEF RowsReferToFlows
<1>4. ASSUME NEW k \in Kinds, SampleFails(k) PROVE RowsReferToFlows'
  BY <1>3, <1>4, FailsChanges DEF SampleFails, flows
<1>5. ASSUME NEW k \in Kinds, TxCommits(k) PROVE RowsReferToFlows'
  BY <1>3, <1>5, CommitsChanges, TxFacts DEF TxCommits, flows
<1>6. ASSUME NEW k \in Kinds, TxFails(k) PROVE RowsReferToFlows'
  BY <1>3, <1>6, DropsChanges, TxFacts DEF TxFails, flows
<1>7. ASSUME NEW k \in Kinds, Begin(k) PROVE RowsReferToFlows'
  <2>1. db_flows' = db_flows /\ txs' = [txs EXCEPT ![k] = Append(txs[k], Open)]
    BY <1>7 DEF Begin, flows
  <2>2. \A i \in DOMAIN txs'["packet"] :
            \/ txs'["packet"][i].rows = {}
            \/ i \in DOMAIN txs["packet"] /\ txs'["packet"][i] = txs["packet"][i]
    BY <1>0, <2>1 DEF Typed, Open
  <2>3. QED
    BY <2>1, <2>2 DEF RowsReferToFlows
<1>8. CASE UNCHANGED <<txs, db_flows>>
  BY <1>8 DEF RowsReferToFlows
<1>9. QED
  BY <1>1, <1>2, <1>4, <1>5, <1>6, <1>7, <1>8
     DEF Next, PersistFlow, PersistSample, Committing, Gone, vars, bulk, flows,
         FlowCached, FlowFails, NextSession, SampleRefused, SamplePanics, Commit,
         Lock, BeginFails, Prepare, PrepareFails, ProcessEnds

(***************************************************************************)
(* Every packet sample in a transaction refers to a row of network_flow of *)
(* its own session, however often a Sync fails and whatever is cached.     *)
(***************************************************************************)
THEOREM RowsCorrect == Spec => []RowsReferToFlows
<1>1. Init => FlowsFresh /\ RowsReferToFlows
  BY DEF Init, FlowsFresh, RowsReferToFlows, Open, Kinds
<1>2. QED
  BY <1>1, FreshNext, RowsNext, TypedCorrect, PTL DEF Spec

-----------------------------------------------------------------------------
(* The goroutines of Commit, one after the other.                          *)

\* A transaction that takes no rows any more.
Finished == {"committed", "failed"}

\* The goroutines of a kind that hold its mutex, and all of them.
Holding(k) == at[k]["commit"] + at[k]["begin"] + at[k]["prepare"] + at[k]["exit"]
Started(k) == at[k]["lock"] + Holding(k)

\* One goroutine of a kind holds the mutex, and each transaction is finished
\* before the next one begins.
Serial ==
    \A k \in Kinds :
        /\ Holding(k) <= 1
        /\ at[k]["begin"] > 0 => txs[k][tx[k]].state \in Finished
        /\ \A i \in 1..(tx[k] - 1) : txs[k][i].state \in Finished

\* What counts up to the bounds of the model.
Counters ==
    /\ program \in Programs
    /\ process \in {"running", "exiting", "gone"}
    /\ aggregating \in BOOLEAN
    /\ session \in 1..MaxSessions
    /\ samples \in 0..MaxSamples
    /\ commits \in 0..MaxCommits
    /\ faults \in 0..MaxFaults

\* Every goroutine was started by a Commit.
StartedByCommit == \A k \in Kinds : Started(k) <= commits

\* The ids of flows are those of rows in the table.
IdsOfTable ==
    /\ \A i \in DOMAIN db_flows : db_flows[i].session \in 1..MaxSessions
    /\ \A f \in Flows : cache[f] <= Len(db_flows) /\ handed[f] <= Len(db_flows)

\* The rows of the transactions are of samples and sessions there were.
RowsKnown ==
    \A k \in Kinds : \A i \in DOMAIN txs[k] : \A r \in txs[k][i].rows :
        /\ r.n \in 1..samples
        /\ r.session \in 1..MaxSessions
        /\ r.flow_id <= Len(db_flows)

-----------------------------------------------------------------------------

(***************************************************************************)
(* How the steps of Commit change the number of goroutines.                *)
(***************************************************************************)
LEMMA MovesCount ==
    ASSUME Typed, NEW k \in Kinds, NEW from \in Steps, NEW to \in Steps \ {"lock"}, from # to,
           Moves(k, from, to)
    PROVE  /\ \A j \in Kinds : j # k => at'[j] = at[j]
           /\ Started(k)' = Started(k)
           /\ Holding(k)' = Holding(k) + (IF from = "lock" THEN 1 ELSE 0)
           /\ at[k][from] > 0 /\ at'[k][from] = at[k][from] - 1 /\ at'[k][to] = at[k][to] + 1
           /\ \A s \in Steps \ {from, to} : at'[k][s] = at[k][s]
<1>1. /\ \A s \in Steps : at[k][s] \in Nat
      /\ \A j \in Kinds : j # k => at'[j] = at[j]
      /\ at[k][from] > 0 /\ at'[k][from] = at[k][from] - 1 /\ at'[k][to] = at[k][to] + 1
      /\ \A s \in Steps \ {from, to} : at'[k][s] = at[k][s]
  BY MovesFacts DEF Typed, Moves
<1>2. QED
  BY <1>1 DEF Started, Holding, Steps

\* A goroutine that returns gives its mutex back.
LEMMA ReturnsCount ==
    ASSUME Typed, NEW k \in Kinds, Returns(k, "prepare")
    PROVE  /\ \A j \in Kinds : j # k => at'[j] = at[j]
           /\ Started(k)' = Started(k) - 1
           /\ Holding(k)' = Holding(k) - 1
           /\ at'[k]["begin"] = at[k]["begin"]
<1>1. "prepare" \in Steps /\ \A s \in Steps : at[k][s] \in Nat
  BY DEF Typed, Steps
<1>2. /\ \A j \in Kinds : j # k => at'[j] = at[j]
      /\ at'[k]["prepare"] = at[k]["prepare"] - 1
      /\ \A s \in Steps \ {"prepare"} : at'[k][s] = at[k][s]
  BY <1>1, ReturnsFacts
<1>3. QED
  BY <1>1, <1>2 DEF Started, Holding, Steps

\* Commit starts a goroutine of each kind, which holds nothing yet.
LEMMA CommitCount ==
    ASSUME Typed, Commit, NEW k \in Kinds
    PROVE  /\ Started(k)' = Started(k) + 1
           /\ Holding(k)' = Holding(k)
           /\ at'[k]["begin"] = at[k]["begin"]
<1>1. at[k] \in [Steps -> Nat] /\ at'[k] = [at[k] EXCEPT !["lock"] = @ + 1]
  BY DEF Typed, Commit
<1>2. QED
  BY <1>1 DEF Started, Holding, Steps

\* The counts are numbers.
LEMMA CountsAreNat ==
    ASSUME Typed, NEW k \in Kinds
    PROVE  Holding(k) \in Nat /\ Started(k) \in Nat /\ at[k]["begin"] \in Nat
BY DEF Typed, Holding, Started, Steps

(***************************************************************************)
(* The part of Serial that is about one kind.                              *)
(***************************************************************************)
SerialKind(k) ==
    /\ Holding(k) <= 1
    /\ at[k]["begin"] > 0 => txs[k][tx[k]].state \in Finished
    /\ \A i \in 1..(tx[k] - 1) : txs[k][i].state \in Finished

\* What leaves the transactions as they are.
LEMMA SerialCounts ==
    ASSUME NEW k \in Kinds, SerialKind(k), txs'[k] = txs[k], tx'[k] = tx[k],
           Holding(k)' <= 1, at'[k]["begin"] > 0 => at[k]["begin"] > 0
    PROVE  SerialKind(k)'
BY DEF SerialKind

\* What changes nothing about a kind.
LEMMA SerialOther ==
    ASSUME NEW k \in Kinds, SerialKind(k), txs'[k] = txs[k], tx'[k] = tx[k], at'[k] = at[k]
    PROVE  SerialKind(k)'
BY DEF SerialKind, Holding

\* Every step keeps the transactions of a kind one after the other.
LEMMA SerialNext == Typed /\ Serial /\ [Next]_vars => Serial'
<1> SUFFICES ASSUME Typed, Serial, [Next]_vars, NEW j \in Kinds PROVE SerialKind(j)'
  BY DEF Serial, SerialKind
<1>0. SerialKind(j) /\ \A k \in Kinds : SerialKind(k)
  BY DEF Serial, SerialKind
<1>1. CASE UNCHANGED bulk
  BY <1>0, <1>1, SerialOther DEF bulk
<1>2. ASSUME NEW k \in Kinds, SampleTaken(k) PROVE SerialKind(j)'
  <2>1. PICK id \in Carried(k) :
            /\ WithRow(txs[k][stmt[k]], NextSample(k, id)) \in Transactions
            /\ Changes(k, stmt[k], WithRow(txs[k][stmt[k]], NextSample(k, id)))
    BY <1>2, TakenChanges
  <2>2. stmt[k] \in 1..Len(txs[k]) /\ UNCHANGED <<tx, at>>
    BY <1>2, TxFacts DEF SampleTaken
  <2>3. \A i \in Kinds : i # k => txs'[i] = txs[i]
    BY <2>1, <2>2, ChangesFacts
  <2>4. \A i \in DOMAIN txs[k] : txs'[k][i].state = txs[k][i].state
    BY <2>1, <2>2, ChangesFacts DEF WithRow
  <2>5. CASE j # k
    BY <1>0, <2>2, <2>3, <2>5, SerialOther
  <2>6. CASE j = k
    <3>1. tx[k] = Len(txs[k]) /\ tx[k] \in DOMAIN txs[k] /\ DOMAIN txs[k] = 1..tx[k]
      BY DEF Typed
    <3>2. QED
      BY <1>0, <2>2, <2>4, <2>6, <3>1 DEF SerialKind, Holding
  <2>7. QED
    BY <2>5, <2>6
<1>3. ASSUME NEW k \in Kinds, SampleFails(k) PROVE SerialKind(j)'
  <2>1. /\ stmt[k] \in 1..Len(txs[k]) /\ InState(txs[k][stmt[k]], "aborted") \in Transactions
        /\ Changes(k, stmt[k], InState(txs[k][stmt[k]], "aborted"))
    BY <1>3, FailsChanges
  <2>2. UNCHANGED <<tx, at>> /\ txs[k][stmt[k]].state = "open"
    BY <1>3 DEF SampleFails
  <2>3. /\ \A i \in Kinds : i # k => txs'[i] = txs[i]
        /\ \A i \in DOMAIN txs[k] : i # stmt[k] => txs'[k][i] = txs[k][i]
    BY <2>1, ChangesFacts
  <2>4. CASE j # k
    BY <1>0, <2>2, <2>3, <2>4, SerialOther
  <2>5. CASE j = k
    <3>1. tx[k] = Len(txs[k]) /\ tx[k] \in DOMAIN txs[k] /\ DOMAIN txs[k] = 1..tx[k]
      BY DEF Typed
    <3>2. \A i \in DOMAIN txs[k] : txs[k][i].state \in Finished => txs'[k][i] = txs[k][i]
      BY <2>2, <2>3 DEF Finished
    <3>3. QED
      BY <1>0, <2>2, <2>5, <3>1, <3>2 DEF SerialKind, Holding
  <2>6. QED
    BY <2>4, <2>5
<1>4. CASE Commit
  BY <1>0, <1>4, CommitCount, SerialCounts, CountsAreNat DEF Commit, SerialKind
<1>5. ASSUME NEW k \in Kinds, Lock(k) PROVE SerialKind(j)'
  <2>1. UNCHANGED <<txs, tx>> /\ Moves(k, "lock", "commit")
    BY <1>5 DEF Lock
  <2>2. /\ \A i \in Kinds : i # k => at'[i] = at[i]
        /\ Holding(k)' = Holding(k) + 1
        /\ at'[k]["begin"] = at[k]["begin"]
    BY <2>1, MovesCount DEF Steps
  <2>3. Holding(k) = 0
    <3>1. \A s \in Steps : at[k][s] \in Nat
      BY DEF Typed
    <3>2. QED
      BY <1>5, <3>1 DEF Lock, Locked, Holding, Steps
  <2>4. QED
    BY <1>0, <2>1, <2>2, <2>3, SerialCounts, SerialOther
<1>6. ASSUME NEW k \in Kinds, NEW state \in Finished, NEW to \in {"begin", "exit"},
             Moves(k, "commit", to), tx' = tx,
             InState(txs[k][tx[k]], state) \in Transactions,
             Changes(k, tx[k], InState(txs[k][tx[k]], state))
      PROVE  SerialKind(j)'
  <2>0. /\ "commit" \in Steps /\ "commit" # "lock" /\ to \in Steps \ {"lock"}
        /\ "commit" # to
    BY <1>6 DEF Steps
  <2>1. /\ \A i \in Kinds : i # k => at'[i] = at[i]
        /\ Holding(k)' = Holding(k)
    BY <1>6, <2>0, MovesCount, CountsAreNat
  <2>2. tx[k] = Len(txs[k]) /\ tx[k] \in DOMAIN txs[k] /\ DOMAIN txs[k] = 1..tx[k]
        /\ tx[k] \in 1..Len(txs[k])
    BY DEF Typed
  <2>3. /\ \A i \in Kinds : i # k => txs'[i] = txs[i]
        /\ \A i \in DOMAIN txs[k] : i # tx[k] => txs'[k][i] = txs[k][i]
        /\ txs'[k][tx[k]].state = state
    BY <1>6, <2>2, ChangesFacts DEF InState
  <2>4. CASE j # k
    BY <1>0, <1>6, <2>1, <2>3, <2>4, SerialOther
  <2>5. CASE j = k
    BY <1>0, <1>6, <2>1, <2>2, <2>3, <2>5 DEF SerialKind
  <2>6. QED
    BY <2>4, <2>5
<1>7. ASSUME NEW k \in Kinds, TxCommits(k) PROVE SerialKind(j)'
  BY <1>6, <1>7, CommitsChanges DEF TxCommits, Finished
<1>8. ASSUME NEW k \in Kinds, TxFails(k) PROVE SerialKind(j)'
  <2>1. AfterExit("begin") \in {"begin", "exit"} /\ Moves(k, "commit", AfterExit("begin"))
        /\ tx' = tx
    BY <1>8 DEF TxFails, AfterExit
  <2>2. QED
    BY <1>6, <1>8, <2>1, DropsChanges DEF Finished
<1>9. ASSUME NEW k \in Kinds, Begin(k) PROVE SerialKind(j)'
  <2>1. /\ \A i \in Kinds : i # k => at'[i] = at[i]
        /\ Holding(k)' = Holding(k) /\ at[k]["begin"] > 0
        /\ at'[k]["begin"] = at[k]["begin"] - 1
    <3>1. /\ "begin" \in Steps /\ "prepare" \in Steps \ {"lock"}
          /\ "begin" # "lock" /\ "begin" # "prepare"
      BY DEF Steps
    <3>2. QED
      BY <1>9, <3>1, MovesCount, CountsAreNat DEF Begin
  <2>2. txs[k] \in Seq(Transactions) /\ tx[k] = Len(txs[k]) /\ tx[k] \in Nat
    BY DEF Typed
  <2>3. /\ txs' = [txs EXCEPT ![k] = Append(txs[k], Open)]
        /\ tx' = [tx EXCEPT ![k] = tx[k] + 1]
    <3>1. Open \in Transactions
      BY DEF Open, Transactions, States
    <3>2. QED
      BY <1>9, <2>2, <3>1 DEF Begin, Typed
  <2>4. CASE j # k
    BY <1>0, <2>1, <2>3, <2>4, SerialOther DEF Typed
  <2>5. CASE j = k
    <3>1. at[k]["begin"] = 1 /\ at'[k]["begin"] = 0
      <4>1. \A s \in Steps : at[k][s] \in Nat
        BY DEF Typed
      <4>2. at[k]["begin"] \in Nat /\ at[k]["begin"] <= Holding(k)
        BY <4>1 DEF Holding, Steps
      <4>3. Holding(k) <= 1 /\ Holding(k) \in Nat
        BY <1>0, CountsAreNat DEF SerialKind
      <4>4. QED
        BY <2>1, <4>2, <4>3
    <3>2. tx'[k] = tx[k] + 1 /\ \A i \in 1..tx[k] : txs'[k][i] = txs[k][i]
      BY <2>2, <2>3 DEF Typed
    <3>3. \A i \in 1..tx[k] : txs[k][i].state \in Finished
      BY <1>0, <2>1, <2>2 DEF SerialKind
    <3>4. QED
      BY <1>0, <2>1, <2>2, <2>5, <3>1, <3>2, <3>3 DEF SerialKind
  <2>6. QED
    BY <2>4, <2>5
<1>10. ASSUME NEW k \in Kinds, BeginFails(k) PROVE SerialKind(j)'
  <2>1. /\ \A i \in Kinds : i # k => at'[i] = at[i]
        /\ Holding(k)' = Holding(k) /\ at[k]["begin"] > 0 /\ UNCHANGED <<txs, tx>>
    <3>1. /\ "begin" \in Steps /\ "exit" \in Steps \ {"lock"}
          /\ "begin" # "lock" /\ "begin" # "exit"
      BY DEF Steps
    <3>2. QED
      BY <1>10, <3>1, MovesCount, CountsAreNat DEF BeginFails
  <2>2. QED
    BY <1>0, <2>1, SerialCounts, SerialOther DEF SerialKind
<1>11. ASSUME NEW k \in Kinds, Prepare(k) \/ PrepareFails(k) PROVE SerialKind(j)'
  <2>1. /\ \A i \in Kinds : i # k => at'[i] = at[i]
        /\ Holding(k)' = Holding(k) - 1 /\ at'[k]["begin"] = at[k]["begin"]
        /\ UNCHANGED <<txs, tx>>
    BY <1>11, ReturnsCount DEF Prepare, PrepareFails
  <2>2. Holding(k)' <= 1
    BY <1>0, <2>1, CountsAreNat DEF SerialKind
  <2>3. QED
    BY <1>0, <2>1, <2>2, SerialCounts, SerialOther
<1>12. QED
  BY <1>1, <1>2, <1>3, <1>4, <1>5, <1>7, <1>8, <1>9, <1>10, <1>11
     DEF Next, PersistFlow, PersistSample, Committing, Gone, vars,
         FlowCached, FlowSynced, FlowFails, NextSession, SampleRefused, SamplePanics, ProcessEnds

\* Serial holds for ever.
LEMMA SerialCorrect == Spec => []Serial
<1>1. Init => Serial
  BY DEF Init, Serial, Holding, Kinds, Steps
<1>2. QED
  BY <1>1, SerialNext, TypedCorrect, PTL DEF Spec

-----------------------------------------------------------------------------
(* TypeOK, bounds included.                                                *)

\* Every step keeps the counters within their bounds.
LEMMA CountersNext == Counters /\ [Next]_vars => Counters'
<1> SUFFICES ASSUME Counters, [Next]_vars PROVE Counters'
  OBVIOUS
<1>0. MaxSamples \in Nat /\ MaxCommits \in Nat /\ MaxSessions \in Nat /\ MaxFaults \in Nat
  BY StoreAssumption
<1>a. Fault => faults' \in 0..MaxFaults
  BY <1>0 DEF Counters, Fault
<1>b. Exit => process' \in {"running", "exiting", "gone"}
  BY DEF Counters, Exit
<1> USE <1>0 DEF Counters, calls, flows
<1>1. ASSUME NEW f \in Flows, FlowCached(f) \/ FlowSynced(f) \/ FlowFails(f) PROVE Counters'
  <2>1. CASE FlowCached(f) \/ FlowSynced(f)
    <3>1. UNCHANGED <<program, process, session, aggregating, samples, commits, faults>>
      BY <2>1 DEF FlowCached, FlowSynced
    <3>2. QED
      BY <3>1
  <2>2. CASE FlowFails(f)
    BY <1>a, <2>2 DEF FlowFails
  <2>3. QED
    BY <1>1, <2>1, <2>2
<1>2. ASSUME NEW k \in Kinds,
             SampleTaken(k) \/ SampleRefused(k) \/ SampleFails(k) \/ SamplePanics(k)
      PROVE  Counters'
  BY <1>2, <1>a DEF SampleTaken, SampleRefused, SampleFails, SamplePanics
<1>3. CASE Commit
  BY <1>3 DEF Commit
<1>4. ASSUME NEW k \in Kinds, Lock(k) \/ TxCommits(k) \/ Begin(k) \/ Prepare(k) PROVE Counters'
  BY <1>4 DEF Lock, TxCommits, Begin, Prepare
<1>5. ASSUME NEW k \in Kinds, TxFails(k) PROVE Counters'
  BY <1>5, <1>a, <1>b DEF TxFails
<1>6. ASSUME NEW k \in Kinds, BeginFails(k) \/ PrepareFails(k) PROVE Counters'
  <2>1. CASE BeginFails(k)
    BY <1>a, <2>1 DEF BeginFails
  <2>2. CASE PrepareFails(k)
    BY <1>a, <1>b, <2>2 DEF PrepareFails
  <2>3. QED
    BY <1>6, <2>1, <2>2
<1>7. CASE NextSession \/ ProcessEnds
  <2>1. CASE NextSession
    BY <2>1 DEF NextSession
  <2>2. CASE ProcessEnds
    BY <2>2 DEF ProcessEnds
  <2>3. QED
    BY <1>7, <2>1, <2>2
<1>8. CASE UNCHANGED vars
  BY <1>8 DEF vars
<1>9. QED
  BY <1>1, <1>2, <1>3, <1>4, <1>5, <1>6, <1>7, <1>8
     DEF Next, PersistFlow, PersistSample, Committing, Gone

\* A step of a goroutine: none is added.
LEMMA StartedKept ==
    ASSUME Typed, StartedByCommit, NEW k \in Kinds,
           \A j \in Kinds : j # k => at'[j] = at[j],
           Started(k)' <= Started(k), Started(k)' \in Nat, commits' = commits, commits \in Nat
    PROVE  StartedByCommit'
<1>1. ASSUME NEW j \in Kinds PROVE Started(j)' <= commits'
  <2>1. CASE j = k
    BY <2>1, CountsAreNat DEF StartedByCommit
  <2>2. CASE j # k
    BY <2>2 DEF StartedByCommit, Started, Holding
  <2>3. QED
    BY <2>1, <2>2
<1>2. QED
  BY <1>1 DEF StartedByCommit

\* Only Commit starts goroutines, one of each kind.
LEMMA StartedNext == Typed /\ Counters /\ StartedByCommit /\ [Next]_vars => StartedByCommit'
<1> SUFFICES ASSUME Typed, Counters, StartedByCommit, [Next]_vars PROVE StartedByCommit'
  OBVIOUS
<1>0. commits \in Nat
  BY DEF Counters
<1>1. CASE UNCHANGED <<at, commits>>
  BY <1>1 DEF StartedByCommit, Started, Holding
<1>2. CASE Commit
  <2>1. \A k \in Kinds : Started(k)' = Started(k) + 1
    BY <1>2, CommitCount
  <2>2. QED
    BY <1>0, <1>2, <2>1, CountsAreNat DEF Commit, StartedByCommit
<1>3. ASSUME NEW k \in Kinds, NEW from \in Steps, NEW to \in Steps \ {"lock"}, from # to,
             Moves(k, from, to), commits' = commits
      PROVE  StartedByCommit'
  BY <1>0, <1>3, MovesCount, CountsAreNat, StartedKept
<1>4. ASSUME NEW k \in Kinds, Returns(k, "prepare"), commits' = commits PROVE StartedByCommit'
  <2>1. /\ \A j \in Kinds : j # k => at'[j] = at[j]
        /\ Started(k)' = Started(k) - 1
    BY <1>4, ReturnsCount
  <2>2. Started(k) >= 1
    <3>1. \A s \in Steps : at[k][s] \in Nat
      BY DEF Typed
    <3>2. QED
      BY <1>4, <3>1 DEF Returns, Started, Holding, Steps
  <2>3. QED
    BY <1>0, <1>4, <2>1, <2>2, CountsAreNat, StartedKept
<1>5. {"commit", "begin", "prepare", "exit"} \subseteq Steps \ {"lock"} /\ "lock" \in Steps
  BY DEF Steps
<1>6. ASSUME NEW k \in Kinds,
             Lock(k) \/ TxCommits(k) \/ TxFails(k) \/ Begin(k) \/ BeginFails(k)
      PROVE  StartedByCommit'
  <2>1. CASE Lock(k)
    BY <1>3, <1>5, <2>1 DEF Lock, calls
  <2>2. CASE TxCommits(k)
    BY <1>3, <1>5, <2>2 DEF TxCommits, calls
  <2>3. CASE TxFails(k)
    BY <1>3, <1>5, <2>3 DEF TxFails, AfterExit
  <2>4. CASE Begin(k)
    BY <1>3, <1>5, <2>4 DEF Begin, calls
  <2>5. CASE BeginFails(k)
    BY <1>3, <1>5, <2>5 DEF BeginFails
  <2>6. QED
    BY <1>6, <2>1, <2>2, <2>3, <2>4, <2>5
<1>7. ASSUME NEW k \in Kinds, Prepare(k) \/ PrepareFails(k) PROVE StartedByCommit'
  BY <1>4, <1>7 DEF Prepare, PrepareFails, calls
<1>8. QED
  BY <1>1, <1>2, <1>6, <1>7
     DEF Next, PersistFlow, PersistSample, Committing, Gone, vars, bulk, calls,
         FlowCached, FlowSynced, FlowFails, NextSession, SampleTaken, SampleRefused,
         SampleFails, SamplePanics, ProcessEnds

\* The table only grows.
LEMMA IdsKept ==
    ASSUME Typed, IdsOfTable, NEW f \in Flows, FlowSynced(f)
    PROVE  Len(db_flows) <= Len(db_flows') /\ Len(db_flows') \in Nat
<1>1. db_flows \in FlowTable /\ Row(f) \in [session : Nat, flow : Flows]
  BY DEF Typed, Row
<1>2. QED
  BY <1>1 DEF FlowSynced, FlowTable

\* An id is only cached or handed out once its row is in the table.
LEMMA IdsNext == Typed /\ Counters /\ IdsOfTable /\ [Next]_vars => IdsOfTable'
<1> SUFFICES ASSUME Typed, Counters, IdsOfTable, [Next]_vars PROVE IdsOfTable'
  OBVIOUS
<1>0. db_flows \in FlowTable /\ Len(db_flows) \in Nat
  BY DEF Typed, FlowTable
<1>1. ASSUME NEW f \in Flows, FlowCached(f) PROVE IdsOfTable'
  BY <1>1 DEF FlowCached, IdsOfTable, Typed
<1>2. ASSUME NEW f \in Flows, FlowSynced(f) PROVE IdsOfTable'
  <2>1. /\ db_flows' \in FlowTable
        /\ \A i \in DOMAIN db_flows' :
               db_flows'[i] = Row(f) \/ (i \in DOMAIN db_flows /\ db_flows'[i] = db_flows[i])
    <3>1. Row(f) \in [session : Nat, flow : Flows]
      BY DEF Typed, Row
    <3>2. CASE db_flows' = db_flows
      BY <1>0, <3>2
    <3>3. CASE db_flows' = Append(db_flows, Row(f))
      BY <1>0, <3>1, <3>3 DEF FlowTable
    <3>4. QED
      BY <1>2, <3>2, <3>3 DEF FlowSynced
  <2>2. \A i \in DOMAIN db_flows' : db_flows'[i].session \in 1..MaxSessions
    BY <2>1 DEF Row, IdsOfTable, Counters
  <2>3. PICK id \in DOMAIN db_flows' :
            /\ cache' = [cache EXCEPT ![f] = id]
            /\ handed' = [handed EXCEPT ![f] = id]
    BY <1>2, SyncedFacts
  <2>4. id <= Len(db_flows') /\ Len(db_flows) <= Len(db_flows') /\ Len(db_flows') \in Nat
    <3>1. DOMAIN db_flows' = 1..Len(db_flows')
      BY <2>1 DEF FlowTable
    <3>2. QED
      BY <1>2, <2>3, <3>1, IdsKept
  <2>5. \A g \in Flows : cache'[g] <= Len(db_flows')
    <3>1. \A g \in Flows : cache[g] \in Int /\ cache[g] <= Len(db_flows)
      BY DEF IdsOfTable, Typed, NoFlow
    <3>2. \A g \in Flows : g # f => cache'[g] = cache[g]
      BY <2>3 DEF Typed
    <3>3. cache'[f] = id
      BY <2>3 DEF Typed
    <3>4. QED
      BY <1>0, <2>4, <3>1, <3>2, <3>3
  <2>6. \A g \in Flows : handed'[g] <= Len(db_flows')
    BY <1>0, <2>3, <2>4 DEF IdsOfTable, Typed
  <2>7. QED
    BY <2>2, <2>5, <2>6 DEF IdsOfTable
<1>3. ASSUME NEW f \in Flows, FlowFails(f) PROVE IdsOfTable'
  BY <1>0, <1>3 DEF FlowFails, IdsOfTable, Typed, NoId
<1>4. CASE NextSession
  BY <1>0, <1>4 DEF NextSession, IdsOfTable, NoId, NoFlow
<1>5. CASE UNCHANGED flows
  BY <1>5 DEF flows, IdsOfTable
<1>6. QED
  BY <1>1, <1>2, <1>3, <1>4, <1>5
     DEF Next, PersistFlow, PersistSample, Committing, Gone, vars,
         SampleTaken, SampleRefused, SampleFails, SamplePanics, Commit, Lock,
         TxCommits, TxFails, Begin, BeginFails, Prepare, PrepareFails, ProcessEnds

\* The rows of a transaction stay known when nothing gets less.
LEMMA RowsKnownKept ==
    ASSUME Typed, RowsKnown, Counters,
           samples' \in Nat, samples <= samples', Len(db_flows') \in Nat,
           Len(db_flows) <= Len(db_flows'),
           \A k \in Kinds : \A i \in DOMAIN txs'[k] :
               \/ txs'[k][i].rows = {}
               \/ i \in DOMAIN txs[k] /\ txs'[k][i].rows = txs[k][i].rows
    PROVE  RowsKnown'
<1> SUFFICES ASSUME NEW k \in Kinds, NEW i \in DOMAIN txs'[k], NEW r \in txs'[k][i].rows
             PROVE  /\ r.n \in 1..samples'
                    /\ r.session \in 1..MaxSessions
                    /\ r.flow_id <= Len(db_flows')
  BY DEF RowsKnown
<1>1. i \in DOMAIN txs[k] /\ r \in txs[k][i].rows
  OBVIOUS
<1>2. r.n \in 1..samples /\ r.session \in 1..MaxSessions /\ r.flow_id <= Len(db_flows)
  BY <1>1 DEF RowsKnown
<1>3. r \in SampleRecord /\ Len(db_flows) \in Nat /\ samples \in Nat
  <2>1. txs[k][i] \in Transactions
    BY <1>1 DEF Typed
  <2>2. db_flows \in FlowTable /\ samples \in Nat
    BY DEF Typed
  <2>3. QED
    BY <1>1, <2>1, <2>2 DEF Transactions, FlowTable
<1>4. QED
  BY <1>2, <1>3 DEF SampleRecord

\* Only Persist adds rows, and it counts them.
LEMMA RowsKnownNext ==
    Typed /\ Counters /\ IdsOfTable /\ RowsKnown /\ [Next]_vars => RowsKnown'
<1> SUFFICES ASSUME Typed, Counters, IdsOfTable, RowsKnown, [Next]_vars PROVE RowsKnown'
  OBVIOUS
<1>0. db_flows \in FlowTable /\ Len(db_flows) \in Nat /\ samples \in Nat
  BY DEF Typed, FlowTable
<1>1. ASSUME NEW f \in Flows, FlowSynced(f) PROVE RowsKnown'
  BY <1>0, <1>1, IdsKept, RowsKnownKept DEF FlowSynced, calls, bulk
<1>2. ASSUME NEW k \in Kinds, SampleTaken(k) PROVE RowsKnown'
  <2>1. PICK id \in Carried(k) :
            /\ id \in Nat
            /\ WithRow(txs[k][stmt[k]], NextSample(k, id)) \in Transactions
            /\ Changes(k, stmt[k], WithRow(txs[k][stmt[k]], NextSample(k, id)))
    BY <1>2, TakenChanges
  <2>2. stmt[k] \in 1..Len(txs[k]) /\ samples' = samples + 1 /\ db_flows' = db_flows
    BY <1>2, TxFacts DEF SampleTaken, flows
  <2>3. id <= Len(db_flows)
    BY <1>0, <2>1 DEF Carried, IdsOfTable, NoId
  <2>4. \A j \in Kinds : \A i \in DOMAIN txs'[j] :
            i \in DOMAIN txs[j]
            /\ \A r \in txs'[j][i].rows : r = NextSample(k, id) \/ r \in txs[j][i].rows
    <3>1. /\ \A j \in Kinds : j # k => txs'[j] = txs[j]
          /\ DOMAIN txs'[k] = DOMAIN txs[k]
          /\ \A i \in DOMAIN txs[k] : i # stmt[k] => txs'[k][i] = txs[k][i]
          /\ txs'[k][stmt[k]] = WithRow(txs[k][stmt[k]], NextSample(k, id))
      BY <2>1, <2>2, ChangesFacts
    <3>2. QED
      BY <3>1 DEF WithRow
  <2>5. /\ NextSample(k, id).n = samples + 1
        /\ NextSample(k, id).session \in 1..MaxSessions
        /\ NextSample(k, id).flow_id = id
    BY DEF NextSample, Counters
  <2>6. ASSUME NEW j \in Kinds, NEW i \in DOMAIN txs'[j], NEW r \in txs'[j][i].rows
        PROVE  /\ r.n \in 1..samples'
               /\ r.session \in 1..MaxSessions
               /\ r.flow_id <= Len(db_flows')
    <3>1. CASE r = NextSample(k, id)
      BY <1>0, <2>2, <2>3, <2>5, <3>1
    <3>2. CASE i \in DOMAIN txs[j] /\ r \in txs[j][i].rows
      <4>1. r.n \in 1..samples /\ r.session \in 1..MaxSessions /\ r.flow_id <= Len(db_flows)
        BY <3>2 DEF RowsKnown
      <4>2. QED
        BY <1>0, <2>2, <4>1
    <3>3. QED
      BY <2>4, <3>1, <3>2
  <2>7. QED
    BY <2>6 DEF RowsKnown
<1>3. ASSUME NEW k \in Kinds, NEW i \in 1..Len(txs[k]), NEW state,
             InState(txs[k][i], state) \in Transactions,
             Changes(k, i, InState(txs[k][i], state)), db_flows' = db_flows,
             samples' \in Nat, samples <= samples'
      PROVE  RowsKnown'
  <2>1. \A j \in DOMAIN txs[k] : txs'[k][j].rows = txs[k][j].rows
    BY <1>3, ChangesFacts DEF InState
  <2>2. DOMAIN txs'[k] = DOMAIN txs[k] /\ \A j \in Kinds : j # k => txs'[j] = txs[j]
    BY <1>3, ChangesFacts
  <2>3. QED
    BY <1>0, <1>3, <2>1, <2>2, RowsKnownKept
<1>4. ASSUME NEW k \in Kinds, SampleFails(k) PROVE RowsKnown'
  <2>1. db_flows' = db_flows /\ samples' \in Nat /\ samples <= samples'
    BY <1>0, <1>4 DEF SampleFails, flows
  <2>2. stmt[k] \in 1..Len(txs[k])
    BY <1>4, FailsChanges
  <2>3. QED
    BY <1>3, <1>4, <2>1, <2>2, FailsChanges
<1>5. ASSUME NEW k \in Kinds, TxCommits(k) PROVE RowsKnown'
  <2>1. db_flows' = db_flows /\ samples' \in Nat /\ samples <= samples'
    BY <1>0, <1>5 DEF TxCommits, flows, calls
  <2>2. tx[k] \in 1..Len(txs[k])
    BY <1>5, TxFacts
  <2>3. QED
    BY <1>3, <1>5, <2>1, <2>2, CommitsChanges
<1>6. ASSUME NEW k \in Kinds, TxFails(k) PROVE RowsKnown'
  <2>1. db_flows' = db_flows /\ samples' \in Nat /\ samples <= samples'
    BY <1>0, <1>6 DEF TxFails, flows
  <2>2. tx[k] \in 1..Len(txs[k])
    BY <1>6, TxFacts
  <2>3. QED
    BY <1>3, <1>6, <2>1, <2>2, DropsChanges
<1>7. ASSUME NEW k \in Kinds, Begin(k) PROVE RowsKnown'
  <2>1. /\ db_flows' = db_flows /\ samples' = samples
        /\ txs' = [txs EXCEPT ![k] = Append(txs[k], Open)]
    BY <1>7 DEF Begin, flows, calls
  <2>2. \A j \in Kinds : \A i \in DOMAIN txs'[j] :
            \/ txs'[j][i].rows = {}
            \/ i \in DOMAIN txs[j] /\ txs'[j][i].rows = txs[j][i].rows
    BY <2>1 DEF Typed, Open
  <2>3. QED
    BY <1>0, <2>1, <2>2, RowsKnownKept
<1>8. CASE UNCHANGED <<txs, db_flows>> /\ samples' \in {samples, samples + 1}
  BY <1>0, <1>8, RowsKnownKept
<1>9. QED
  BY <1>1, <1>2, <1>4, <1>5, <1>6, <1>7, <1>8
     DEF Next, PersistFlow, PersistSample, Committing, Gone, vars, bulk, flows, calls,
         FlowCached, FlowFails, NextSession, SampleRefused, SamplePanics, Commit,
         Lock, BeginFails, Prepare, PrepareFails, ProcessEnds

(***************************************************************************)
(* The transactions and statements fit each other, no mutex is released    *)
(* twice (a kind never has less than no goroutine at a step), and every id *)
(* is that of a row or none.                                               *)
(***************************************************************************)
THEOREM TypeCorrect == Spec => []TypeOK
<1>1. Init => Counters /\ StartedByCommit /\ IdsOfTable /\ RowsKnown
  <2> SUFFICES ASSUME Init PROVE Counters /\ StartedByCommit /\ IdsOfTable /\ RowsKnown
    OBVIOUS
  <2>1. Counters
    BY StoreAssumption DEF Init, Counters
  <2>2. StartedByCommit
    BY DEF Init, StartedByCommit, Started, Holding, Kinds, Steps
  <2>3. IdsOfTable
    BY DEF Init, IdsOfTable, NoFlow, NoId
  <2>4. RowsKnown
    BY DEF Init, RowsKnown, Open
  <2>5. QED
    BY <2>1, <2>2, <2>3, <2>4
<1>2. Typed /\ Counters /\ StartedByCommit /\ IdsOfTable /\ RowsKnown => TypeOK
  <2> SUFFICES ASSUME Typed, Counters, StartedByCommit, IdsOfTable, RowsKnown PROVE TypeOK
    OBVIOUS
  <2>1. db_flows \in FlowTable /\ Len(db_flows) \in Nat /\ DOMAIN db_flows = 1..Len(db_flows)
    BY DEF Typed, FlowTable
  <2>2. db_flows \in Seq([session : 1..MaxSessions, flow : Flows])
    <3>1. \A i \in 1..Len(db_flows) :
              db_flows[i] \in [session : 1..MaxSessions, flow : Flows]
      <4>1. \A i \in 1..Len(db_flows) : db_flows[i] \in [session : Nat, flow : Flows]
        BY <2>1, ElementOfSeq DEF FlowTable
      <4>2. \A i \in 1..Len(db_flows) : db_flows[i].session \in 1..MaxSessions
        BY <2>1 DEF IdsOfTable
      <4>3. QED
        BY <4>1, <4>2
    <3>2. db_flows \in Seq([session : Nat, flow : Flows])
      BY <2>1 DEF FlowTable
    <3>3. db_flows = [i \in 1..Len(db_flows) |-> db_flows[i]]
      BY <3>2
    <3>4. db_flows \in [1..Len(db_flows) -> [session : 1..MaxSessions, flow : Flows]]
      BY <3>1, <3>3
    <3>5. QED
      BY <2>1, <3>4, SeqDef
  <2>3. cache \in [Flows -> NoFlow..Len(db_flows)] /\ handed \in [Flows -> 0..Len(db_flows)]
    BY <2>1 DEF Typed, IdsOfTable, NoFlow
  <2>4. at \in [Kinds -> [Steps -> 0..MaxCommits]]
    <3>1. ASSUME NEW k \in Kinds, NEW s \in Steps PROVE at[k][s] \in 0..MaxCommits
      <4>1. \A t \in Steps : at[k][t] \in Nat
        BY DEF Typed
      <4>2. at[k][s] <= Started(k)
        BY <4>1 DEF Started, Holding, Steps
      <4>3. Started(k) <= MaxCommits /\ Started(k) \in Nat
        BY StoreAssumption, CountsAreNat DEF StartedByCommit, Counters
      <4>4. QED
        BY StoreAssumption, <4>1, <4>2, <4>3
    <3>2. QED
      BY <3>1 DEF Typed
  <2>5. ASSUME NEW k \in Kinds
        PROVE  /\ tx[k] \in DOMAIN txs[k]
               /\ stmt[k] \in 0..tx[k]
               /\ \A i \in DOMAIN txs[k] :
                      /\ txs[k][i].state \in {"open", "aborted", "committed", "failed"}
                      /\ txs[k][i].rows \subseteq SampleRows
    <3>1. tx[k] \in DOMAIN txs[k] /\ stmt[k] \in 0..tx[k]
      BY DEF Typed
    <3>2. ASSUME NEW i \in DOMAIN txs[k]
          PROVE  /\ txs[k][i].state \in {"open", "aborted", "committed", "failed"}
                 /\ txs[k][i].rows \subseteq SampleRows
      <4>1. txs[k][i] \in Transactions
        BY DEF Typed
      <4>2. ASSUME NEW r \in txs[k][i].rows PROVE r \in SampleRows
        <5>1. r \in SampleRecord
          BY <4>1 DEF Transactions
        <5>2. r.n \in 1..samples /\ r.session \in 1..MaxSessions /\ r.flow_id <= Len(db_flows)
          BY DEF RowsKnown
        <5>3. samples <= MaxSamples /\ samples \in Nat /\ MaxSamples \in Nat
          BY StoreAssumption DEF Counters
        <5>4. r.n \in 1..MaxSamples /\ r.flow_id \in 0..Len(db_flows)
          BY <2>1, <5>1, <5>2, <5>3 DEF SampleRecord
        <5>5. QED
          BY <5>1, <5>2, <5>4 DEF SampleRecord, SampleRows
      <4>3. QED
        BY <4>1, <4>2 DEF Transactions, States
    <3>3. QED
      BY <3>1, <3>2
  <2>6. QED
    BY <2>2, <2>3, <2>4, <2>5 DEF TypeOK, Counters
<1>3. QED
  BY <1>1, <1>2, TypedCorrect, CountersNext, StartedNext, IdsNext, RowsKnownNext,
     PTL DEF Spec

-----------------------------------------------------------------------------
(* The promise of SampleStore.                                             *)

\* The states of a transaction whose rows are still to be committed.
Unfinished == {"open", "aborted"}

\* The samples of the transactions in one of the states, one by one.
LEMMA RowsInFacts ==
    ASSUME NEW k \in Kinds, NEW states, NEW n
    PROVE  n \in RowsIn(k, states) <=>
               \E i \in DOMAIN txs[k] :
                   txs[k][i].state \in states /\ \E r \in txs[k][i].rows : n = r.n
BY DEF RowsIn, Numbers

\* The same after a step.
LEMMA RowsInFactsPrime ==
    ASSUME NEW k \in Kinds, NEW states, NEW n
    PROVE  n \in RowsIn(k, states)' <=>
               \E i \in DOMAIN txs'[k] :
                   txs'[k][i].state \in states /\ \E r \in txs'[k][i].rows : n = r.n
BY DEF RowsIn, Numbers

\* A transaction that was in none of the states and gets into none.
LEMMA RowsInChanged ==
    ASSUME Typed, NEW k \in Kinds, NEW i \in 1..Len(txs[k]), NEW t \in Transactions,
           Changes(k, i, t), NEW states,
           t.state \notin states, txs[k][i].state \notin states
    PROVE  \A j \in Kinds : RowsIn(j, states)' = RowsIn(j, states)
<1> SUFFICES ASSUME NEW j \in Kinds, NEW n
             PROVE  n \in RowsIn(j, states)' <=> n \in RowsIn(j, states)
  OBVIOUS
<1>1. /\ DOMAIN txs'[j] = DOMAIN txs[j]
      /\ \A m \in DOMAIN txs[j] :
             \/ txs'[j][m] = txs[j][m]
             \/ txs'[j][m].state \notin states /\ txs[j][m].state \notin states
  BY ChangesFacts
<1>2. QED
  BY <1>1, RowsInFacts, RowsInFactsPrime

\* A transaction gets into one of the states, with its rows.
LEMMA RowsInJoined ==
    ASSUME Typed, NEW k \in Kinds, NEW i \in 1..Len(txs[k]), NEW states, NEW state \in states,
           InState(txs[k][i], state) \in Transactions,
           Changes(k, i, InState(txs[k][i], state)), txs[k][i].state \notin states
    PROVE  /\ RowsIn(k, states)' = RowsIn(k, states) \cup Numbers(txs[k][i].rows)
           /\ \A j \in Kinds : j # k => RowsIn(j, states)' = RowsIn(j, states)
<1>1. /\ DOMAIN txs'[k] = DOMAIN txs[k]
      /\ \A m \in DOMAIN txs[k] : m # i => txs'[k][m] = txs[k][m]
      /\ txs'[k][i].state = state /\ txs'[k][i].rows = txs[k][i].rows
      /\ \A j \in Kinds : j # k => txs'[j] = txs[j]
  BY ChangesFacts DEF InState
<1>2. i \in DOMAIN txs[k]
  BY DEF Typed
<1>3. ASSUME NEW n
      PROVE  n \in RowsIn(k, states)' <=>
                 n \in RowsIn(k, states) \/ \E r \in txs[k][i].rows : n = r.n
  BY <1>1, <1>2, RowsInFacts, RowsInFactsPrime
<1>4. RowsIn(k, states)' = RowsIn(k, states) \cup Numbers(txs[k][i].rows)
  BY <1>3 DEF Numbers
<1>5. ASSUME NEW j \in Kinds, j # k, NEW n
      PROVE  n \in RowsIn(j, states)' <=> n \in RowsIn(j, states)
  BY <1>1, <1>5, RowsInFacts, RowsInFactsPrime
<1>6. QED
  BY <1>4, <1>5

\* The statement of an open transaction is that of the current one.
LEMMA OpenIsCurrent ==
    ASSUME Typed, Serial, NEW k \in Kinds, stmt[k] # 0, txs[k][stmt[k]].state = "open"
    PROVE  stmt[k] = tx[k] /\ stmt[k] \in 1..Len(txs[k])
<1>1. stmt[k] \in Nat /\ tx[k] \in Nat /\ stmt[k] <= tx[k] /\ tx[k] = Len(txs[k])
  BY DEF Typed
<1>2. stmt[k] \notin 1..(tx[k] - 1)
  BY DEF Serial, Finished
<1>3. QED
  BY <1>1, <1>2

\* What the promise speaks of.
LEMMA PromiseSame ==
    ASSUME \A j \in Kinds : /\ Pending(j)' = Pending(j)
                            /\ RowsIn(j, {"committed"})' = RowsIn(j, {"committed"})
                            /\ RowsIn(j, {"failed"})' = RowsIn(j, {"failed"})
    PROVE  UNCHANGED Promise!vars
BY DEF Promise!vars

\* A sample is accepted with a number none had before.
LEMMA PromiseTaken ==
    ASSUME Typed, Serial, Counters, RowsKnown, NEW k \in Kinds, SampleTaken(k)
    PROVE  Promise!Next
<1>1. PICK id \in Carried(k) :
          /\ WithRow(txs[k][stmt[k]], NextSample(k, id)) \in Transactions
          /\ Changes(k, stmt[k], WithRow(txs[k][stmt[k]], NextSample(k, id)))
  BY TakenChanges
<1>2. /\ stmt[k] = tx[k] /\ stmt[k] \in 1..Len(txs[k])
      /\ txs[k][stmt[k]].state = "open" /\ tx' = tx
  BY OpenIsCurrent DEF SampleTaken
<1> DEFINE t == WithRow(txs[k][stmt[k]], NextSample(k, id))
<1>3. t.state = "open" /\ t.rows = txs[k][tx[k]].rows \cup {NextSample(k, id)}
  BY <1>2 DEF WithRow
<1>4. \A j \in Kinds : /\ RowsIn(j, {"committed"})' = RowsIn(j, {"committed"})
                       /\ RowsIn(j, {"failed"})' = RowsIn(j, {"failed"})
  <2>1. ASSUME NEW state \in Finished
        PROVE  \A j \in Kinds : RowsIn(j, {state})' = RowsIn(j, {state})
    <3>1. t.state \notin {state} /\ txs[k][stmt[k]].state \notin {state}
      BY <1>2, <1>3 DEF Finished
    <3>2. t \in Transactions /\ Changes(k, stmt[k], t)
      BY <1>1
    <3>3. QED
      BY <1>2, <3>1, <3>2, RowsInChanged
  <2>2. QED
    BY <2>1 DEF Finished
<1>5. txs'[k][tx[k]] = t /\ \A j \in Kinds : j # k => txs'[j] = txs[j]
  BY <1>1, <1>2, ChangesFacts
<1>6. \A j \in Kinds : j # k => Pending(j)' = Pending(j)
  BY <1>2, <1>5 DEF Pending
<1>7. Pending(k)' = Pending(k) \cup {samples + 1}
  <2>1. Pending(k) = Numbers(txs[k][tx[k]].rows)
    BY <1>2 DEF Pending
  <2>2. Pending(k)' = Numbers(t.rows)
    BY <1>2, <1>3, <1>5 DEF Pending
  <2>3. Numbers(t.rows) = Numbers(txs[k][tx[k]].rows) \cup {samples + 1}
    BY <1>3 DEF Numbers, NextSample
  <2>4. QED
    BY <2>1, <2>2, <2>3
<1>8. samples + 1 \in 1..MaxSamples
  BY StoreAssumption DEF SampleTaken, Counters
<1>9. samples + 1 \notin Promise!Known
  <2>1. \A j \in Kinds : \A i \in DOMAIN txs[j] : \A r \in txs[j][i].rows : r.n # samples + 1
    <3>1. samples \in Nat
      BY DEF Typed
    <3>2. \A j \in Kinds : \A i \in DOMAIN txs[j] : \A r \in txs[j][i].rows : r.n \in 1..samples
      BY DEF RowsKnown
    <3>3. QED
      BY <3>1, <3>2
  <2>2. \A j \in Kinds : samples + 1 \notin RowsIn(j, {"committed"})
                         /\ samples + 1 \notin RowsIn(j, {"failed"})
    BY <2>1, RowsInFacts
  <2>3. \A j \in Kinds : tx[j] \in DOMAIN txs[j]
    BY DEF Typed
  <2>4. \A j \in Kinds : samples + 1 \notin Pending(j)
    BY <2>1, <2>3 DEF Pending, Numbers
  <2>5. QED
    BY <2>2, <2>4 DEF Promise!Known
<1>10. Promise!Accept(k, samples + 1)
  BY <1>4, <1>6, <1>7, <1>9 DEF Promise!Accept
<1>11. QED
  BY <1>8, <1>10 DEF Promise!Next

\* The rows of the current transaction leave together.
LEMMA PromiseEnds ==
    ASSUME Typed, NEW k \in Kinds, txs[k][tx[k]].state \in Unfinished, tx' = tx,
           NEW state \in Finished,
           InState(txs[k][tx[k]], state) \in Transactions,
           Changes(k, tx[k], InState(txs[k][tx[k]], state))
    PROVE  Promise!Next
<1> DEFINE other == IF state = "committed" THEN "failed" ELSE "committed"
<1>1. tx[k] \in 1..Len(txs[k])
  BY TxFacts
<1>2. /\ InState(txs[k][tx[k]], state).state \notin {other}
      /\ txs[k][tx[k]].state \notin {other} /\ txs[k][tx[k]].state \notin {state}
      /\ state \notin Unfinished
  BY DEF InState, Unfinished, Finished
<1>3. \A j \in Kinds : RowsIn(j, {other})' = RowsIn(j, {other})
  BY <1>1, <1>2, RowsInChanged
<1>4. /\ RowsIn(k, {state})' = RowsIn(k, {state}) \cup Numbers(txs[k][tx[k]].rows)
      /\ \A j \in Kinds : j # k => RowsIn(j, {state})' = RowsIn(j, {state})
  BY <1>1, <1>2, RowsInJoined
<1>5. txs'[k][tx[k]].state = state /\ \A j \in Kinds : j # k => txs'[j] = txs[j]
  BY <1>1, ChangesFacts DEF InState
<1>6. /\ Pending(k) = Numbers(txs[k][tx[k]].rows) /\ Pending(k)' = {}
      /\ \A j \in Kinds : j # k => Pending(j)' = Pending(j)
  BY <1>2, <1>5 DEF Pending, Unfinished
<1>7. CASE state = "committed"
  <2>1. Promise!Flush(k)
    BY <1>3, <1>4, <1>6, <1>7 DEF Promise!Flush
  <2>2. QED
    BY <2>1 DEF Promise!Next
<1>8. CASE state = "failed"
  <2>1. Promise!Drop(k)
    BY <1>3, <1>4, <1>6, <1>8 DEF Promise!Drop
  <2>2. QED
    BY <2>1 DEF Promise!Next
<1>9. QED
  BY <1>7, <1>8 DEF Finished

\* A statement that fails, and a transaction that begins, take no sample away.
LEMMA PromiseFails ==
    ASSUME Typed, Serial, NEW k \in Kinds, SampleFails(k)
    PROVE  UNCHANGED Promise!vars
<1>1. /\ stmt[k] = tx[k] /\ stmt[k] \in 1..Len(txs[k])
      /\ txs[k][stmt[k]].state = "open" /\ tx' = tx
  BY OpenIsCurrent DEF SampleFails
<1> DEFINE t == InState(txs[k][stmt[k]], "aborted")
<1>2. t \in Transactions /\ Changes(k, stmt[k], t)
  BY FailsChanges
<1>3. t.state = "aborted" /\ t.rows = txs[k][tx[k]].rows
  BY <1>1 DEF InState
<1>4. \A j \in Kinds : /\ RowsIn(j, {"committed"})' = RowsIn(j, {"committed"})
                       /\ RowsIn(j, {"failed"})' = RowsIn(j, {"failed"})
  <2>1. ASSUME NEW state \in Finished
        PROVE  \A j \in Kinds : RowsIn(j, {state})' = RowsIn(j, {state})
    <3>1. t.state \notin {state} /\ txs[k][stmt[k]].state \notin {state}
      BY <1>1, <1>3 DEF Finished
    <3>2. QED
      BY <1>1, <1>2, <3>1, RowsInChanged
  <2>2. QED
    BY <2>1 DEF Finished
<1>5. txs'[k][tx[k]] = t /\ \A j \in Kinds : j # k => txs'[j] = txs[j]
  BY <1>1, <1>2, ChangesFacts
<1>6. \A j \in Kinds : Pending(j)' = Pending(j)
  BY <1>1, <1>3, <1>5 DEF Pending
<1>7. QED
  BY <1>4, <1>6, PromiseSame

\* Beginning a transaction changes no promise: the one before it is finished.
LEMMA PromiseBegins ==
    ASSUME Typed, Serial, NEW k \in Kinds, Begin(k)
    PROVE  UNCHANGED Promise!vars
<1>1. Open \in Transactions
  BY DEF Open, Transactions, States
<1>2. txs[k] \in Seq(Transactions) /\ tx[k] = Len(txs[k]) /\ tx[k] \in Nat
      /\ tx[k] \in DOMAIN txs[k]
  BY DEF Typed
<1>3. txs' = [txs EXCEPT ![k] = Append(txs[k], Open)] /\ tx' = [tx EXCEPT ![k] = tx[k] + 1]
  BY <1>1, <1>2 DEF Begin, Typed
<1>4. /\ DOMAIN txs'[k] = 1..(tx[k] + 1) /\ txs'[k][tx[k] + 1] = Open
      /\ DOMAIN txs[k] = 1..tx[k] /\ \A i \in 1..tx[k] : txs'[k][i] = txs[k][i]
      /\ \A j \in Kinds : j # k => txs'[j] = txs[j] /\ tx'[j] = tx[j]
      /\ tx'[k] = tx[k] + 1
  BY <1>1, <1>2, <1>3 DEF Typed
<1>5. txs[k][tx[k]].state \in Finished
  BY DEF Begin, Moves, Serial
<1>6. \A j \in Kinds : Pending(j)' = Pending(j)
  <2>1. Pending(k) = {} /\ Pending(k)' = {}
    BY <1>4, <1>5 DEF Pending, Finished, Open, Numbers
  <2>2. QED
    BY <1>4, <2>1 DEF Pending
<1>7. ASSUME NEW j \in Kinds, NEW state \in Finished, NEW n
      PROVE  n \in RowsIn(j, {state})' <=> n \in RowsIn(j, {state})
  <2>1. CASE j # k
    BY <1>4, <2>1, RowsInFacts, RowsInFactsPrime
  <2>2. CASE j = k
    <3>1. \A i \in DOMAIN txs'[k] : \/ i \in DOMAIN txs[k] /\ txs'[k][i] = txs[k][i]
                                    \/ txs'[k][i].rows = {}
      BY <1>2, <1>4 DEF Open
    <3>2. \A i \in DOMAIN txs[k] : i \in DOMAIN txs'[k] /\ txs'[k][i] = txs[k][i]
      BY <1>2, <1>4
    <3>3. QED
      BY <2>2, <3>1, <3>2, RowsInFacts, RowsInFactsPrime
  <2>3. QED
    BY <2>1, <2>2
<1>8. \A j \in Kinds : /\ RowsIn(j, {"committed"})' = RowsIn(j, {"committed"})
                       /\ RowsIn(j, {"failed"})' = RowsIn(j, {"failed"})
  BY <1>7 DEF Finished
<1>9. QED
  BY <1>6, <1>8, PromiseSame

\* A commit that fails drops what is pending, if there is anything.
LEMMA PromiseDrops ==
    ASSUME Typed, NEW k \in Kinds, TxFails(k)
    PROVE  Promise!Next \/ UNCHANGED Promise!vars
<1>1. tx' = tx /\ tx[k] \in 1..Len(txs[k]) /\ txs[k][tx[k]] \in Transactions
  BY TxFacts DEF TxFails
<1>2. CASE txs[k][tx[k]].state \in Unfinished
  <2>1. /\ InState(txs[k][tx[k]], "failed") \in Transactions
        /\ Changes(k, tx[k], InState(txs[k][tx[k]], "failed"))
    BY <1>2, DropsChanges DEF Unfinished
  <2>2. QED
    BY <1>1, <1>2, <2>1, PromiseEnds DEF Finished
<1>3. CASE txs[k][tx[k]].state \notin Unfinished
  <2>1. InState(txs[k][tx[k]], txs[k][tx[k]].state) = txs[k][tx[k]]
    BY <1>1 DEF InState, Transactions
  <2>2. txs[k][tx[k]].state \in {"committed", "failed"}
    BY <1>1, <1>3 DEF Transactions, States, Unfinished
  <2>3. Changes(k, tx[k], txs[k][tx[k]])
    BY <2>1, <2>2, DropsChanges
  <2>4. txs' = txs
    BY <2>3 DEF Changes, Typed
  <2>5. QED
    BY <1>1, <2>4, PromiseSame DEF Pending, RowsIn
<1>4. QED
  BY <1>2, <1>3

(***************************************************************************)
(* psql keeps the promise of SampleStore: whatever Commits overlap with    *)
(* whatever samples, an accepted sample is committed with the others of    *)
(* its kind, or dropped with them by a commit that fails.                  *)
(***************************************************************************)
THEOREM StoresCorrect == Spec => StoresSamples
<1>1. Init => Promise!Init
  <2> SUFFICES ASSUME Init PROVE Promise!Init
    OBVIOUS
  <2>1. \A k \in Kinds : txs[k] = <<Open>> /\ tx[k] = 1
    BY DEF Init
  <2>2. \A k \in Kinds : DOMAIN txs[k] = {1} /\ txs[k][1].rows = {}
    BY <2>1 DEF Open
  <2>3. \A k \in Kinds : /\ Pending(k) = {}
                         /\ RowsIn(k, {"committed"}) = {}
                         /\ RowsIn(k, {"failed"}) = {}
    BY <2>1, <2>2 DEF Pending, RowsIn, Numbers
  <2>4. QED
    BY <2>3 DEF Promise!Init
<1>2. Typed /\ Serial /\ Counters /\ RowsKnown /\ [Next]_vars => [Promise!Next]_Promise!vars
  <2> SUFFICES ASSUME Typed, Serial, Counters, RowsKnown, [Next]_vars
               PROVE  Promise!Next \/ UNCHANGED Promise!vars
    OBVIOUS
  <2>1. ASSUME NEW k \in Kinds, SampleTaken(k) PROVE Promise!Next
    BY <2>1, PromiseTaken
  <2>2. ASSUME NEW k \in Kinds, SampleFails(k) PROVE UNCHANGED Promise!vars
    BY <2>2, PromiseFails
  <2>3. ASSUME NEW k \in Kinds, TxCommits(k) PROVE Promise!Next
    BY <2>3, CommitsChanges, PromiseEnds DEF TxCommits, Unfinished, Finished
  <2>4. ASSUME NEW k \in Kinds, TxFails(k) PROVE Promise!Next \/ UNCHANGED Promise!vars
    BY <2>4, PromiseDrops
  <2>5. ASSUME NEW k \in Kinds, Begin(k) PROVE UNCHANGED Promise!vars
    BY <2>5, PromiseBegins
  <2>6. CASE UNCHANGED <<txs, tx>>
    BY <2>6, PromiseSame DEF Pending, RowsIn
  <2>7. QED
    BY <2>1, <2>2, <2>3, <2>4, <2>5, <2>6
       DEF Next, PersistFlow, PersistSample, Committing, Gone, vars, bulk,
           FlowCached, FlowSynced, FlowFails, NextSession, SampleRefused, SamplePanics,
           Commit, Lock, BeginFails, Prepare, PrepareFails, ProcessEnds
<1>3. Init => Counters /\ IdsOfTable /\ RowsKnown
  BY StoreAssumption DEF Init, Counters, IdsOfTable, RowsKnown, Open, NoFlow, NoId
<1>4. QED
  BY <1>1, <1>2, <1>3, TypedCorrect, SerialCorrect, CountersNext, IdsNext, RowsKnownNext,
     PTL DEF Spec, StoresSamples, Promise!Spec

=============================================================================

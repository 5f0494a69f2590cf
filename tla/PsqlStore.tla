----------------------------- MODULE PsqlStore -----------------------------
(***************************************************************************)
(* internal/persistence/psql/psql.go, as one process uses it.  Packet and  *)
(* queue samples go into a transaction each, through a statement that is   *)
(* prepared in it.  Commit starts a goroutine per kind that commits the    *)
(* transaction, begins the next and prepares its statement, under a mutex  *)
(* per kind that Persist does not take.  Network flows are stored at once  *)
(* and kept in a cache until the session is over.                          *)
(*                                                                         *)
(* The callers are the aggregation (flows), the persistor (samples and     *)
(* Commit), exit_clean (Commit) and Benchmark.play_session (ClearCache).   *)
(* Of a transaction of the database the model knows that a statement that  *)
(* fails aborts it, that an aborted one cannot be committed, and that a    *)
(* finished one takes no statement.                                        *)
(***************************************************************************)
EXTENDS Integers, Sequences

CONSTANTS
    Flows,         \* the values of MeasureIdStr: addresses and ports
    Programs,      \* the programs that use it: "drplay", "drbenchmark"
    MaxSamples,    \* bound: how many samples are persisted
    MaxCommits,    \* bound: how often Commit is called
    MaxSessions,   \* bound: how many sessions a benchmark has
    MaxFaults      \* bound: how often the database fails

ASSUME StoreAssumption ==
    /\ Programs \subseteq {"drplay", "drbenchmark"}
    /\ {MaxSamples, MaxCommits, MaxFaults} \subseteq Nat
    /\ MaxSessions \in Nat \ {0}

Kinds == {"packet", "queue"}

VARIABLES
    program,
    process,       \* "running", "exiting" (in FATAL.Exit), "gone"
    txs,           \* the transactions of each kind: their state and rows
    tx,            \* txMP and txMQ: the number of the current one
    stmt,          \* stmt_packet and stmt_queue: the transaction they are
                   \* prepared in, 0 for nil
    at,            \* how many goroutines of Commit stand at each step
    cache,         \* knownFlowsByMeasure_ID: the Flow_id kept for a flow
    db_flows,      \* the table network_flow: row i has flow_id i
    session,       \* the number of the session being played
    handed,        \* the Flow_id that the flows of the aggregation carry
    aggregating,   \* the aggregation of the session has not given up
    samples, commits, faults   \* how many there were so far

calls == <<samples, commits, faults>>
flows == <<cache, db_flows, session, handed, aggregating>>
bulk == <<txs, tx, stmt, at>>
vars == <<program, process, bulk, flows, calls>>

NoFlow == -1       \* not in the cache
NoId == 0          \* the Flow_id of a flow that was never stored

Running == process # "gone"

Steps == {"lock", "commit", "begin", "prepare", "exit"}

Open == [state |-> "open", rows |-> {}]

-----------------------------------------------------------------------------

\* Init(login): prep_bulk_stmts has opened both transactions.
Init ==
    /\ program \in Programs
    /\ process = "running"
    /\ txs = [k \in Kinds |-> <<Open>>]
    /\ tx = [k \in Kinds |-> 1]
    /\ stmt = [k \in Kinds |-> 1]
    /\ at = [k \in Kinds |-> [s \in Steps |-> 0]]
    /\ cache = [f \in Flows |-> NoFlow]
    /\ db_flows = <<>>
    /\ session = 1
    /\ handed = [f \in Flows |-> NoId]
    /\ aggregating = TRUE
    /\ samples = 0
    /\ commits = 0
    /\ faults = 0

Fault ==
    /\ faults < MaxFaults
    /\ faults' = faults + 1

-----------------------------------------------------------------------------
(* persist_flow                                                            *)

Row(f) == [session |-> session, flow |-> f]

\* In the cache: the flow takes over its Flow_id.
FlowCached(f) ==
    /\ Running /\ aggregating
    /\ cache[f] # NoFlow
    /\ handed' = [handed EXCEPT ![f] = cache[f]]
    /\ UNCHANGED <<program, process, bulk, cache, db_flows, session, aggregating, calls>>

\* The flow_ids of the rows that Sync's select finds.
Found(f) == {id \in DOMAIN db_flows : db_flows[id] = Row(f)}

\* Sync: select, and insert when there is no such row.
FlowSynced(f) ==
    /\ Running /\ aggregating
    /\ cache[f] = NoFlow
    /\ \E id \in IF Found(f) = {} THEN {Len(db_flows) + 1} ELSE Found(f) :
           /\ cache' = [cache EXCEPT ![f] = id]
           /\ handed' = [handed EXCEPT ![f] = id]
    /\ db_flows' = IF Found(f) = {} THEN Append(db_flows, Row(f)) ELSE db_flows
    /\ UNCHANGED <<program, process, bulk, session, aggregating, calls>>

\* Sync fails.  The flow is cached all the same; the aggregation gives up.
FlowFails(f) ==
    /\ Running /\ aggregating
    /\ cache[f] = NoFlow
    /\ Fault
    /\ cache' = [cache EXCEPT ![f] = NoId]
    /\ aggregating' = FALSE
    /\ UNCHANGED <<program, process, bulk, db_flows, session, handed, samples, commits>>

-----------------------------------------------------------------------------
(* persist_measure_packet and persist_measurequeue                         *)

\* A packet sample refers to a flow, a queue sample to the session only.
Carried(k) ==
    IF k = "packet" THEN {handed[f] : f \in Flows} \ {NoId} ELSE {NoId}

NextSample(k, id) == [n |-> samples + 1, session |-> session, flow_id |-> id]

\* The statement's transaction has not been finished: the row is in it.
SampleTaken(k) ==
    /\ Running
    /\ samples < MaxSamples
    /\ stmt[k] # 0
    /\ txs[k][stmt[k]].state = "open"
    /\ \E id \in Carried(k) :
           txs' = [txs EXCEPT ![k][stmt[k]].rows = @ \cup {NextSample(k, id)}]
    /\ samples' = samples + 1
    /\ UNCHANGED <<program, process, tx, stmt, at, flows, commits, faults>>

\* The transaction is aborted, or finished while its successor is not ready.
SampleRefused(k) ==
    /\ Running
    /\ samples < MaxSamples
    /\ Carried(k) # {}
    /\ stmt[k] # 0
    /\ txs[k][stmt[k]].state # "open"
    /\ samples' = samples + 1
    /\ UNCHANGED <<program, process, bulk, flows, commits, faults>>

\* The statement fails and takes the transaction with it.
SampleFails(k) ==
    /\ Running
    /\ samples < MaxSamples
    /\ Carried(k) # {}
    /\ stmt[k] # 0
    /\ txs[k][stmt[k]].state = "open"
    /\ Fault
    /\ txs' = [txs EXCEPT ![k][stmt[k]].state = "aborted"]
    /\ samples' = samples + 1
    /\ UNCHANGED <<program, process, tx, stmt, at, flows, commits>>

\* A nil statement: the persistor panics.
SamplePanics(k) ==
    /\ Running
    /\ samples < MaxSamples
    /\ Carried(k) # {}
    /\ stmt[k] = 0
    /\ process' = "gone"
    /\ UNCHANGED <<program, bulk, flows, calls>>

-----------------------------------------------------------------------------
(* Commit                                                                  *)

\* It starts the goroutines and returns.
Commit ==
    /\ Running
    /\ commits < MaxCommits
    /\ commits' = commits + 1
    /\ at' = [k \in Kinds |-> [at[k] EXCEPT !["lock"] = @ + 1]]
    /\ UNCHANGED <<program, process, txs, tx, stmt, flows, samples, faults>>

\* A goroutine goes from one step to the next.
Moves(k, from, to) ==
    /\ Running
    /\ at[k][from] > 0
    /\ at' = [at EXCEPT ![k][from] = @ - 1, ![k][to] = @ + 1]

\* A goroutine returns.
Returns(k, from) ==
    /\ Running
    /\ at[k][from] > 0
    /\ at' = [at EXCEPT ![k][from] = @ - 1]

\* txMpMutex or txMqMutex is held.
Locked(k) == \E s \in Steps \ {"lock"} : at[k][s] > 0

\* Slip (StoresSamples): Commit without the mutexes.
LockNothing(k) ==
    /\ Moves(k, "lock", "commit")
    /\ UNCHANGED <<program, process, txs, tx, stmt, flows, calls>>

Lock(k) ==
    /\ ~Locked(k)
    /\ Moves(k, "lock", "commit")
    /\ UNCHANGED <<program, process, txs, tx, stmt, flows, calls>>

\* FATAL.Exit ends drplay within seconds, through the function it has
\* linked.  drbenchmark has linked none, so there it returns.
Exit == process' = IF program = "drplay" THEN "exiting" ELSE process

\* After FATAL.Exit the goroutine goes on, or keeps what it has locked.
AfterExit(to) == IF program = "drplay" THEN "exit" ELSE to

TxCommits(k) ==
    /\ Moves(k, "commit", "begin")
    /\ txs[k][tx[k]].state = "open"
    /\ txs' = [txs EXCEPT ![k][tx[k]].state = "committed"]
    /\ UNCHANGED <<program, process, tx, stmt, flows, calls>>

\* The transaction is aborted, or the database fails: its rows are gone.
TxFails(k) ==
    /\ Moves(k, "commit", AfterExit("begin"))
    /\ \/ txs[k][tx[k]].state # "open" /\ UNCHANGED faults
       \/ txs[k][tx[k]].state = "open" /\ Fault
    /\ txs' = [txs EXCEPT ![k][tx[k]].state = IF @ = "committed" THEN @ ELSE "failed"]
    /\ Exit
    /\ UNCHANGED <<program, tx, stmt, flows, samples, commits>>

Begin(k) ==
    /\ Moves(k, "begin", "prepare")
    /\ txs' = [txs EXCEPT ![k] = Append(@, Open)]
    /\ tx' = [tx EXCEPT ![k] = Len(txs'[k])]
    /\ UNCHANGED <<program, process, stmt, flows, calls>>

\* The transaction is nil: where FATAL.Exit returns, its Prepare panics.
BeginFails(k) ==
    /\ Moves(k, "begin", "exit")
    /\ Fault
    /\ process' = IF program = "drplay" THEN "exiting" ELSE "gone"
    /\ UNCHANGED <<program, txs, tx, stmt, flows, samples, commits>>

\* Slip (TypeOK): the mutex is released here and by a defer.
PrepareUnlocksTwice(k) ==
    /\ Running
    /\ at[k]["prepare"] > 0
    /\ at' = [at EXCEPT ![k]["prepare"] = @ - 2]
    /\ stmt' = [stmt EXCEPT ![k] = tx[k]]
    /\ UNCHANGED <<program, process, txs, tx, flows, calls>>

\* Slip (CommitMakesDurable): the mutex is not released.
PrepareKeepsLock(k) ==
    /\ Moves(k, "prepare", "exit")
    /\ stmt' = [stmt EXCEPT ![k] = tx[k]]
    /\ UNCHANGED <<program, process, txs, tx, flows, calls>>

\* The statement is prepared, the mutex released.
Prepare(k) ==
    /\ Returns(k, "prepare")
    /\ stmt' = [stmt EXCEPT ![k] = tx[k]]
    /\ UNCHANGED <<program, process, txs, tx, flows, calls>>

\* The mutex is released before FATAL.Exit is called.
PrepareFails(k) ==
    /\ Returns(k, "prepare")
    /\ Fault
    /\ stmt' = [stmt EXCEPT ![k] = 0]
    /\ Exit
    /\ UNCHANGED <<program, txs, tx, flows, samples, commits>>

-----------------------------------------------------------------------------

\* Slip (RowsReferToFlows): the cache is not cleared.
NextSessionKeepsCache ==
    /\ process = "running"
    /\ program = "drbenchmark"
    /\ session < MaxSessions
    /\ session' = session + 1
    /\ handed' = [f \in Flows |-> NoId]
    /\ aggregating' = TRUE
    /\ UNCHANGED <<program, process, bulk, cache, db_flows, calls>>

\* play_session is over and calls ClearCache; the next one begins.
NextSession ==
    /\ process = "running"
    /\ program = "drbenchmark"
    /\ session < MaxSessions
    /\ session' = session + 1
    /\ cache' = [f \in Flows |-> NoFlow]
    /\ handed' = [f \in Flows |-> NoId]
    /\ aggregating' = TRUE
    /\ UNCHANGED <<program, process, bulk, db_flows, calls>>

\* main returns, the linked function panics, or somebody kills the process:
\* nobody waits for the goroutines of Commit.
ProcessEnds ==
    /\ Running
    /\ process' = "gone"
    /\ UNCHANGED <<program, bulk, flows, calls>>

-----------------------------------------------------------------------------

PersistFlow == \E f \in Flows : FlowCached(f) \/ FlowSynced(f) \/ FlowFails(f)

PersistSample ==
    \E k \in Kinds : SampleTaken(k) \/ SampleRefused(k) \/ SampleFails(k) \/ SamplePanics(k)

Committing(k) ==
    \/ Lock(k)
    \/ TxCommits(k) \/ TxFails(k)
    \/ Begin(k) \/ BeginFails(k)
    \/ Prepare(k) \/ PrepareFails(k)

\* The process is gone.
Gone == ~Running /\ UNCHANGED vars

Next ==
    \/ PersistFlow
    \/ PersistSample
    \/ Commit
    \/ \E k \in Kinds : Committing(k)
    \/ NextSession
    \/ ProcessEnds
    \/ Gone

(***************************************************************************)
(* The goroutines of Commit are scheduled, and the database answers them;  *)
(* nobody is obliged to call anything.  FATAL.Exit ends the process by its *)
(* timeout at the latest.                                                  *)
(***************************************************************************)
Fairness ==
    /\ \A k \in Kinds : WF_vars(Committing(k))
    /\ WF_vars(process = "exiting" /\ ProcessEnds)

Spec == Init /\ [][Next]_vars /\ Fairness

-----------------------------------------------------------------------------

SampleRows ==
    [n : 1..MaxSamples, session : 1..MaxSessions, flow_id : 0..Len(db_flows)]

TypeOK ==
    /\ program \in Programs
    /\ process \in {"running", "exiting", "gone"}
    /\ \A k \in Kinds :
           /\ tx[k] \in DOMAIN txs[k]
           /\ stmt[k] \in 0..tx[k]
           /\ \A i \in DOMAIN txs[k] :
                  /\ txs[k][i].state \in {"open", "aborted", "committed", "failed"}
                  /\ txs[k][i].rows \subseteq SampleRows
    /\ at \in [Kinds -> [Steps -> 0..MaxCommits]]
    /\ db_flows \in Seq([session : 1..MaxSessions, flow : Flows])
    /\ cache \in [Flows -> NoFlow..Len(db_flows)]
    /\ handed \in [Flows -> 0..Len(db_flows)]
    /\ session \in 1..MaxSessions
    /\ aggregating \in BOOLEAN
    /\ samples \in 0..MaxSamples
    /\ commits \in 0..MaxCommits
    /\ faults \in 0..MaxFaults

-----------------------------------------------------------------------------

Numbers(rows) == {r.n : r \in rows}

\* The rows of the transactions of a kind that are in one of the states.
RowsIn(k, states) ==
    UNION {Numbers(txs[k][i].rows) : i \in {j \in DOMAIN txs[k] : txs[k][j].state \in states}}

\* What the next Commit of a kind is going to commit.
Pending(k) ==
    IF txs[k][tx[k]].state \in {"open", "aborted"}
    THEN Numbers(txs[k][tx[k]].rows)
    ELSE {}

Promise == INSTANCE SampleStore WITH
    Samples <- 1..MaxSamples,
    pending <- [k \in Kinds |-> Pending(k)],
    durable <- [k \in Kinds |-> RowsIn(k, {"committed"})],
    dropped <- [k \in Kinds |-> RowsIn(k, {"failed"})]

(***************************************************************************)
(* A sample that Persist has accepted is committed with the others of its  *)
(* kind or dropped with them by a commit that fails, and nothing else ever *)
(* happens to it, although Persist takes no mutex and Commits overlap.     *)
(***************************************************************************)
StoresSamples == Promise!Spec

(***************************************************************************)
(* A packet sample refers to a row of network_flow that belongs to its own *)
(* session: neither an id that was never set, cached after a failed Sync,  *)
(* nor one cached in the session before.                                   *)
(***************************************************************************)
RowsReferToFlows ==
    \A i \in DOMAIN txs["packet"] : \A r \in txs["packet"][i].rows :
        r.flow_id \in DOMAIN db_flows /\ db_flows[r.flow_id].session = r.session

(***************************************************************************)
(* What is pending when Commit is called gets durable or is dropped by a   *)
(* commit that fails, unless the process ends first: no Commit waits for   *)
(* ever for the mutex, and no transaction is forgotten.                    *)
(***************************************************************************)
CommitMakesDurable ==
    \A k \in Kinds : \A n \in 1..MaxSamples :
        (n \in Pending(k) /\ at[k]["lock"] > 0) ~>
            (n \in RowsIn(k, {"committed", "failed"}) \/ ~Running)

=============================================================================

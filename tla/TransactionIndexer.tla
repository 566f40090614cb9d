------------------------- MODULE TransactionIndexer -------------------------
(***************************************************************************)
(* The transaction indexer: a thread of the node that follows the chain    *)
(* through Tendermint's RPC and writes transactions, positions, rewards,   *)
(* counters and events to RocksDB one put at a time (indexer/sync.rs,      *)
(* storage/rocksdb/indexer.rs).  The chain grows meanwhile, the process    *)
(* may stop at any put, a call or a put may fail, and the HTTP interface   *)
(* reads the counters while they are written.                              *)
(***************************************************************************)
EXTENDS Integers, Sequences, FiniteSets

CONSTANTS
  Txs,         \* transactions, identified by their hash
  Sender,      \* [Txs -> addresses]
  Type,        \* [Txs -> payload types]
  Provider,    \* [Txs -> capacity provider of a VerifiedProof, or None]
  Reports,     \* the VerifiedProofs with failed = true
  None,
  MaxHeight,   \* bound: blocks; below ten, decimal keys sort as numbers
  MaxPerBlock, \* bound: transactions of a block
  MaxIncluded, \* bound: transactions in the blocks, repetitions included
  MaxMishaps   \* bound: stops of the process, failing calls and puts

ASSUME NoneIsNoHeight == None \notin Int

VARIABLES
  chain,      \* committed blocks, each a sequence of [tx, ok]
  cursor,     \* meta:indexer:last_synced_height
  primary,    \* tx id -> [pos, ok]
  blockPos,   \* block_pos: position -> tx id
  lookups,    \* block_height:, sender: and type: rows, which nothing reads
  rewards,    \* vp: rows, as <<provider, position>>
  rollup,     \* _meta:verified_proof_global_rewards_count
  total,      \* _meta:indexed_transactions_primary_total
  events,     \* [rows: tx ids with their event, keys: position -> tx id]
  sync,       \* the thread: program counter and locals
  reader,     \* an HTTP request that repairs the total
  stops, faults

vars == <<chain, cursor, primary, blockPos, lookups, rewards, rollup, total,
          events, sync, reader, stops, faults>>
store == <<cursor, primary, blockPos, lookups, rewards, rollup, total, events>>

Included == {p \in (1..MaxHeight) \X (1..MaxPerBlock) :
               p[1] <= Len(chain) /\ p[2] <= Len(chain[p[1]])}
At(p) == chain[p[1]][p[2]]
Inclusions(t) == {p \in Included : At(p).tx = t}
Older(p, q) == p[1] < q[1] \/ (p[1] = q[1] /\ p[2] < q[2])
Newest(P) == CHOOSE p \in P : \A q \in P : ~Older(p, q)

(* Tendermint's /tx answers with the last inclusion of the hash. *)
GetTxByHash(t) == At(Newest(Inclusions(t)))

IsReward(t, ok) == ok /\ Provider[t] # None /\ t \notin Reports

-----------------------------------------------------------------------------
(* The thread. *)

Thread(pc, h, repair) ==
  [pc |-> pc, h |-> h, i |-> 0, full |-> TRUE, repair |-> repair,
   ok |-> FALSE, present |-> FALSE]
Started == Thread("start", 0, FALSE)
Looping == Thread("next", 0, FALSE)

(* The next transaction of the block, or the end of the block.             *)
ToPosition(s, i) ==
  IF i <= Len(chain[s.h]) THEN [s EXCEPT !.pc = "tx", !.i = i]
  ELSE IF s.repair THEN Looping ELSE [s EXCEPT !.pc = "block"]

Position == <<sync.h, sync.i>>
Tx == At(Position).tx
Step(pc) == sync' = [sync EXCEPT !.pc = pc]
NextPosition == sync' = ToPosition(sync, sync.i + 1)

Init ==
  /\ chain = <<>> /\ cursor = None /\ primary = <<>> /\ blockPos = <<>>
  /\ lookups = {} /\ rewards = {} /\ rollup = 0 /\ total = None
  /\ events = [rows |-> {}, keys |-> {}]
  /\ sync = Started /\ reader = None /\ stops = 0 /\ faults = 0

(* External: a block of up to MaxPerBlock transactions.  A failed one may  *)
(* come again, as Tendermint forgets it.                                    *)
CommitBlock ==
  /\ Len(chain) < MaxHeight
  /\ \E n \in {m \in 0..MaxPerBlock : Cardinality(Included) + m <= MaxIncluded} :
     \E b \in [1..n -> [tx : Txs, ok : BOOLEAN]] :
       /\ \A j \in 1..n : \A p \in Inclusions(b[j].tx) : ~At(p).ok
       /\ \A j, k \in 1..n : b[j].tx = b[k].tx => j = k
       /\ chain' = Append(chain, b)
  /\ UNCHANGED <<store, sync, reader, stops, faults>>

StartupRepair ==
  /\ sync.pc = "start"
  /\ sync' = IF cursor = None THEN Looping
             ELSE ToPosition(Thread("start", cursor, TRUE), 1)
  /\ UNCHANGED <<chain, store, reader, stops, faults>>

(* Mutant: height 0 is asked for first, which Tendermint refuses. *)
FromZero(c) == IF c = None THEN 0 ELSE c + 1
NextHeight(c) == IF c = None THEN 1 ELSE c + 1

(* get_block of a height that is not committed fails and is tried again. *)
GetBlock ==
  /\ sync.pc = "next"
  /\ \E h \in {NextHeight(cursor)} :
       /\ h \in 1..Len(chain)
       /\ sync' = ToPosition(Thread("next", h, FALSE), 1)
  /\ UNCHANGED <<chain, store, reader, stops, faults>>

(* The repair leaves the positions it finds indexed. *)
Skipped == sync.repair /\ Position \in DOMAIN blockPos

FetchTx ==
  /\ sync.pc = "tx"
  /\ IF Skipped THEN NextPosition
     ELSE sync' = [sync EXCEPT !.pc = "primary", !.ok = GetTxByHash(Tx).ok]
  /\ UNCHANGED <<chain, store, reader, stops, faults>>

(* Mutant: a row that is there is kept as it is. *)
PrimaryKept(t, row) ==
  IF t \in DOMAIN primary THEN primary
  ELSE [u \in DOMAIN primary \cup {t} |-> IF u = t THEN row ELSE primary[u]]
WithPrimary(t, row) ==
  [u \in DOMAIN primary \cup {t} |-> IF u = t THEN row ELSE primary[u]]
WithPosition(p, t) ==
  [q \in DOMAIN blockPos \cup {p} |-> IF q = p THEN t ELSE blockPos[q]]

(* Mutant: the position is written first. *)
PositionFirst ==
  /\ sync.pc = "primary"
  /\ blockPos' = WithPosition(Position, Tx)
  /\ sync' = [sync EXCEPT !.pc = "position", !.present = Tx \in DOMAIN primary]
  /\ UNCHANGED <<chain, cursor, primary, lookups, rewards, rollup, total, events,
                 reader, stops, faults>>
PutPrimary ==
  /\ sync.pc = "primary"
  /\ primary' = WithPrimary(Tx, [pos |-> Position, ok |-> sync.ok])
  /\ sync' = [sync EXCEPT !.pc = "position", !.present = Tx \in DOMAIN primary]
  /\ UNCHANGED <<chain, cursor, blockPos, lookups, rewards, rollup, total, events,
                 reader, stops, faults>>
PutPosition ==
  /\ sync.pc = "position"
  /\ lookups' = lookups \cup {<<"block_height", Position>>}
  /\ blockPos' = WithPosition(Position, Tx)
  /\ Step("lookups")
  /\ UNCHANGED <<chain, cursor, primary, rewards, rollup, total, events, reader,
                 stops, faults>>

(* The total is counted for a new row only. *)
AfterRows == IF sync.present THEN "event" ELSE "total"

PutLookups ==
  /\ sync.pc = "lookups"
  /\ lookups' = lookups \cup {<<"sender", Tx>>, <<"type", Tx>>}
  /\ Step(IF IsReward(Tx, sync.ok) THEN "reward" ELSE AfterRows)
  /\ UNCHANGED <<chain, cursor, primary, blockPos, rewards, rollup, total, events,
                 reader, stops, faults>>
PutReward ==
  /\ sync.pc = "reward"
  /\ rewards' = rewards \cup {<<Provider[Tx], Position>>}
  /\ Step("rollup")
  /\ UNCHANGED <<chain, cursor, primary, blockPos, lookups, rollup, total, events,
                 reader, stops, faults>>

BumpRollup ==
  /\ sync.pc = "rollup"
  /\ rollup' = rollup + 1
  /\ Step(AfterRows)
  /\ UNCHANGED <<chain, cursor, primary, blockPos, lookups, rewards, total, events,
                 reader, stops, faults>>
BumpTotal ==
  /\ sync.pc = "total"
  /\ total' = IF total = None THEN Cardinality(DOMAIN primary) ELSE total + 1
  /\ Step("event")
  /\ UNCHANGED <<chain, cursor, primary, blockPos, lookups, rewards, rollup, events,
                 reader, stops, faults>>

(* A successful transaction has one event, a failed one none. *)
PutEvent ==
  /\ sync.pc = "event"
  /\ IF sync.ok
     THEN /\ events' = [events EXCEPT !.rows = @ \cup {Tx}]
          /\ Step("eventkeys")
     ELSE UNCHANGED events /\ NextPosition
  /\ UNCHANGED <<chain, cursor, primary, blockPos, lookups, rewards, rollup, total,
                 reader, stops, faults>>
PutEventKeys ==
  /\ sync.pc = "eventkeys"
  /\ events' = [events EXCEPT !.keys = @ \cup {<<Position, Tx>>}]
  /\ NextPosition
  /\ UNCHANGED <<chain, cursor, primary, blockPos, lookups, rewards, rollup, total,
                 reader, stops, faults>>

(* Mutant: the cursor passes a block that is not fully written. *)
AdvanceAnyway ==
  /\ sync.pc = "block"
  /\ cursor' = sync.h
  /\ sync' = Looping
  /\ UNCHANGED <<chain, primary, blockPos, lookups, rewards, rollup, total, events,
                 reader, stops, faults>>
AdvanceCursor ==
  /\ sync.pc = "block"
  /\ cursor' = IF sync.full THEN sync.h ELSE cursor
  /\ sync' = Looping
  /\ UNCHANGED <<chain, primary, blockPos, lookups, rewards, rollup, total, events,
                 reader, stops, faults>>

(* A failing call or put ends the transaction, and the block is done again *)
(* from its start; one of an event is logged.  A repair goes on, unless it *)
(* could not read the block or a position.                                 *)
AfterFault ==
  CASE sync.pc \in {"start", "block"}      -> Looping
    [] sync.pc \in {"event", "eventkeys"}  -> ToPosition(sync, sync.i + 1)
    [] OTHER -> ToPosition([sync EXCEPT !.full = FALSE], sync.i + 1)
Fail ==
  /\ stops + faults < MaxMishaps
  /\ sync.pc # "next"
  /\ sync.pc = "start" => cursor # None
  /\ faults' = faults + 1
  /\ \/ sync' = AfterFault
     \/ sync.pc = "tx" /\ sync.repair /\ sync' = Looping
  /\ UNCHANGED <<chain, store, reader, stops>>

Stop ==
  /\ stops + faults < MaxMishaps
  /\ stops' = stops + 1
  /\ sync' = Started /\ reader' = None
  /\ UNCHANGED <<chain, store, faults>>

-----------------------------------------------------------------------------
(* A request for the total that finds none counts the rows and writes the  *)
(* count, without the lock of bump_indexed_transaction_primary_total_count. *)
ReadTotal ==
  /\ reader = None /\ total = None
  /\ reader' = [pc |-> "count", n |-> 0]
  /\ UNCHANGED <<chain, store, sync, stops, faults>>
CountPrimaries ==
  /\ reader # None /\ reader.pc = "count"
  /\ reader' = [pc |-> "put", n |-> Cardinality(DOMAIN primary)]
  /\ UNCHANGED <<chain, store, sync, stops, faults>>
RepairTotal ==
  /\ reader # None /\ reader.pc = "put"
  /\ total' = reader.n /\ reader' = None
  /\ UNCHANGED <<chain, cursor, primary, blockPos, lookups, rewards, rollup, events,
                 sync, stops, faults>>

Sync ==
  \/ StartupRepair \/ GetBlock \/ FetchTx
  \/ PutPrimary \/ PutPosition \/ PutLookups \/ PutReward
  \/ BumpRollup \/ BumpTotal \/ PutEvent \/ PutEventKeys \/ AdvanceCursor
Read == ReadTotal \/ CountPrimaries \/ RepairTotal
Next == CommitBlock \/ Sync \/ Fail \/ Stop \/ Read

Spec == Init /\ [][Next]_vars
FairSpec == Spec /\ WF_vars(Sync)
=============================================================================

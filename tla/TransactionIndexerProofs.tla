---------------------- MODULE TransactionIndexerProofs ----------------------
(***************************************************************************)
(* That the cursor of the indexer never passes a block that is not listed, *)
(* and that listings never meet a position without its transaction, for    *)
(* any blocks, failing calls and puts, and stops.                          *)
(***************************************************************************)
EXTENDS TransactionIndexerProps, SequenceTheorems, TLAPS

Chains == Seq(Seq([tx : Txs, ok : BOOLEAN]))
CursorOK == cursor # None =>
              cursor \in 1..Len(chain) /\ \A h \in 1..cursor : BlockListed(h)

(* What the invariant is about. *)
index == <<chain, cursor, primary, blockPos>>

LEMMA InvParts ==
  IndexInv <=> chain \in Chains /\ CursorOK /\ ListingsNeverFail /\ SyncInv(sync)
  BY DEF IndexInv, Chains, CursorOK

(* Blocks have a length. *)
LEMMA BlockLength ==
  ASSUME chain \in Chains, NEW h \in 1..Len(chain)
  PROVE  Len(chain[h]) \in Nat
<1>1. chain[h] \in Seq([tx : Txs, ok : BOOLEAN])
  BY DEF Chains
<1> QED
  BY <1>1

(* Steps that leave the index alone need to account for the thread only.   *)
LEMMA SyncOnly ==
  ASSUME IndexInv, UNCHANGED index, SyncInv(sync')
  PROVE  IndexInv'
  BY DEF IndexInv, SyncInv, index, ListingsNeverFail, BlockListed, NextHeight

(* The loop's head and the start have nothing to account for. *)
LEMMA IdleInv ==
  ASSUME NEW pc \in {"start", "next"}
  PROVE  SyncInv(Thread(pc, 0, FALSE))
  BY DEF SyncInv, Thread, TxSteps, ListedSteps
LEMMA LoopingInv == SyncInv(Looping)
  BY IdleInv DEF Looping
LEMMA StartedInv == SyncInv(Started)
  BY IdleInv DEF Started

(* Going on to a position keeps the thread's invariant when the earlier    *)
(* ones are listed.                                                        *)
LEMMA ToPositionInv ==
  ASSUME chain \in Chains, NEW s, NEW i \in Nat \ {0},
         s = [pc |-> s.pc, h |-> s.h, i |-> s.i, full |-> s.full,
              repair |-> s.repair, ok |-> s.ok, present |-> s.present],
         s.full \in BOOLEAN, s.repair \in BOOLEAN,
         s.h \in 1..Len(chain), ~s.repair => s.h = NextHeight(cursor),
         (~s.repair /\ s.full) => \A j \in 1..(i - 1) : <<s.h, j>> \in DOMAIN blockPos,
         i - 1 <= Len(chain[s.h])
  PROVE  SyncInv(ToPosition(s, i))
<1>1. Len(chain[s.h]) \in Nat
  BY BlockLength
<1>2. CASE i <= Len(chain[s.h])
  <2>1. ToPosition(s, i) = [pc |-> "tx", h |-> s.h, i |-> i, full |-> s.full,
                            repair |-> s.repair, ok |-> s.ok, present |-> s.present]
    BY <1>2 DEF ToPosition
  <2> QED
    BY <1>1, <1>2, <2>1 DEF SyncInv, TxSteps, ListedSteps
<1>3. CASE ~(i <= Len(chain[s.h])) /\ s.repair
  BY <1>3, LoopingInv DEF ToPosition
<1>4. CASE ~(i <= Len(chain[s.h])) /\ ~s.repair
  <2>1. ToPosition(s, i) = [pc |-> "block", h |-> s.h, i |-> s.i, full |-> s.full,
                            repair |-> s.repair, ok |-> s.ok, present |-> s.present]
    BY <1>4 DEF ToPosition
  <2>2. i - 1 = Len(chain[s.h])
    BY <1>1, <1>4
  <2>3. s.full => BlockListed(s.h)
    BY <1>4, <2>2 DEF BlockListed
  <2> QED
    BY <1>4, <2>1, <2>3 DEF SyncInv, TxSteps, ListedSteps
<1> QED
  BY <1>2, <1>3, <1>4

(* From a transaction to the next, when it is listed or the block is no    *)
(* longer "full".                                                          *)
LEMMA NextPositionInv ==
  ASSUME IndexInv, sync.pc \in TxSteps,
         NEW s, s = [sync EXCEPT !.full = s.full], s.full \in BOOLEAN,
         (~s.repair /\ s.full) => sync.full /\ <<sync.h, sync.i>> \in DOMAIN blockPos
  PROVE  SyncInv(ToPosition(s, sync.i + 1))
<1>1. /\ chain \in Chains /\ SyncInv(sync)
      /\ sync.h \in 1..Len(chain) /\ sync.i \in 1..Len(chain[sync.h])
  BY InvParts DEF SyncInv, TxSteps, ListedSteps
<1>2. Len(chain[sync.h]) \in Nat
  BY <1>1, BlockLength
<1>3. /\ s = [pc |-> sync.pc, h |-> sync.h, i |-> sync.i, full |-> s.full,
              repair |-> sync.repair, ok |-> sync.ok, present |-> sync.present]
      /\ sync.repair \in BOOLEAN
      /\ ~sync.repair => sync.h = NextHeight(cursor)
  BY <1>1 DEF SyncInv, TxSteps, ListedSteps
<1>4. s.h = sync.h /\ s.i = sync.i /\ s.repair = sync.repair
  BY <1>3
<1>5. (~s.repair /\ s.full) =>
        \A j \in 1..((sync.i + 1) - 1) : <<s.h, j>> \in DOMAIN blockPos
  <2> SUFFICES ASSUME ~s.repair, s.full, NEW j \in 1..((sync.i + 1) - 1)
               PROVE  <<s.h, j>> \in DOMAIN blockPos
    OBVIOUS
  <2>1. j \in 1..(sync.i - 1) \/ j = sync.i
    BY <1>1, <1>2
  <2> QED
    BY <1>1, <1>4, <2>1 DEF SyncInv
<1>6. sync.i + 1 \in Nat \ {0} /\ (sync.i + 1) - 1 <= Len(chain[s.h])
  BY <1>1, <1>2, <1>4
<1>7. s = [pc |-> s.pc, h |-> s.h, i |-> s.i, full |-> s.full,
           repair |-> s.repair, ok |-> s.ok, present |-> s.present]
  BY <1>3
<1> QED
  BY <1>1, <1>3, <1>4, <1>5, <1>6, <1>7, ToPositionInv

(* The index is empty at first. *)
LEMMA InitInv == Init => IndexInv
<1> SUFFICES ASSUME Init PROVE IndexInv
  OBVIOUS
<1>1. chain \in Chains /\ cursor = None
  BY DEF Init, Chains
<1>2. DOMAIN blockPos = {}
  BY DEF Init
<1> QED
  BY <1>1, <1>2, InvParts, StartedInv DEF Init, CursorOK, ListingsNeverFail

(* A block is added to the chain: the earlier ones stay. *)
LEMMA CommitBlockInv ==
  ASSUME IndexInv, CommitBlock
  PROVE  IndexInv'
<1>1. chain \in Chains /\ CursorOK /\ ListingsNeverFail /\ SyncInv(sync)
  BY InvParts
<1>2. PICK n \in 0..MaxPerBlock :
        \E b \in [1..n -> [tx : Txs, ok : BOOLEAN]] : chain' = Append(chain, b)
  BY DEF CommitBlock
<1>3. PICK b \in [1..n -> [tx : Txs, ok : BOOLEAN]] : chain' = Append(chain, b)
  BY <1>2
<1>4. b \in Seq([tx : Txs, ok : BOOLEAN])
  <2>1. n \in Nat
    BY <1>2
  <2> QED
    BY <1>3, <2>1, SeqDef
<1>5. /\ chain' \in Chains /\ Len(chain) \in Nat /\ Len(chain') = Len(chain) + 1
      /\ \A h \in 1..Len(chain) : chain'[h] = chain[h]
  BY <1>1, <1>3, <1>4 DEF Chains
<1>6. UNCHANGED <<cursor, primary, blockPos, sync>>
  BY DEF CommitBlock, store
<1>7. CursorOK' /\ ListingsNeverFail'
  BY <1>1, <1>5, <1>6 DEF CursorOK, BlockListed, ListingsNeverFail
<1>8. SyncInv(sync)'
  BY <1>1, <1>5, <1>6 DEF SyncInv, BlockListed, NextHeight, TxSteps, ListedSteps
<1> QED
  BY <1>5, <1>7, <1>8 DEF IndexInv, Chains, CursorOK

(* The thread goes from one put to the next. *)
LEMMA StepInv ==
  ASSUME IndexInv, NEW pc \in ListedSteps, sync.pc \in ListedSteps,
         Step(pc), UNCHANGED index
  PROVE  IndexInv'
<1>1. SyncInv(sync)
  BY InvParts
<1>2. sync' = [pc |-> pc, h |-> sync.h, i |-> sync.i, full |-> sync.full,
               repair |-> sync.repair, ok |-> sync.ok, present |-> sync.present]
  BY <1>1 DEF Step, SyncInv
<1>3. SyncInv(sync')
  BY <1>1, <1>2 DEF SyncInv, TxSteps, ListedSteps
<1> QED
  BY <1>3, SyncOnly

(* The thread leaves a listed transaction. *)
LEMMA LeaveInv ==
  ASSUME IndexInv, sync.pc \in ListedSteps, NextPosition, UNCHANGED index
  PROVE  IndexInv'
<1>1. SyncInv(sync) /\ sync.pc \in TxSteps
  BY InvParts DEF TxSteps
<1>2. sync = [sync EXCEPT !.full = sync.full] /\ sync.full \in BOOLEAN
  BY <1>1 DEF SyncInv
<1>3. <<sync.h, sync.i>> \in DOMAIN blockPos
  BY <1>1 DEF SyncInv
<1>4. SyncInv(sync')
  BY <1>1, <1>2, <1>3, NextPositionInv DEF NextPosition
<1> QED
  BY <1>4, SyncOnly

(* A block is taken up, by the repair or by the loop. *)
LEMMA TakeUpInv ==
  ASSUME IndexInv, StartupRepair \/ GetBlock
  PROVE  IndexInv'
<1>1. chain \in Chains /\ CursorOK /\ SyncInv(sync)
  BY InvParts
<1>2. ASSUME NEW pc, NEW h \in 1..Len(chain), NEW r \in BOOLEAN,
             ~r => h = NextHeight(cursor)
      PROVE  SyncInv(ToPosition(Thread(pc, h, r), 1))
  <2> DEFINE s == Thread(pc, h, r)
  <2>1. /\ s = [pc |-> s.pc, h |-> s.h, i |-> s.i, full |-> s.full,
                repair |-> s.repair, ok |-> s.ok, present |-> s.present]
        /\ s.h = h /\ s.repair = r /\ s.full = TRUE
    BY DEF Thread
  <2> HIDE DEF s
  <2>2. Len(chain[h]) \in Nat
    BY <1>1, <1>2, BlockLength
  <2>3. 1 - 1 <= Len(chain[s.h]) /\ \A j \in 1..(1 - 1) : <<s.h, j>> \in DOMAIN blockPos
    BY <2>1, <2>2
  <2>4. s.full \in BOOLEAN /\ s.repair \in BOOLEAN
    BY <1>2, <2>1
  <2>5. SyncInv(ToPosition(s, 1))
    BY <1>1, <1>2, <2>1, <2>3, <2>4, ToPositionInv
  <2> QED
    BY <2>5 DEF s
<1>3. CASE StartupRepair
  <2>1. UNCHANGED index
    BY <1>3 DEF StartupRepair, store, index
  <2>2. CASE cursor = None
    BY <1>3, <2>1, <2>2, LoopingInv, SyncOnly DEF StartupRepair
  <2>3. CASE cursor # None
    <3>1. cursor \in 1..Len(chain)
      BY <1>1, <2>3 DEF CursorOK
    <3>2. SyncInv(ToPosition(Thread("start", cursor, TRUE), 1))
      BY <1>2, <3>1
    <3> QED
      BY <1>3, <2>1, <2>3, <3>2, SyncOnly DEF StartupRepair
  <2> QED
    BY <2>2, <2>3
<1>4. CASE GetBlock
  <2>1. UNCHANGED index
    BY <1>4 DEF GetBlock, store, index
  <2>2. SyncInv(sync')
    BY <1>2, <1>4 DEF GetBlock
  <2> QED
    BY <2>1, <2>2, SyncOnly
<1> QED
  BY <1>3, <1>4

(* A transaction's result is fetched, unless the repair has it. *)
LEMMA FetchTxInv ==
  ASSUME IndexInv, FetchTx
  PROVE  IndexInv'
<1>1. SyncInv(sync) /\ sync.pc = "tx" /\ sync.pc \in TxSteps
  BY InvParts DEF FetchTx, TxSteps
<1>2. UNCHANGED index
  BY DEF FetchTx, store, index
<1>3. CASE Skipped
  <2>1. sync = [sync EXCEPT !.full = sync.full] /\ sync.full \in BOOLEAN /\ sync.repair
    BY <1>1, <1>3 DEF SyncInv, Skipped
  <2>2. SyncInv(sync')
    BY <1>1, <1>3, <2>1, NextPositionInv DEF FetchTx, NextPosition
  <2> QED
    BY <1>2, <2>2, SyncOnly
<1>4. CASE ~Skipped
  <2>1. sync' = [sync EXCEPT !.pc = "primary", !.ok = GetTxByHash(Tx).ok]
    BY <1>4 DEF FetchTx
  <2> DEFINE ok == GetTxByHash(Tx).ok
  <2> HIDE DEF ok
  <2>2. sync' = [pc |-> "primary", h |-> sync.h, i |-> sync.i, full |-> sync.full,
                 repair |-> sync.repair, ok |-> ok, present |-> sync.present]
    BY <1>1, <2>1 DEF SyncInv, ok
  <2>3. SyncInv(sync')
    BY <1>1, <2>2 DEF SyncInv, TxSteps, ListedSteps
  <2> QED
    BY <1>2, <2>3, SyncOnly
<1> QED
  BY <1>3, <1>4

(* The transaction is written before its position. *)
LEMMA PutPrimaryInv ==
  ASSUME IndexInv, PutPrimary
  PROVE  IndexInv'
<1>1. chain \in Chains /\ CursorOK /\ ListingsNeverFail /\ SyncInv(sync)
  BY InvParts
<1>2. /\ sync.pc = "primary" /\ UNCHANGED <<chain, cursor, blockPos>>
      /\ primary' = WithPrimary(Tx, [pos |-> Position, ok |-> sync.ok])
      /\ sync' = [sync EXCEPT !.pc = "position", !.present = Tx \in DOMAIN primary]
  BY DEF PutPrimary
<1>3. DOMAIN primary' = DOMAIN primary \cup {Tx}
  BY <1>2 DEF WithPrimary
<1> DEFINE present == Tx \in DOMAIN primary
<1> HIDE DEF present
<1>4. sync' = [pc |-> "position", h |-> sync.h, i |-> sync.i, full |-> sync.full,
               repair |-> sync.repair, ok |-> sync.ok, present |-> present]
  BY <1>1, <1>2 DEF SyncInv, present
<1>5. SyncInv(sync)'
  BY <1>1, <1>2, <1>3, <1>4
     DEF SyncInv, TxSteps, ListedSteps, Tx, At, Position, NextHeight, BlockListed
<1>6. CursorOK' /\ ListingsNeverFail' /\ chain' \in Chains
  BY <1>1, <1>2, <1>3 DEF CursorOK, BlockListed, ListingsNeverFail
<1> QED
  BY <1>5, <1>6 DEF IndexInv, CursorOK, Chains

LEMMA PutPositionInv ==
  ASSUME IndexInv, PutPosition
  PROVE  IndexInv'
<1>1. chain \in Chains /\ CursorOK /\ ListingsNeverFail /\ SyncInv(sync)
  BY InvParts
<1>2. /\ sync.pc = "position" /\ UNCHANGED <<chain, cursor, primary>>
      /\ blockPos' = WithPosition(Position, Tx)
      /\ sync' = [sync EXCEPT !.pc = "lookups"]
  BY DEF PutPosition, Step
<1>3. /\ DOMAIN blockPos' = DOMAIN blockPos \cup {Position}
      /\ \A p \in DOMAIN blockPos' : blockPos'[p] = IF p = Position THEN Tx ELSE blockPos[p]
  BY <1>2 DEF WithPosition
<1>4. sync' = [pc |-> "lookups", h |-> sync.h, i |-> sync.i, full |-> sync.full,
               repair |-> sync.repair, ok |-> sync.ok, present |-> sync.present]
  BY <1>1, <1>2 DEF SyncInv
<1>5. Tx \in DOMAIN primary
  BY <1>1, <1>2 DEF SyncInv, Tx, At, Position
<1>6. SyncInv(sync)'
  BY <1>1, <1>2, <1>3, <1>4
     DEF SyncInv, TxSteps, ListedSteps, Position, NextHeight, BlockListed
<1>7. CursorOK' /\ ListingsNeverFail' /\ chain' \in Chains
  BY <1>1, <1>2, <1>3, <1>5 DEF CursorOK, BlockListed, ListingsNeverFail
<1> QED
  BY <1>6, <1>7 DEF IndexInv, CursorOK, Chains

(* The puts after the position. *)
LEMMA PutsInv ==
  ASSUME IndexInv,
         PutLookups \/ PutReward \/ BumpRollup \/ BumpTotal \/ PutEvent \/ PutEventKeys
  PROVE  IndexInv'
<1>1. sync.pc \in ListedSteps /\ UNCHANGED index
  BY DEF PutLookups, PutReward, BumpRollup, BumpTotal, PutEvent, PutEventKeys,
         ListedSteps, index
<1>2. NextPosition \/ \E pc \in ListedSteps : Step(pc)
  BY DEF PutLookups, PutReward, BumpRollup, BumpTotal, PutEvent, PutEventKeys,
         ListedSteps, AfterRows
<1> QED
  BY <1>1, <1>2, StepInv, LeaveInv

(* The cursor passes the block it is next to, once that is listed. *)
LEMMA AdvanceCursorInv ==
  ASSUME IndexInv, AdvanceCursor
  PROVE  IndexInv'
<1>1. chain \in Chains /\ CursorOK /\ ListingsNeverFail /\ SyncInv(sync)
  BY InvParts
<1>2. /\ UNCHANGED <<chain, primary, blockPos>> /\ sync.pc = "block"
      /\ cursor' = IF sync.full THEN sync.h ELSE cursor
      /\ sync' = Looping
  BY DEF AdvanceCursor
<1>3. /\ sync.h \in 1..Len(chain) /\ sync.h = NextHeight(cursor)
      /\ sync.full => BlockListed(sync.h)
  BY <1>1, <1>2 DEF SyncInv
<1>4. CursorOK'
  <2>1. CASE ~sync.full
    BY <1>1, <1>2, <2>1 DEF CursorOK, BlockListed
  <2>2. CASE sync.full
    <3>1. \A h \in 1..sync.h : BlockListed(h)
      <4> SUFFICES ASSUME NEW h \in 1..sync.h PROVE BlockListed(h)
        OBVIOUS
      <4>1. h = sync.h \/ (cursor # None /\ h \in 1..cursor)
        BY <1>1, <1>3 DEF NextHeight, CursorOK
      <4> QED
        BY <1>1, <1>3, <2>2, <4>1 DEF CursorOK
    <3> QED
      BY <1>2, <1>3, <2>2, <3>1 DEF CursorOK, BlockListed
  <2> QED
    BY <2>1, <2>2
<1>5. SyncInv(sync)'
  BY <1>2 DEF Looping, Thread, SyncInv, TxSteps, ListedSteps
<1>6. ListingsNeverFail' /\ chain' \in Chains
  BY <1>1, <1>2 DEF ListingsNeverFail
<1> QED
  BY <1>4, <1>5, <1>6 DEF IndexInv, CursorOK, Chains

(* A fault gives the block up, or leaves a listed transaction. *)
LEMMA FailInv ==
  ASSUME IndexInv, Fail
  PROVE  IndexInv'
<1>1. SyncInv(sync)
  BY InvParts
<1>2. UNCHANGED index /\ sync.pc # "next" /\ (sync' = AfterFault \/ sync' = Looping)
  BY DEF Fail, store, index
<1>3. SyncInv(AfterFault)
  <2>1. CASE sync.pc \in {"start", "block"}
    BY <2>1, LoopingInv DEF AfterFault
  <2>2. CASE sync.pc \in {"event", "eventkeys"}
    <3>1. sync = [sync EXCEPT !.full = sync.full] /\ sync.full \in BOOLEAN
      BY <1>1 DEF SyncInv
    <3>2. <<sync.h, sync.i>> \in DOMAIN blockPos /\ sync.pc \in TxSteps
      BY <1>1, <2>2 DEF SyncInv, TxSteps, ListedSteps
    <3>3. SyncInv(ToPosition(sync, sync.i + 1))
      BY <3>1, <3>2, NextPositionInv
    <3> QED
      BY <2>2, <3>3 DEF AfterFault
  <2>3. CASE sync.pc \notin {"start", "block", "event", "eventkeys"}
    <3> DEFINE s == [sync EXCEPT !.full = FALSE]
    <3>1. sync.pc \in TxSteps
      BY <1>1, <1>2, <2>3 DEF SyncInv, TxSteps, ListedSteps
    <3>2. s = [sync EXCEPT !.full = s.full] /\ s.full = FALSE
      BY <1>1 DEF SyncInv
    <3>3. AfterFault = ToPosition(s, sync.i + 1)
      BY <2>3 DEF AfterFault
    <3> HIDE DEF s
    <3>4. SyncInv(ToPosition(s, sync.i + 1))
      BY <3>1, <3>2, NextPositionInv
    <3> QED
      BY <3>3, <3>4
  <2> QED
    BY <2>1, <2>2, <2>3
<1> QED
  BY <1>2, <1>3, LoopingInv, SyncOnly

(* A stop forgets the thread; requests leave it and the listing alone. *)
LEMMA OthersInv ==
  ASSUME IndexInv, Stop \/ Read \/ UNCHANGED vars
  PROVE  IndexInv'
<1>1. UNCHANGED index /\ (sync' = Started \/ sync' = sync)
  BY DEF Stop, Read, ReadTotal, CountPrimaries, RepairTotal, vars, store, index
<1> QED
  BY <1>1, InvParts, StartedInv, SyncOnly

LEMMA NextInv ==
  ASSUME IndexInv, [Next]_vars
  PROVE  IndexInv'
  BY CommitBlockInv, TakeUpInv, FetchTxInv, PutPrimaryInv, PutPositionInv, PutsInv,
     AdvanceCursorInv, FailInv, OthersInv DEF Next, Sync

(* The invariant of the thread and of what it has written, for any number  *)
(* of transactions, blocks, faults and stops (sync.rs, rocksdb_indexer.rs). *)
THEOREM IndexConsistent == Spec => []IndexInv
<1> QED
  BY InitInv, NextInv, PTL DEF Spec

(* A block the cursor has passed is listed whole: /status never claims a   *)
(* height that GET /transactions does not show.                            *)
THEOREM PassedIsListed == Spec => []CursorIsIndexed
<1>1. ASSUME IndexInv PROVE CursorIsIndexed
  <2> SUFFICES ASSUME NEW p \in Passed PROVE p \in DOMAIN blockPos
    BY DEF CursorIsIndexed
  <2>1. PICK h \in 1..Len(chain) : \E i \in 1..Len(chain[h]) : p = <<h, i>>
    BY DEF Passed, Included
  <2>2. PICK i \in 1..Len(chain[h]) : p = <<h, i>>
    BY <2>1
  <2>3. cursor # None /\ cursor \in 1..Len(chain) /\ h <= cursor
    BY <1>1, <2>2 DEF Passed, IndexInv
  <2>4. BlockListed(h)
    BY <1>1, <2>3 DEF IndexInv
  <2> QED
    BY <2>2, <2>4 DEF BlockListed
<1> QED
  BY <1>1, IndexConsistent, PTL

(* A listing finds the transaction of every position it meets. *)
THEOREM ListingsAnswer == Spec => []ListingsNeverFail
<1>1. IndexInv => ListingsNeverFail
  BY DEF IndexInv
<1> QED
  BY <1>1, IndexConsistent, PTL
=============================================================================

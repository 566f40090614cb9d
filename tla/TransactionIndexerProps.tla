---------------------- MODULE TransactionIndexerProps ----------------------
(***************************************************************************)
(* The HTTP queries on the index (api/indexer.rs) and what they promise    *)
(* while the thread of TransactionIndexer writes it.                       *)
(***************************************************************************)
EXTENDS TransactionIndexer, SequencesExt

CONSTANTS
  Limits,      \* page sizes a client asks for
  MaxPage,     \* bound of a page, 100
  MaxSpan      \* MAX_VERIFIED_PROOF_REWARD_HEIGHT_SPAN

(* Positions in reverse order, as the iterators of RocksDB return them.    *)
Descending(S) ==
  [n \in 1..Cardinality(S) |->
     CHOOSE p \in S : Cardinality({q \in S : Older(p, q)}) = n - 1]

NoFilter == [height |-> None, sender |-> None, type |-> None]
Filters == {NoFilter}
  \cup {[NoFilter EXCEPT !.height = h] : h \in 1..MaxHeight}
  \cup {[NoFilter EXCEPT !.sender = Sender[t]] : t \in Txs}
  \cup {[NoFilter EXCEPT !.type = Type[t]] : t \in Txs}

(* Filters look at the stored transaction, not at the key it was found by. *)
Matches(t, f) ==
  /\ f.height = None \/ primary[t].pos[1] = f.height
  /\ f.sender = None \/ Sender[t] = f.sender
  /\ f.type = None \/ Type[t] = f.type

(* Mutant: the row of the cursor is listed again. *)
BeyondOrAt(after, p) == after = None \/ ~Older(after, p)
Beyond(after, p) == after = None \/ Older(p, after)

(* block_pos: rows from the newest, strictly older than the cursor.        *)
Scan(after, f) ==
  Descending({p \in DOMAIN blockPos : Beyond(after, p) /\ Matches(blockPos[p], f)})
Take(s, n) == SubSeq(s, 1, IF Len(s) < n THEN Len(s) ELSE n)

(* GET /transactions: one row more than asked for tells of a next page.    *)
(* The total is the stored one, or counted for the first page of a filter. *)
CountMatching(f) == Cardinality({p \in DOMAIN blockPos : Matches(blockPos[p], f)})
PageLimit(limit) == IF limit > MaxPage THEN MaxPage ELSE limit
Refused(after, limit) ==
  limit = 0 \/ (after # None /\ (after[1] = None) # (after[2] = None))
Page(after, limit, f) ==
  LET size == PageLimit(limit)
      rows == Take(Scan(after, f), size + 1)
  IN  [rows    |-> Take(rows, size),
       hasNext |-> Len(rows) > size,
       total   |-> IF f = NoFilter THEN total
                   ELSE IF after = None THEN CountMatching(f) ELSE None]

(* GET /v1/capacity/verified-proof-rewards/{address}. *)
Accepted(from, to) == from <= to /\ to - from <= MaxSpan
AggregateRewards(a, from, to) ==
  Cardinality({r \in rewards : r[1] = a /\ r[2][1] \in from..to})

(* GET /v1/capacity/verified-proof-rewards/sum, in proofs. *)
SumRewards == rollup

(* GET /transaction?id= *)
GetTransaction(t) == IF t \in DOMAIN primary THEN primary[t] ELSE None

(* GET /events?txid= *)
EventsOf(t) == {u \in events.rows : u = t}

(* GET /events: page n of the keys from the newest, and their number.      *)
EventPage(n, limit) ==
  LET pos  == Descending({k[1] : k \in events.keys})
      keys == [i \in DOMAIN pos |-> CHOOSE k \in events.keys : k[1] = pos[i]]
  IN  SelectSeq(Take(SubSeq(keys, (n - 1) * limit + 1, Len(keys)), limit),
                LAMBDA k : k[2] \in events.rows)
EventPages(limit) ==
  LET n == (Cardinality(events.keys) + limit - 1) \div limit
  IN  IF n = 0 THEN 1 ELSE n

-----------------------------------------------------------------------------
Once(t) == Cardinality(Inclusions(t)) = 1
Passed == {p \in Included : cursor # None /\ p[1] <= cursor}
Rewarded == {p \in Included : /\ At(p).ok /\ At(p).tx \notin Reports
                              /\ Provider[At(p).tx] # None}

(* The cursor passes a block only when every transaction of it is listed   *)
(* at its place, whatever failed or stopped on the way (the "block fully   *)
(* written" flag and the repair at startup).                               *)
CursorIsIndexed == Passed \subseteq DOMAIN blockPos

(* A listing never meets a position without its transaction, which would   *)
(* fail the whole request with "missing primary", also between two puts    *)
(* and after a stop.                                                       *)
ListingsNeverFail == \A p \in DOMAIN blockPos : blockPos[p] \in DOMAIN primary

(* The block at a height is listed.  The steps on one transaction, and     *)
(* those after its position is written.                                    *)
BlockListed(h) == \A i \in 1..Len(chain[h]) : <<h, i>> \in DOMAIN blockPos
ListedSteps == {"lookups", "reward", "rollup", "total", "event", "eventkeys"}
TxSteps == {"tx", "primary", "position"} \cup ListedSteps

(* What the thread relies on from one put to the next: "full" says that    *)
(* every earlier transaction of the block is listed, and the block is the  *)
(* one after the cursor.                                                   *)
SyncInv(s) ==
  /\ s = [pc |-> s.pc, h |-> s.h, i |-> s.i, full |-> s.full,
          repair |-> s.repair, ok |-> s.ok, present |-> s.present]
  /\ s.full \in BOOLEAN /\ s.repair \in BOOLEAN
  /\ s.pc \in {"start", "next", "block"} \cup TxSteps
  /\ s.pc \notin {"start", "next"} =>
       s.h \in 1..Len(chain) /\ (~s.repair => s.h = NextHeight(cursor))
  /\ s.pc = "start" => ~s.repair /\ s.full
  /\ s.pc = "block" => ~s.repair /\ (s.full => BlockListed(s.h))
  /\ s.pc \in TxSteps =>
       /\ s.i \in 1..Len(chain[s.h])
       /\ (~s.repair /\ s.full) =>
            \A j \in 1..(s.i - 1) : <<s.h, j>> \in DOMAIN blockPos
  /\ s.pc \in ListedSteps => <<s.h, s.i>> \in DOMAIN blockPos
  /\ s.pc = "position" => chain[s.h][s.i].tx \in DOMAIN primary

(* The inductive invariant behind CursorIsIndexed and ListingsNeverFail.   *)
IndexInv ==
  /\ chain \in Seq(Seq([tx : Txs, ok : BOOLEAN]))
  /\ cursor # None =>
       cursor \in 1..Len(chain) /\ \A h \in 1..cursor : BlockListed(h)
  /\ ListingsNeverFail
  /\ SyncInv(sync)

(* A transaction that was included again, after it had failed, is shown    *)
(* with its last inclusion and result once the cursor has passed it.       *)
LastInclusionWins ==
  \A t \in Txs :
    \E last \in {IF Inclusions(t) = {} THEN None ELSE Newest(Inclusions(t))} :
      last \in Passed => GetTransaction(t) = [pos |-> last, ok |-> At(last).ok]

(* The network-wide rollup is never short of the rewards the index lists   *)
(* for passed blocks.  It may exceed them: a block that is done again      *)
(* counts its proofs again.                                                *)
RollupNotShort == SumRewards >= Cardinality({r \in rewards : r[2] \in Passed})


(* The total of GET /transactions never exceeds the rows by more than the  *)
(* one that is being written when a request repairs it, whatever is done   *)
(* again.                                                                  *)
TotalNotInflated == total # None => total <= Cardinality(DOMAIN primary) + 1

(* A client that continues after the last row of a page, by the height and *)
(* index the row shows, gets exactly the rest: pages neither repeat nor    *)
(* skip a row, "has_next" tells whether there is one, and the total of a   *)
(* filtered query is the length of its listing.  The last row must be of   *)
(* a transaction that was included once.  Rows are of the chain.           *)
PagesResume ==
  /\ \A p \in DOMAIN blockPos : p \in Included /\ blockPos[p] = At(p).tx
  /\ TotalNotInflated
  /\ \A f \in Filters, after \in {None} \cup DOMAIN blockPos, limit \in Limits :
       ~Refused(after, limit) =>
       \E all \in {Scan(after, f)}, page \in {Page(after, limit, f)} :
         /\ (after = None /\ f # NoFilter) => page.total = Len(all)
         /\ ~page.hasNext => page.rows = all
         /\ (page.hasNext /\ Once(blockPos[Last(page.rows)])) =>
              all = page.rows \o Scan(primary[blockPos[Last(page.rows)]].pos, f)


(* Every committed block is eventually passed by the cursor, when calls    *)
(* and puts fail only finitely often.                                      *)
IndexCatchesUp ==
  \A h \in 1..MaxHeight : Len(chain) >= h ~> (cursor # None /\ cursor >= h)
=============================================================================

----------------------------- MODULE CadoStore -----------------------------
(***************************************************************************)
(* The CADO operations of the RocksDB storage as a state machine.  The     *)
(* operations with a transaction collect their writes in it and the writes *)
(* take effect when it commits; the others make their writes one after     *)
(* another.  The process may stop between any two writes.                  *)
(***************************************************************************)
EXTENDS CadoDb

CONSTANTS Path,     \* paths in use
          Contents, \* the contents each path is given
          Blank,    \* the first version of an account
          System,   \* the owner of the bodies of content types
          MaxWrites \* bound on the writes of a transaction

VARIABLES db,       \* the column families
          tx,       \* the open transaction: its writes, what they are to bind
          op        \* the call in progress: path, new binding, writes left

vars == <<db, tx, op>>

Shared == {p \in Path : p.type \in ContentTypes}

(* The bodies the callers store at a path: accounts are mutable and owned  *)
(* by the address in their path, the others immutable.                     *)
BodiesAt(p) ==
  IF p.type \in AccountTypes
  THEN {MutableUpdated(Blank, d, p.name) : d \in Contents[p]}
  ELSE {Immutable(d, System) : d \in Contents[p]}

Body == UNION {BodiesAt(p) : p \in Path}

NoTx == [writes |-> <<>>, asked |-> <<>>]

Init ==
  /\ db = EmptyDb
  /\ tx = NoTx
  /\ op = Absent

-----------------------------------------------------------------------------
(* Operations with a transaction, which commit_inner uses for the chain's  *)
(* own types.  A key written by the transaction is locked until it ends,   *)
(* and the path index is read through it.  (The list of deletions that     *)
(* commit_inner would run in it is never filled.)                          *)

InTx(p, b, writes) ==
  /\ writes # Failure
  /\ op # Absent => op.path # p
  /\ Len(tx.writes \o writes) <= MaxWrites
  /\ tx' = [writes |-> tx.writes \o writes,
            asked  |-> [q \in DOMAIN tx.asked \cup {p} |->
                          IF q = p THEN b ELSE tx.asked[q]]]
  /\ UNCHANGED <<db, op>>

PutCadoTypeWithTx(p, b) ==
  InTx(p, b, PutTypeWrites(ApplyAll(db, tx.writes), p, b))

PutCadoDataWithTx(p, b) ==
  InTx(p, b, PutDataWrites(ApplyAll(db, tx.writes), p, b.data, b.owner, b.hash))

CommitTx ==
  /\ tx # NoTx
  /\ db' = ApplyAll(db, tx.writes)
  /\ tx' = NoTx
  /\ UNCHANGED op

-----------------------------------------------------------------------------
(* Operations without one. *)

Start(p, b, writes) ==
  /\ op = Absent
  /\ p \notin DOMAIN tx.asked
  /\ writes # Failure
  /\ op' = [path |-> p, body |-> b, rest |-> writes]
  /\ UNCHANGED <<db, tx>>

PutCadoType(p, b) == Start(p, b, PutTypeWrites(db, p, b))

PutCadoData(p, b) ==
  Start(p, b, PutDataWrites(db, p, b.data, b.owner, b.hash))

SystemDeleteCado(p) == Start(p, Absent, SystemDeleteWrites(db, p, System))

WriteNext ==
  /\ op # Absent
  /\ db' = Apply(db, Head(op.rest))
  /\ op' = IF Len(op.rest) = 1 THEN Absent ELSE [op EXCEPT !.rest = Tail(@)]
  /\ UNCHANGED tx

Crash ==
  /\ op # Absent \/ tx # NoTx
  /\ tx' = NoTx
  /\ op' = Absent
  /\ UNCHANGED db

Next ==
  \/ \E p \in Path \ Shared : \E b \in BodiesAt(p) :
       PutCadoTypeWithTx(p, b) \/ PutCadoDataWithTx(p, b) \/ PutCadoType(p, b)
  \/ \E p \in Path : \E b \in BodiesAt(p) : PutCadoData(p, b)
  \/ \E p \in Path : SystemDeleteCado(p)
  \/ CommitTx
  \/ WriteNext
  \/ Crash

Spec == Init /\ [][Next]_vars

-----------------------------------------------------------------------------
(* Correctness. *)

(* No read fails: whatever operations ran and wherever the process stopped *)
(* between two of their writes, the body found under the storage key of a  *)
(* path is one that get_cado_by_path generates that key for.               *)
ReadsNeverFail == \A p \in Path : GetCado(db, p) # Failure

BoundTo(p) ==
  IF p \notin DOMAIN db.paths THEN Absent
  ELSE IF p \in Shared THEN Immutable(db.paths[p][3], System)
  ELSE GetCado(db, p)

Lost == {p \in Shared \cap DOMAIN db.paths : db.paths[p] \notin DOMAIN db.cado}

Store ==
  INSTANCE PathStore WITH
    bound <- [p \in Path |-> BoundTo(p)],
    lost  <- Lost,
    txn   <- tx.asked,
    call  <- IF op = Absent THEN Absent ELSE [path |-> op.path, body |-> op.body]

(* The column families implement a map from paths to bodies: transactions  *)
(* are atomic, the several writes of a call take effect at one of them, on *)
(* the call's own path, and a stop between two of them leaves the path     *)
(* with its old or its new body.                                           *)
ImplementsPathStore == Store!Spec
=============================================================================

------------------------------- MODULE CadoDb -------------------------------
(***************************************************************************)
(* The CADO part of the RocksDB storage (storage/rocksdb/cado): three      *)
(* column families and the writes that each operation makes to them.       *)
(*                                                                         *)
(*   cado   storage key -> body                                            *)
(*   paths  path -> storage key (path_index)                               *)
(*   map    secondary key -> primary key (cado_map)                        *)
(*                                                                         *)
(* A path is a record of its type and its name; a name is a model value or *)
(* a number of the kind its type requires.  SHA-256 is injective: a hash   *)
(* is the value hashed, and a storage key is the tuple that is hashed into *)
(* it.                                                                     *)
(***************************************************************************)
EXTENDS Naturals, Sequences

CONSTANTS Absent,   \* Option::None
          Failure   \* an EldError

AccountTypes == {"account", "staking_account", "storage_staking_account"}

NamedTypes == {"app_state_tip", "app_state_snapshot", "epoch_record", "namespace"}

ContentTypes == {"cado_map", "snapshot_metadata", "snapshot_chunk", "chunk_reference"}

SystemDeletableTypes == {"chunk_reference", "snapshot_chunk", "snapshot_metadata"}

CadoPath(type, name) == [type |-> type, name |-> name]

-----------------------------------------------------------------------------
(* Bodies: hash is the hash of the data, for a mutable body that of its    *)
(* first version.                                                          *)

Immutable(data, owner) ==
  [mutable |-> FALSE, hash |-> data, data |-> data, owner |-> owner]

MutableUpdated(hash, data, owner) ==
  [mutable |-> TRUE, hash |-> hash, data |-> data, owner |-> owner]

ContentHash(b) == b.hash

-----------------------------------------------------------------------------
(* Storage keys. *)

AccountKey(p, b) ==
  IF b.mutable /\ b.owner = p.name
  THEN <<p.type, "address", p.name>>
  ELSE Failure

NamedKey(p) == <<p.type, "name", p.name>>

GeneralKey(p, b) ==
  IF b.mutable /\ p.name \notin {ContentHash(b), b.data}
  THEN Failure
  ELSE <<p.type, "hash", ContentHash(b)>>

OriginalKey(p, b) ==
  CASE p.type \in AccountTypes -> AccountKey(p, b)
    [] p.type \in NamedTypes -> NamedKey(p)
    [] p.type \in ContentTypes -> GeneralKey(p, b)

LatestKey(p, b) ==
  IF p.type \notin NamedTypes /\ b.mutable
  THEN <<p.type, "hash", b.data>>
  ELSE Absent

-----------------------------------------------------------------------------
(* The database and single writes to it; a write of Absent deletes. *)

EmptyDb == [cado |-> <<>>, paths |-> <<>>, map |-> <<>>]

Set(f, k, v) ==
  IF v = Absent
  THEN [x \in DOMAIN f \ {k} |-> f[x]]
  ELSE [x \in DOMAIN f \cup {k} |-> IF x = k THEN v ELSE f[x]]

Put(cf, key, value) == <<[cf |-> cf, key |-> key, value |-> value]>>

Del(cf, key) == Put(cf, key, Absent)

Apply(db, w) == [db EXCEPT ![w.cf] = Set(@, w.key, w.value)]

ApplyAll(db, ws) ==
  LET after[i \in 0..Len(ws)] ==
        IF i = 0 THEN db ELSE Apply(after[i - 1], ws[i])
  IN  after[Len(ws)]

(* get_cado_by_path: the body must still have the key it is stored under. *)
GetCado(db, p) ==
  IF p \notin DOMAIN db.paths THEN Absent
  ELSE LET key == db.paths[p]
       IN  IF key \notin DOMAIN db.cado THEN Absent
           ELSE IF OriginalKey(p, db.cado[key]) # key THEN Failure
           ELSE db.cado[key]

-----------------------------------------------------------------------------
(* The writes of each operation, in order, or Failure. *)

(* put_cado_type(_with_tx): a path keeps the key it was first given. *)
PutTypeWrites(db, p, b) ==
  LET key == IF p \in DOMAIN db.paths THEN db.paths[p] ELSE OriginalKey(p, b)
  IN  IF key = Failure THEN Failure
      ELSE Put("cado", key, b) \o Put("paths", p, key)

(* The secondary key of the version that is replaced goes with its map     *)
(* entry.                                                                  *)
OldLatestWrites(db, p, key) ==
  IF key \in DOMAIN db.cado /\ db.cado[key].mutable
  THEN LET old == LatestKey(p, db.cado[key])
       IN  Del("cado", old) \o Del("map", old)
  ELSE <<>>

(* put_cado_data(_with_tx): accounts get a first version that is blank. *)
MutableDataWrites(db, p, data, blank) ==
  LET b   == MutableUpdated(blank, data, p.name)
      key == OriginalKey(p, b)
      new == LatestKey(p, b)
  IN  OldLatestWrites(db, p, key)
        \o Put("cado", key, b)
        \o Put("cado", new, b)
        \o Put("map", new, key)
        \o Put("paths", p, key)

(* Mutant: the path index is written before the body. *)
ImmutableDataIndexFirst(p, data, owner) ==
  LET b   == Immutable(data, owner)
      key == OriginalKey(p, b)
  IN  Put("paths", p, key) \o Put("cado", key, b)

ImmutableDataWrites(p, data, owner) ==
  LET b   == Immutable(data, owner)
      key == OriginalKey(p, b)
  IN  IF key = Failure THEN Failure
      ELSE Put("cado", key, b) \o Put("paths", p, key)

IsMutableType(p) == p.type \in {"account", "staking_account"}

(* Mutant: as in put_cado_type, a path keeps the key it was first given. *)
PutDataKeepsKey(db, p, data, owner, blank) ==
  IF IsMutableType(p)
  THEN MutableDataWrites(db, p, data, blank)
  ELSE PutTypeWrites(db, p, Immutable(data, owner))

PutDataWrites(db, p, data, owner, blank) ==
  IF IsMutableType(p)
  THEN MutableDataWrites(db, p, data, blank)
  ELSE ImmutableDataWrites(p, data, owner)

(* The writes of a deletion; the map entry deleted is that of the path     *)
(* /cado_map/name, not that of the secondary key.                          *)
AssociatedKeyWrites(p, b) ==
  Del("cado", OriginalKey(p, b))
    \o (IF LatestKey(p, b) # Absent THEN Del("cado", LatestKey(p, b)) ELSE <<>>)
    \o Del("map", <<"cado_map", "path", p.name>>)
    \o Del("paths", p)

(* prepare_system_cado_deletion, system_delete_cado(_with_tx) *)
SystemDeleteWrites(db, p, owner) ==
  LET b == GetCado(db, p)
  IN  IF \/ p.type \notin SystemDeletableTypes
         \/ b \in {Absent, Failure}
         \/ b.owner # owner
      THEN Failure
      ELSE AssociatedKeyWrites(p, b)
=============================================================================

-------------------------- MODULE CapacitySlotsInv --------------------------
(***************************************************************************)
(* What the slots of a capacity file promise, and the inductive invariant  *)
(* the proofs use.                                                         *)
(***************************************************************************)
EXTENDS CapacitySlots

PC == {"idle", "info", "find", "write", "mark", "map", "slots", "previous",
       "tree", "submit"}

Tree == [Slot -> Data]

(* The variables have the types the code declares. *)
TypeOK ==
  /\ mode \in {"down", "allocating", "up"}
  /\ file \in Tree
  /\ slotsFile \in SlotMap \cup {None, Torn}
  /\ mapFile \in ContentMap \cup {None, Torn}
  /\ slotMap \in SlotMap \cup {None} /\ (mode # "down" => slotMap \in SlotMap)
  /\ contentMap \in ContentMap
  /\ tree \in Tree \cup {None} /\ (mode = "up" => tree \in Tree)
  /\ chain \in Tree \cup {None}
  /\ holder \in Worker \cup {None}
  /\ work \in [Worker -> [pc : PC, c : Content \cup {None}, at : Seq(Slot),
                          k : Nat, root : Tree \cup {None}]]
  /\ prover \in [pc : {"idle", "asked", "copy", "read", "done"},
                 i : Slot \cup {None}, root : Tree \cup {None}, ok : BOOLEAN]
  /\ stops \in Nat /\ faults \in Nat /\ cut \in BOOLEAN

-----------------------------------------------------------------------------
(***************************************************************************)
(* Neither a store nor a delete, in any order, failed, or cut off by a     *)
(* stop at any point, ever writes over the data of a proof slot or changes *)
(* its leaf.                                                               *)
(***************************************************************************)
ProofSlotsKept ==
  mode = "up" => \A i \in Slot : slotMap[i] = "Proof" =>
    file[i] = ProofData(i) /\ tree[i] = ProofData(i)

(***************************************************************************)
(* The answer to a challenge for the chunk of a proof slot verifies, also  *)
(* while contents are stored and deleted.                                  *)
(***************************************************************************)
ProofSlotsVerify ==
  prover.pc = "done" /\ slotMap[prover.i] = "Proof" => prover.ok

(***************************************************************************)
(* get_content_from_slots returns, for every content with a mapping, the   *)
(* chunks that were stored under its id, in order.                         *)
(***************************************************************************)
ReadsBack ==
  mode = "up" /\ holder = None =>
    \A c \in Content : \A k \in DOMAIN contentMap[c] :
      file[contentMap[c][k]] = Chunk(c, k)

(* So it does as long as no operation was cut off, restarts included. *)
ReadsBackUncut == ~cut => ReadsBack


Quiet == mode = "up" /\ \A w \in Worker : work[w].pc = "idle"


(***************************************************************************)
(* Every started operation ends: no order of the two locks makes a store,  *)
(* the collector, the registration and a challenge wait for each other.    *)
(***************************************************************************)
EveryOperationEnds ==
  /\ \A w \in Worker : work[w].pc # "idle" ~> work[w].pc = "idle"
  /\ prover.pc = "asked" ~> prover.pc \in {"idle", "done"}

(* Operations one at a time. *)
OneAtATime ==
  \A v, w \in Worker : work[v].pc # "idle" /\ work[w].pc # "idle" => v = w

-----------------------------------------------------------------------------
Locked == {"write", "mark", "map", "slots"}

(* Who holds the lock, and what an operation that has begun knows. *)
WorkInv ==
  /\ mode # "up" => holder = None /\ contentMap = NoContent
                   /\ work = [w \in Worker |-> Idle]
  /\ slotsFile = None => mode # "up"
  /\ mode = "allocating" => slotsFile = None
  /\ slotsFile = None => mapFile = None
  /\ \A w \in Worker :
       /\ work[w].pc \in Locked <=> holder = w
       /\ work[w].pc \notin {"idle", "info", "submit"} =>
            w # Registrar /\ work[w].c \in Content
       /\ work[w].pc = "find" => w \in Task
       /\ work[w].pc = "write" => work[w].k \in DOMAIN work[w].at
       /\ work[w].pc = "mark" => work[w].k = Len(work[w].at) + 1
  /\ prover.pc # "idle" => mode = "up" /\ prover.i \in Slot

(***************************************************************************)
(* The slots with proof data are the slots marked Proof, wherever the slot *)
(* map is, and no content's, wherever the content-slot map is.             *)
(***************************************************************************)
HasProof(i) == file[i].of = "proof"

NotProof(s) == \A k \in DOMAIN s : ~HasProof(s[k])

ProofInv ==
  /\ \A i \in Slot : HasProof(i) => file[i] = ProofData(i)
  /\ mode # "down" => \A i \in Slot : slotMap[i] = "Proof" <=> HasProof(i)
  /\ slotsFile \in SlotMap =>
       \A i \in Slot : slotsFile[i] = "Proof" <=> HasProof(i)
  /\ \A c \in Content : NotProof(contentMap[c])
  /\ mapFile \in ContentMap => \A c \in Content : NotProof(mapFile[c])
  /\ \A w \in Worker : NotProof(work[w].at)
  /\ mode = "up" => \A i \in Slot : HasProof(i) => tree[i] = ProofData(i)
  /\ prover.pc = "done" /\ HasProof(prover.i) => prover.ok

(* A content's slots are marked as its own, and hold its chunks. *)
Agree(slots, map) ==
  \A c \in Content : \A k \in DOMAIN map[c] : slots[map[c][k]] = c

Holds(c, s) == \A k \in DOMAIN s : file[s[k]] = Chunk(c, k)

Deleting(c) ==
  work[Collector].pc \in {"write", "mark"} /\ work[Collector].c = c

(* What a store has written so far, in slots that are still open. *)
StoreInv(w) ==
  work[w].pc \in {"write", "mark"} =>
    \A j \in DOMAIN work[w].at :
      /\ slotMap[work[w].at[j]] = "Open"
      /\ j < work[w].k => file[work[w].at[j]] = Chunk(work[w].c, j)
      /\ \A l \in DOMAIN work[w].at : j # l => work[w].at[j] # work[w].at[l]

(***************************************************************************)
(* As long as no operation was cut off, memory and, outside of the lock,   *)
(* the two files agree.                                                    *)
(***************************************************************************)
UncutInv ==
  /\ mode = "up" =>
       /\ Agree(slotMap, contentMap)
       /\ \A c \in Content : Holds(c, contentMap[c]) \/ Deleting(c)
       /\ \A w \in Task : StoreInv(w)
       /\ work[Collector].pc \in {"write", "mark"} =>
            work[Collector].at = contentMap[work[Collector].c]
       /\ holder = None =>
            /\ slotsFile = slotMap
            /\ \/ mapFile = contentMap
               \/ mapFile \in {None, Torn} /\ contentMap = NoContent
       /\ \A w \in Worker : work[w].pc = "slots" => mapFile = contentMap
  /\ mode = "down" /\ slotsFile \in SlotMap /\ mapFile \in ContentMap =>
       /\ Agree(slotsFile, mapFile)
       /\ \A c \in Content : Holds(c, mapFile[c])

(***************************************************************************)
(* The inductive invariant of allocate, load, store, delete and challenge: *)
(* the lock, the proof slots and, before anything was cut off, the         *)
(* contents.                                                               *)
(***************************************************************************)
SlotsInv == TypeOK /\ WorkInv /\ ProofInv /\ (~cut => UncutInv)
=============================================================================

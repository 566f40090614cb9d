--------------------------- MODULE CapacitySlots ---------------------------
(***************************************************************************)
(* The capacity file of a provider: its slots, the slot map and the        *)
(* content-slot map, each in memory and in a file, the Merkle tree in      *)
(* memory and the root the chain knows.  Tasks store contents, the         *)
(* pinboard collector deletes them, a challenge reads chunks, all at once: *)
(* the allocator and the tree have a lock each, and an operation holds     *)
(* them one after the other.                                               *)
(*                                                                         *)
(* A hash stands for what it hashes, a Merkle root for the leaves.         *)
(***************************************************************************)
EXTENDS Integers, Sequences, FiniteSets

CONSTANTS
  Slot,        \* indices of the slots, in the order of the slot map
  Content,     \* content ids
  Chunks,      \* how many chunks a content has
  Task,        \* what stores: the mirror of each Commit, the P2P handler
  Collector,   \* what deletes
  Registrar,   \* what registers the capacity after the start
  None, Torn,  \* a file that does not exist, one whose write was cut off
  Probe,       \* bound: the slots that challenges ask for
  MaxStops,    \* bound: how often the process stops
  MaxFaults    \* bound: how many writes and submissions fail

Worker == Task \cup {Collector, Registrar}

(* What a slot of the capacity file holds. *)
Zero         == [of |-> "zero", part |-> 0]
ProofData(i) == [of |-> "proof", part |-> i]
Chunk(c, k)  == [of |-> c, part |-> k]

Data == [of : Content \cup {"zero", "proof"}, part : Nat]

(* SlotMap and content_slot_map; the empty sequence is no mapping. *)
SlotMap    == [Slot -> Content \cup {"Proof", "Open"}]
ContentMap == [Content -> Seq(Slot)]
NoContent  == [c \in Content |-> << >>]

ASSUME SlotsAssumption ==
  /\ Slot \subseteq Nat
  /\ Chunks \in [Content -> Nat \ {0}]
  /\ Content \cap {"Proof", "Open", "zero", "proof"} = {}
  /\ Collector \notin Task /\ Registrar \notin Task /\ Collector # Registrar
  /\ Probe \subseteq Slot
  /\ None \notin Worker /\ Torn # None
  /\ {None, Torn} \cap SlotMap = {} /\ {None, Torn} \cap ContentMap = {}
  /\ MaxStops \in Nat /\ MaxFaults \in Nat

VARIABLES
  mode,        \* the process: down, allocating or up
  file,        \* the capacity file
  slotsFile,   \* slots.json
  mapFile,     \* content-slot-map.json
  slotMap,     \* slot_map
  contentMap,  \* content_slot_map
  tree,        \* merkle_tree
  chain,       \* the root of the provider's registration
  holder,      \* who holds the allocator's lock
  work,        \* where each operation stands
  prover,      \* where the challenge stands
  stops,
  faults,
  cut          \* history: an operation was cut off while it had the lock

files  == <<file, slotsFile, mapFile>>
memory == <<slotMap, contentMap, tree>>
tally  == <<stops, faults, cut>>
vars   == <<mode, files, memory, chain, holder, work, prover, tally>>

Idle == [pc |-> "idle", c |-> None, at |-> << >>, k |-> 0, root |-> None]
Rest == [pc |-> "idle", i |-> None, root |-> None, ok |-> TRUE]

(* What a newly started process does besides: it registers. *)
Started == [w \in Worker |-> IF w = Registrar THEN [Idle EXCEPT !.pc = "info"]
                                              ELSE Idle]

Storing(w) == w \in Task

(* Of what is modelled, only a challenge keeps the tree's lock over a step. *)
TreeFree   == prover.pc \notin {"copy", "read"}

Init ==
  /\ mode = "down"
  /\ file = [i \in Slot |-> Zero] /\ slotsFile = None /\ mapFile = None
  /\ slotMap = None /\ contentMap = NoContent /\ tree = None
  /\ chain = None
  /\ holder = None
  /\ work = [w \in Worker |-> Idle]
  /\ prover = Rest
  /\ stops = 0 /\ faults = 0 /\ cut = FALSE

-----------------------------------------------------------------------------

(***************************************************************************)
(* build_merkle_tree: a leaf comes from the state of its slot; only that   *)
(* of a content slot is read from the file.                                *)
(***************************************************************************)
BuildTree(map, data) ==
  [i \in Slot |-> CASE map[i] = "Proof" -> ProofData(i)
                    [] map[i] = "Open"  -> Zero
                    [] OTHER            -> data[i]]

(***************************************************************************)
(* allocate_capacity: the states of the slots are drawn from a random      *)
(* seed, the file is written, then the slot map is saved.                  *)
(***************************************************************************)
Allocate ==
  /\ mode = "down" /\ slotsFile = None
  /\ slotMap' \in [Slot -> {"Proof", "Open"}]
  /\ file' = BuildTree(slotMap', file)
  /\ mode' = "allocating"
  /\ UNCHANGED <<slotsFile, mapFile, contentMap, tree, chain, holder, work,
                 prover, tally>>

Allocated ==
  /\ mode = "allocating"
  /\ slotsFile' = slotMap
  /\ tree' = BuildTree(slotMap, file)
  /\ mode' = "up"
  /\ work' = Started
  /\ UNCHANGED <<file, mapFile, slotMap, contentMap, chain, holder, prover,
                 tally>>

(***************************************************************************)
(* initialize, with a slot map on disk.  A content-slot map that is not    *)
(* there or cannot be read is empty; with a slot map that cannot be read   *)
(* the process does not start.                                             *)
(***************************************************************************)
Load ==
  /\ mode = "down" /\ slotsFile \notin {None, Torn}
  /\ slotMap' = slotsFile
  /\ contentMap' = IF mapFile \in {None, Torn} THEN NoContent ELSE mapFile
  /\ tree' = BuildTree(slotsFile, file)
  /\ mode' = "up"
  /\ work' = Started
  /\ UNCHANGED <<files, chain, holder, prover, tally>>

(***************************************************************************)
(* What a write that is cut off leaves: a chunk, or a file that is         *)
(* truncated before it is written, of which only a part is there.          *)
(***************************************************************************)
CutOff(w) ==
  \/ /\ work[w].pc = "write"
     /\ file' = [file EXCEPT ![work[w].at[work[w].k]] = Chunk(work[w].c, 0)]
     /\ UNCHANGED <<slotsFile, mapFile>>
  \/ /\ work[w].pc = "map"
     /\ mapFile' = Torn
     /\ UNCHANGED <<file, slotsFile>>
  \/ /\ work[w].pc = "slots"
     /\ slotsFile' = Torn
     /\ UNCHANGED <<file, mapFile>>

(* The process stops: what is in memory is gone. *)
Stop ==
  /\ mode # "down" /\ stops < MaxStops
  /\ \/ UNCHANGED files
     \/ /\ mode = "allocating"
        /\ slotsFile' = Torn
        /\ UNCHANGED <<file, mapFile>>
     \/ \E w \in Worker : holder = w /\ CutOff(w)
  /\ stops' = stops + 1
  /\ cut' = (cut \/ holder # None)
  /\ mode' = "down"
  /\ slotMap' = None /\ contentMap' = NoContent /\ tree' = None
  /\ holder' = None
  /\ work' = [w \in Worker |-> Idle]
  /\ prover' = Rest
  /\ UNCHANGED <<chain, faults>>

-----------------------------------------------------------------------------
At(w, pc) == mode = "up" /\ work[w].pc = pc

Goto(w, pc) == work' = [work EXCEPT ![w].pc = pc]

End(w) == work' = [work EXCEPT ![w] = Idle]

Fault == faults < MaxFaults /\ faults' = faults + 1

(* get_content_from_slots before a store: what is in slots is not stored. *)
StartStore(w) ==
  /\ Storing(w) /\ At(w, "idle") /\ holder = None
  /\ \E c \in Content :
       /\ contentMap[c] = << >>
       /\ work' = [work EXCEPT ![w].pc = "find", ![w].c = c]
  /\ UNCHANGED <<mode, files, memory, chain, holder, prover, tally>>

(* Mutants: a content slot counts as open; a proof slot does. *)
OpenOrContentSlots == {i \in Slot : slotMap[i] # "Proof"}

OpenOrProofSlots == {i \in Slot : slotMap[i] \notin Content}

OpenSlots == {i \in Slot : slotMap[i] = "Open"}

(* find_open_slots: the first n open slots, in order. *)
FirstOpen(s) ==
  /\ \A j, k \in DOMAIN s : j < k => s[j] < s[k]
  /\ \A i \in OpenSlots : \A j \in DOMAIN s :
       i < s[j] => \E k \in DOMAIN s : s[k] = i

Find(w) ==
  /\ At(w, "find") /\ holder = None
  /\ \E s \in [1..Chunks[work[w].c] -> OpenSlots] :
       /\ FirstOpen(s)
       /\ work' = [work EXCEPT ![w].pc = "write", ![w].at = s, ![w].k = 1]
  /\ holder' = w
  /\ UNCHANGED <<mode, files, memory, chain, prover, tally>>

(* Mutant: a store without room looks for slots again. *)
NotEnoughSlotsAgain(w) ==
  /\ At(w, "find") /\ holder = None
  /\ ~\E s \in [1..Chunks[work[w].c] -> OpenSlots] : FirstOpen(s)
  /\ UNCHANGED vars

NotEnoughSlots(w) ==
  /\ At(w, "find") /\ holder = None
  /\ ~\E s \in [1..Chunks[work[w].c] -> OpenSlots] : FirstOpen(s)
  /\ End(w)
  /\ UNCHANGED <<mode, files, memory, chain, holder, prover, tally>>

(* delete_content_from_slots, of a content that has a mapping. *)
StartDelete ==
  /\ At(Collector, "idle") /\ holder = None
  /\ \E c \in Content :
       /\ contentMap[c] # << >>
       /\ work' = [work EXCEPT ![Collector].pc = "write", ![Collector].c = c,
                               ![Collector].at = contentMap[c],
                               ![Collector].k = 1]
  /\ holder' = Collector
  /\ UNCHANGED <<mode, files, memory, chain, prover, tally>>

(* What an operation leaves in its k-th slot. *)
Written(w, k) == IF Storing(w) THEN Chunk(work[w].c, k) ELSE Zero

WriteChunk(w) ==
  /\ At(w, "write")
  /\ file' = [file EXCEPT ![work[w].at[work[w].k]] = Written(w, work[w].k)]
  /\ work' = [work EXCEPT
       ![w].k  = @ + 1,
       ![w].pc = IF work[w].k = Len(work[w].at) THEN "mark" ELSE "write"]
  /\ UNCHANGED <<mode, slotsFile, mapFile, memory, chain, holder, prover,
                 tally>>


(* mark_slots_as_content, remove_content_by_id. *)
Mark(w) ==
  /\ At(w, "mark")
  /\ LET used == {work[w].at[k] : k \in DOMAIN work[w].at}
     IN  slotMap' = [i \in Slot |->
           IF i \notin used THEN slotMap[i]
           ELSE IF Storing(w) THEN work[w].c ELSE "Open"]
  /\ contentMap' = [contentMap EXCEPT
       ![work[w].c] = IF Storing(w) THEN work[w].at ELSE << >>]
  /\ Goto(w, "map")
  /\ UNCHANGED <<mode, files, tree, chain, holder, prover, tally>>

(* save_content_slot_map, the last step of both. *)
SaveMap(w) ==
  /\ At(w, "map")
  /\ mapFile' = contentMap
  /\ Goto(w, "slots")
  /\ UNCHANGED <<mode, file, slotsFile, memory, chain, holder, prover, tally>>

(* save_slot_map; the allocator is free before the tree is updated. *)
SaveSlots(w) ==
  /\ At(w, "slots")
  /\ slotsFile' = slotMap
  /\ holder' = None
  /\ Goto(w, IF Storing(w) THEN "tree" ELSE "previous")
  /\ UNCHANGED <<mode, file, mapFile, memory, chain, prover, tally>>

(* A write fails: the operation returns and undoes nothing. *)
WriteFails(w) ==
  /\ mode = "up" /\ work[w].pc \in {"write", "map", "slots"}
  /\ Fault /\ cut' = TRUE
  /\ UNCHANGED files \/ CutOff(w)
  /\ holder' = None
  /\ End(w)
  /\ UNCHANGED <<mode, memory, chain, prover, stops>>

-----------------------------------------------------------------------------
(* The collector keeps the root it replaces. *)
ReadRoot(w) ==
  /\ At(w, "previous") /\ TreeFree
  /\ work' = [work EXCEPT ![w].pc = "tree", ![w].root = tree]
  /\ UNCHANGED <<mode, files, memory, chain, holder, prover, tally>>

(* Mutant: the leaves are those of the chunks' numbers, not of their slots. *)
UpdateTreeByNumber(w) ==
  /\ At(w, "tree") /\ TreeFree
  /\ tree' = [i \in Slot |->
       IF i + 1 \in DOMAIN work[w].at THEN Written(w, i + 1) ELSE tree[i]]
  /\ IF tree' = work[w].root
     THEN End(w)
     ELSE work' = [work EXCEPT ![w].pc = "submit", ![w].root = tree']
  /\ UNCHANGED <<mode, files, slotMap, contentMap, chain, holder, prover, tally>>

(* update_merkle_tree_for_content; a delete that changed nothing ends. *)
UpdateTree(w) ==
  /\ At(w, "tree") /\ TreeFree
  /\ tree' = [i \in Slot |->
       IF \E k \in DOMAIN work[w].at : work[w].at[k] = i
       THEN Written(w, CHOOSE k \in DOMAIN work[w].at : work[w].at[k] = i)
       ELSE tree[i]]
  /\ IF tree' = work[w].root
     THEN End(w)
     ELSE work' = [work EXCEPT ![w].pc = "submit", ![w].root = tree']
  /\ UNCHANGED <<mode, files, slotMap, contentMap, chain, holder, prover,
                 tally>>

(* get_registration_info after the first commit. *)
Register ==
  /\ At(Registrar, "info") /\ TreeFree
  /\ work' = [work EXCEPT ![Registrar].pc = "submit", ![Registrar].root = tree]
  /\ UNCHANGED <<mode, files, memory, chain, holder, prover, tally>>

(***************************************************************************)
(* submit_merkle_root_update, register_capacity_onchain.  The chain        *)
(* ignores an update of a provider that is not registered.  A submission   *)
(* that fails is not repeated.                                             *)
(***************************************************************************)
Submit(w) ==
  /\ At(w, "submit")
  /\ chain' = IF w = Registrar \/ chain # None THEN work[w].root ELSE chain
  /\ End(w)
  /\ UNCHANGED <<mode, files, memory, holder, prover, tally>>

SubmitFails(w) ==
  /\ At(w, "submit")
  /\ Fault /\ cut' = cut
  /\ End(w)
  /\ UNCHANGED <<mode, files, memory, chain, holder, prover, stops>>

-----------------------------------------------------------------------------
(***************************************************************************)
(* A challenge for one chunk carries the root the chain has when it is     *)
(* made.  generate_capacity_proof takes the tree and compares the roots,   *)
(* waits for the allocator to copy the slot map, and reads the file with   *)
(* the tree still taken.                                                   *)
(***************************************************************************)
Challenge ==
  /\ mode = "up" /\ prover.pc \in {"idle", "done"}
  /\ chain # None
  /\ \E i \in Probe :
       prover' = [pc |-> "asked", i |-> i, root |-> chain, ok |-> TRUE]
  /\ UNCHANGED <<mode, files, memory, chain, holder, work, tally>>

TakeTree ==
  /\ mode = "up" /\ prover.pc = "asked"
  /\ prover' = IF tree = prover.root THEN [prover EXCEPT !.pc = "copy"] ELSE Rest
  /\ UNCHANGED <<mode, files, memory, chain, holder, work, tally>>

CopySlots ==
  /\ mode = "up" /\ prover.pc = "copy" /\ holder = None
  /\ prover' = [prover EXCEPT !.pc = "read"]
  /\ UNCHANGED <<mode, files, memory, chain, holder, work, tally>>

(* The chunk is good if the leaf its path starts from is its hash. *)
ReadChunk ==
  /\ mode = "up" /\ prover.pc = "read"
  /\ prover' = [pc |-> "done", i |-> prover.i, root |-> None,
                ok |-> file[prover.i] = tree[prover.i]]
  /\ UNCHANGED <<mode, files, memory, chain, holder, work, tally>>

Step(w) ==
  \/ StartStore(w) \/ Find(w) \/ NotEnoughSlots(w)
  \/ WriteChunk(w) \/ Mark(w) \/ SaveMap(w) \/ SaveSlots(w) \/ WriteFails(w)
  \/ ReadRoot(w) \/ UpdateTree(w) \/ Submit(w) \/ SubmitFails(w)

Next ==
  \/ Allocate \/ Allocated \/ Load \/ Stop
  \/ StartDelete \/ Register
  \/ Challenge \/ TakeTree \/ CopySlots \/ ReadChunk
  \/ \E w \in Worker : Step(w)

Spec == Init /\ [][Next]_vars

(***************************************************************************)
(* A started operation goes on: the runtime polls every task, and its      *)
(* mutexes hand the lock to the first that waits.  That a content is       *)
(* stored or deleted at all, or a challenge made, is nobody's duty.        *)
(***************************************************************************)
Proceed(w) ==
  \/ Find(w) \/ NotEnoughSlots(w)
  \/ WriteChunk(w) \/ Mark(w) \/ SaveMap(w) \/ SaveSlots(w)
  \/ ReadRoot(w) \/ UpdateTree(w) \/ Submit(w)

FairSpec ==
  /\ Spec
  /\ \A w \in Worker : SF_vars(Proceed(w))
  /\ SF_vars(Register)
  /\ WF_vars(TakeTree) /\ SF_vars(CopySlots) /\ WF_vars(ReadChunk)
=============================================================================

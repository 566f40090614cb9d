------------------------ MODULE CapacitySlotsProofs ------------------------
(***************************************************************************)
(* That SlotsInv is inductive, one lemma for each action, and what follows *)
(* from it.                                                                *)
(***************************************************************************)
EXTENDS CapacitySlotsInv, TLAPS

(* Only proof data is marked as such. *)
LEMMA DataFacts ==
  /\ Zero \in Data /\ Zero.of # "proof"
  /\ \A i \in Nat : ProofData(i) \in Data /\ ProofData(i).of = "proof"
  /\ \A c \in Content, k \in Nat : Chunk(c, k) \in Data /\ Chunk(c, k).of # "proof"
BY SlotsAssumption DEF Zero, ProofData, Chunk, Data

(* An operation writes a chunk or zeros, never proof data. *)
LEMMA WrittenFacts ==
  ASSUME NEW w \in Worker, work[w].c \in Content, NEW k \in Nat
  PROVE  Written(w, k) \in Data /\ Written(w, k).of # "proof"
BY DataFacts DEF Written

(* The records operations start from. *)
LEMMA IdleFacts ==
  /\ Idle.pc = "idle" /\ Idle.at = << >> /\ Idle.k = 0 /\ Idle.c = None
  /\ Idle.root = None
  /\ Idle \in [pc : PC, c : Content \cup {None}, at : Seq(Slot), k : Nat,
               root : Tree \cup {None}]
  /\ DOMAIN Idle.at = {}
BY DEF Idle, PC

(* A tree built from a slot map has the proof data where the map says so. *)
LEMMA BuildTreeFacts ==
  ASSUME NEW map \in SlotMap, NEW data \in Tree
  PROVE  /\ BuildTree(map, data) \in Tree
         /\ \A i \in Slot : map[i] = "Proof" => BuildTree(map, data)[i] = ProofData(i)
         /\ \A i \in Slot : map[i] = "Open" => BuildTree(map, data)[i] = Zero
<1>1. \A i \in Slot : /\ i \in Nat /\ data[i] \in Data
                      /\ map[i] \in Content \cup {"Proof", "Open"}
  BY SlotsAssumption DEF Tree, SlotMap
<1>2. \A i \in Slot : BuildTree(map, data)[i] =
        CASE map[i] = "Proof" -> ProofData(i)
          [] map[i] = "Open"  -> Zero
          [] OTHER            -> data[i]
  BY DEF BuildTree
<1>3. \A i \in Slot : /\ map[i] = "Proof" => BuildTree(map, data)[i] = ProofData(i)
                      /\ map[i] = "Open" => BuildTree(map, data)[i] = Zero
                      /\ map[i] \in Content => BuildTree(map, data)[i] = data[i]
  BY <1>1, <1>2, SlotsAssumption
<1>4. \A i \in Slot : BuildTree(map, data)[i] \in Data
  BY <1>1, <1>3, DataFacts
<1> QED
  BY <1>3, <1>4 DEF BuildTree, Tree

-----------------------------------------------------------------------------
(* Nothing is allocated: the invariant holds. *)
LEMMA InitInv == Init => SlotsInv
<1> SUFFICES ASSUME Init PROVE SlotsInv
  OBVIOUS
<1>1. NoContent \in ContentMap /\ \A c \in Content : DOMAIN NoContent[c] = {}
  BY DEF NoContent, ContentMap
<1>2. None \notin SlotMap
  BY SlotsAssumption, Zenon
<1>3. TypeOK
  BY <1>1, IdleFacts, DataFacts, Zenon DEF Init, TypeOK, Rest, Tree
<1>4. WorkInv
  BY IdleFacts, SlotsAssumption, Zenon DEF Init, WorkInv, Locked, Rest
<1>5. \A i \in Slot : ~HasProof(i)
  BY DataFacts DEF Init, HasProof
<1>6. mapFile \in ContentMap => \A c \in Content : NotProof(mapFile[c])
  <2> SUFFICES ASSUME mapFile \in ContentMap, NEW c \in Content
               PROVE  NotProof(mapFile[c])
    BY Zenon
  <2>1. \A k \in DOMAIN mapFile[c] : mapFile[c][k] \in Slot
    BY DEF ContentMap
  <2> QED
    BY <2>1, <1>5 DEF NotProof
<1>7. ProofInv
  BY <1>1, <1>2, <1>5, <1>6, IdleFacts, Zenon DEF Init, ProofInv, NotProof, Rest
<1>8. UncutInv
  BY <1>1, <1>2, Zenon DEF Init, UncutInv
<1> QED
  BY <1>3, <1>4, <1>7, <1>8 DEF SlotsInv

-----------------------------------------------------------------------------
WorkRecord == [pc : PC, c : Content \cup {None}, at : Seq(Slot), k : Nat,
               root : Tree \cup {None}]

(* The slots of a sequence or a mapping are slots. *)
LEMMA SlotFacts ==
  ASSUME TypeOK
  PROVE  /\ \A w \in Worker : \A k \in DOMAIN work[w].at :
              k \in Nat /\ work[w].at[k] \in Slot
         /\ \A c \in Content : \A k \in DOMAIN contentMap[c] :
              k \in Nat /\ contentMap[c][k] \in Slot
         /\ mapFile \in ContentMap =>
              \A c \in Content : \A k \in DOMAIN mapFile[c] :
                k \in Nat /\ mapFile[c][k] \in Slot
BY SMTT(60) DEF TypeOK, ContentMap

(* Two operations are never inside the lock at once. *)
LEMMA OneInside ==
  ASSUME WorkInv, NEW v \in Worker, NEW w \in Worker,
         work[v].pc \in Locked, work[w].pc \in Locked
  PROVE  v = w
BY Zenon DEF WorkInv

(***************************************************************************)
(* An operation takes a step outside of the allocator's lock, on the tree, *)
(* the chain, or neither.                                                  *)
(***************************************************************************)
OutsideStep(w) ==
  /\ mode = "up"
  /\ UNCHANGED <<mode, files, slotMap, contentMap, holder, prover, stops, cut>>
  /\ faults' \in Nat
  /\ chain' \in Tree \cup {None}
  /\ tree' \in Tree
  /\ \A i \in Slot : HasProof(i) => tree'[i] = ProofData(i)
  /\ work' \in [Worker -> WorkRecord]
  /\ \A v \in Worker : v # w => work'[v] = work[v]
  /\ work[w].pc \notin Locked /\ work'[w].pc \notin Locked
  /\ work'[w].at = work[w].at \/ work'[w].at = << >>
  /\ work'[w].pc \notin {"idle", "info", "submit"} =>
       w # Registrar /\ work'[w].c \in Content
  /\ work'[w].pc = "find" => w \in Task

(* Such a step keeps the invariant. *)
LEMMA OutsideInv ==
  ASSUME SlotsInv, NEW w \in Worker, OutsideStep(w)
  PROVE  SlotsInv'
<1> USE DEF files
<1>1. TypeOK /\ WorkInv /\ ProofInv /\ (~cut => UncutInv)
  BY DEF SlotsInv
<1>2. TypeOK'
  BY <1>1 DEF TypeOK, OutsideStep, WorkRecord
<1>3. WorkInv'
  BY <1>1, ZenonT(60) DEF WorkInv, OutsideStep, Locked
<1>4. ProofInv'
  <2>1. \A s : NotProof(s)' <=> NotProof(s)
    BY Zenon DEF NotProof, HasProof, OutsideStep
  <2>2. \A v \in Worker : NotProof(work'[v].at)
    BY <1>1 DEF ProofInv, NotProof, OutsideStep
  <2> QED
    BY <1>1, <2>1, <2>2, SMTT(60) DEF ProofInv, OutsideStep, HasProof, NotProof
<1>5. ~cut' => UncutInv'
  <2> SUFFICES ASSUME ~cut PROVE UncutInv'
    BY DEF OutsideStep
  <2>1. UncutInv /\ mode' = "up"
    BY <1>1 DEF OutsideStep
  <2>2. \A v \in Worker : \/ work'[v] = work[v]
                          \/ work[v].pc \notin Locked /\ work'[v].pc \notin Locked
    BY DEF OutsideStep
  <2>3. \A v \in Task : StoreInv(v)'
    BY <2>1, <2>2, SMTT(60) DEF UncutInv, StoreInv, OutsideStep, Worker, Locked
  <2>4. \A c \in Content : Deleting(c) => Deleting(c)'
    BY <2>2 DEF Deleting, Worker, Locked
  <2>5. /\ Agree(slotMap, contentMap)'
        /\ \A c \in Content : (Holds(c, contentMap[c]) \/ Deleting(c))'
    BY <2>1, <2>4, Zenon DEF UncutInv, Agree, Holds, OutsideStep
  <2>6. (work[Collector].pc \in {"write", "mark"} =>
            work[Collector].at = contentMap[work[Collector].c])'
    BY <2>1, <2>2, Zenon DEF UncutInv, OutsideStep, Worker, Locked
  <2>7. (\A v \in Worker : work[v].pc = "slots" => mapFile = contentMap)'
    BY <2>1, <2>2, Zenon DEF UncutInv, OutsideStep, Locked
  <2> QED
    BY <2>1, <2>3, <2>5, <2>6, <2>7, Zenon DEF UncutInv, OutsideStep
<1> QED
  BY <1>2, <1>3, <1>4, <1>5 DEF SlotsInv

(* StartStore, NotEnoughSlots, ReadRoot, Register, Submit and its failure. *)
LEMMA TaskInv ==
  ASSUME SlotsInv, NEW w \in Worker,
         \/ StartStore(w) \/ NotEnoughSlots(w) \/ ReadRoot(w)
         \/ Submit(w) \/ SubmitFails(w)
         \/ w = Registrar /\ Register
  PROVE  SlotsInv'
<1> USE DEF files, memory, tally
<1>1. TypeOK /\ WorkInv /\ ProofInv
  BY DEF SlotsInv
<1>2. work \in [Worker -> WorkRecord] /\ Idle \in WorkRecord
  BY <1>1, IdleFacts DEF TypeOK, WorkRecord
<1>3. mode = "up" => tree \in Tree /\ \A i \in Slot : HasProof(i) => tree[i] = ProofData(i)
  BY <1>1, Zenon DEF TypeOK, ProofInv
<1>4. chain \in Tree \cup {None} /\ faults \in Nat
  BY <1>1 DEF TypeOK
<1>5. CASE StartStore(w)
  <2>1. PICK c \in Content :
          work' = [work EXCEPT ![w].pc = "find", ![w].c = c]
    BY <1>5, Zenon DEF StartStore
  <2>2. OutsideStep(w)
    BY <1>2, <1>3, <1>4, <1>5, <2>1, SlotsAssumption, ZenonT(60)
    DEF StartStore, OutsideStep, At, Storing, WorkRecord, PC, Locked
  <2> QED
    BY <2>2, OutsideInv
<1>6. CASE NotEnoughSlots(w)
  <2>1. OutsideStep(w)
    BY <1>2, <1>3, <1>4, <1>6, IdleFacts, Zenon
    DEF NotEnoughSlots, OutsideStep, At, End, Locked
  <2> QED
    BY <2>1, OutsideInv, Zenon
<1>7. CASE ReadRoot(w)
  <2>1. w # Registrar /\ work[w].c \in Content
    BY <1>1, <1>7, Zenon DEF WorkInv, ReadRoot, At
  <2>2. OutsideStep(w)
    BY <1>2, <1>3, <1>4, <1>7, <2>1, ZenonT(60)
    DEF ReadRoot, OutsideStep, At, WorkRecord, PC, Locked
  <2> QED
    BY <2>2, OutsideInv
<1>8. CASE Submit(w)
  <2>1. work[w].root \in Tree \cup {None}
    BY <1>2 DEF WorkRecord
  <2>2. OutsideStep(w)
    BY <1>2, <1>3, <1>4, <1>8, <2>1, IdleFacts, Zenon
    DEF Submit, OutsideStep, At, End, Locked
  <2> QED
    BY <2>2, OutsideInv, Zenon
<1>9. CASE SubmitFails(w)
  <2>1. OutsideStep(w)
    BY <1>2, <1>3, <1>4, <1>9, IdleFacts
    DEF SubmitFails, OutsideStep, At, End, Locked, Fault
  <2> QED
    BY <2>1, OutsideInv, Zenon
<1>10. CASE w = Registrar /\ Register
  <2>1. OutsideStep(w)
    BY <1>2, <1>3, <1>4, <1>10, ZenonT(60)
    DEF Register, OutsideStep, At, WorkRecord, PC, Locked
  <2> QED
    BY <2>1, OutsideInv
<1> QED
  BY <1>5, <1>6, <1>7, <1>8, <1>9, <1>10, Zenon

(* UpdateTree changes no leaf of a proof slot. *)
LEMMA UpdateTreeInv ==
  ASSUME SlotsInv, NEW w \in Worker, UpdateTree(w)
  PROVE  SlotsInv'
<1> USE DEF files
<1>1. TypeOK /\ WorkInv /\ ProofInv
  BY DEF SlotsInv
<1>2. work \in [Worker -> WorkRecord] /\ Idle \in WorkRecord
  BY <1>1, IdleFacts, Zenon DEF TypeOK, WorkRecord
<1>3. mode = "up" /\ work[w].pc = "tree" /\ work[w].c \in Content /\ w # Registrar
  BY <1>1, Zenon DEF UpdateTree, At, WorkInv
<1>4. tree \in Tree /\ \A i \in Slot : HasProof(i) => tree[i] = ProofData(i)
  BY <1>1, <1>3 DEF TypeOK, ProofInv
<1> DEFINE used(i) == \E k \in DOMAIN work[w].at : work[w].at[k] = i
           at(i)   == CHOOSE k \in DOMAIN work[w].at : work[w].at[k] = i
<1>5. \A i \in Slot : used(i) => at(i) \in Nat /\ ~HasProof(i)
  BY <1>1, SlotFacts, Zenon DEF ProofInv, NotProof
<1>6. \A i \in Slot : tree'[i] = IF used(i) THEN Written(w, at(i)) ELSE tree[i]
  BY DEF UpdateTree
<1> HIDE DEF used, at
<1>7. \A i \in Slot : tree'[i] \in Data /\ (HasProof(i) => tree'[i] = ProofData(i))
  BY <1>3, <1>4, <1>5, <1>6, WrittenFacts, Zenon DEF Tree
<1>8. tree' \in Tree
  BY <1>7, Zenon DEF UpdateTree, Tree
<1>9. chain \in Tree \cup {None} /\ faults \in Nat
  BY <1>1 DEF TypeOK
<1>10. \/ work' = [work EXCEPT ![w] = Idle]
       \/ work' = [work EXCEPT ![w].pc = "submit", ![w].root = tree']
  BY Zenon DEF UpdateTree, End
<1>11. /\ work' \in [Worker -> WorkRecord]
       /\ \A v \in Worker : v # w => work'[v] = work[v]
       /\ work'[w].pc \in {"idle", "submit"}
       /\ work'[w].at = work[w].at \/ work'[w].at = << >>
  <2>1. CASE work' = [work EXCEPT ![w] = Idle]
    BY <1>2, <2>1, IdleFacts, Zenon
  <2>2. CASE work' = [work EXCEPT ![w].pc = "submit", ![w].root = tree']
    BY <1>2, <1>8, <2>2, ZenonT(60) DEF WorkRecord, PC
  <2> QED
    BY <1>10, <2>1, <2>2, Zenon
<1>12. OutsideStep(w)
  BY <1>3, <1>7, <1>8, <1>9, <1>11, Zenon DEF UpdateTree, OutsideStep, tally, Locked
<1> QED
  BY <1>12, OutsideInv

(* A challenge changes only where it stands. *)
LEMMA ChallengeInv ==
  ASSUME SlotsInv, Challenge \/ TakeTree \/ CopySlots \/ ReadChunk
  PROVE  SlotsInv'
<1> USE DEF files, memory, tally
<1>1. TypeOK /\ WorkInv /\ ProofInv /\ (~cut => UncutInv)
  BY DEF SlotsInv
<1>2. UNCHANGED <<mode, files, memory, chain, holder, work, tally>> /\ mode = "up"
  BY DEF Challenge, TakeTree, CopySlots, ReadChunk
<1>3. /\ prover' \in [pc : {"idle", "asked", "copy", "read", "done"},
                      i : Slot \cup {None}, root : Tree \cup {None}, ok : BOOLEAN]
      /\ prover'.pc # "idle" => prover'.i \in Slot
      /\ prover'.pc = "done" /\ HasProof(prover'.i) => prover'.ok
  <2>1. CASE Challenge
    BY <1>1, <2>1, SlotsAssumption, SMTT(60) DEF Challenge, TypeOK
  <2>2. CASE TakeTree
    BY <1>1, <2>2, Zenon DEF TakeTree, TypeOK, WorkInv, Rest
  <2>3. CASE CopySlots
    BY <1>1, <2>3, Zenon DEF CopySlots, TypeOK, WorkInv
  <2>4. CASE ReadChunk
    <3>1. prover.i \in Slot
      BY <1>1, <2>4, Zenon DEF WorkInv, ReadChunk
    <3>2. HasProof(prover.i) => file[prover.i] = tree[prover.i]
      BY <1>1, <1>2, <3>1 DEF ProofInv
    <3> QED
      BY <2>4, <3>1, <3>2, Zenon DEF ReadChunk
  <2> QED
    BY <2>1, <2>2, <2>3, <2>4
<1>4. TypeOK'
  BY <1>1, <1>2, <1>3, ZenonT(60) DEF TypeOK
<1>5. WorkInv'
  BY <1>1, <1>2, <1>3, Zenon DEF WorkInv
<1>6. ProofInv'
  BY <1>1, <1>2, <1>3, SMTT(60) DEF ProofInv, HasProof, NotProof
<1>7. ~cut' => UncutInv'
  BY <1>1, <1>2, SMTT(60) DEF UncutInv, Agree, Holds, Deleting, StoreInv
<1> QED
  BY <1>4, <1>5, <1>6, <1>7 DEF SlotsInv

-----------------------------------------------------------------------------
(* A store finds open slots and takes the lock. *)
LEMMA FindInv ==
  ASSUME SlotsInv, NEW w \in Worker, Find(w)
  PROVE  SlotsInv'
<1> USE DEF files, memory, tally
<1>1. TypeOK /\ WorkInv /\ ProofInv /\ (~cut => UncutInv)
  BY DEF SlotsInv
<1>2. /\ mode = "up" /\ work[w].pc = "find" /\ holder = None
      /\ w \in Task /\ w # Registrar /\ w # Collector /\ work[w].c \in Content
  BY <1>1, SlotsAssumption, ZenonT(60) DEF Find, At, WorkInv
<1>3. PICK s \in [1..Chunks[work[w].c] -> OpenSlots] :
        /\ FirstOpen(s)
        /\ work' = [work EXCEPT ![w].pc = "write", ![w].at = s, ![w].k = 1]
  BY Zenon DEF Find
<1>4. Chunks[work[w].c] \in Nat /\ Chunks[work[w].c] > 0
  BY <1>2, SlotsAssumption
<1>5. /\ s \in Seq(Slot) /\ DOMAIN s = 1..Chunks[work[w].c] /\ 1 \in DOMAIN s
      /\ \A k \in DOMAIN s : s[k] \in Slot /\ slotMap[s[k]] = "Open" /\ k \in Nat
  BY <1>3, <1>4, SMTT(60) DEF OpenSlots
<1>6. \A j, l \in DOMAIN s : j # l => s[j] # s[l]
  <2>1. \A k \in DOMAIN s : s[k] \in Nat
    BY <1>5, SlotsAssumption, Zenon
  <2> QED
    BY <1>3, <1>5, <2>1, SMTT(60) DEF FirstOpen
<1>7. work \in [Worker -> WorkRecord]
  BY <1>1 DEF TypeOK, WorkRecord
<1>8. /\ work' \in [Worker -> WorkRecord]
      /\ \A v \in Worker : v # w => work'[v] = work[v]
      /\ work'[w].pc = "write" /\ work'[w].at = s /\ work'[w].k = 1
      /\ work'[w].c = work[w].c
  <2> DEFINE n == [work[w] EXCEPT !.pc = "write", !.at = s, !.k = 1]
  <2>1. work[w] \in WorkRecord /\ "write" \in PC
    BY <1>7 DEF PC
  <2>2. /\ n \in WorkRecord
        /\ n.pc = "write" /\ n.at = s /\ n.k = 1 /\ n.c = work[w].c
    BY <1>5, <2>1, Zenon DEF WorkRecord
  <2>3. work' = [work EXCEPT ![w] = n]
    BY <1>3, <1>7, Zenon
  <2> HIDE DEF n
  <2> QED
    BY <1>7, <2>2, <2>3, Zenon
<1>9. /\ UNCHANGED <<mode, files, memory, chain, prover, tally>> /\ holder' = w
      /\ w # None
  BY SlotsAssumption, Zenon DEF Find
<1>10. TypeOK'
  BY <1>1, <1>8, <1>9, SMTT(60) DEF TypeOK, WorkRecord
<1>11. WorkInv'
  <2>1. \A v \in Worker : v # w => work'[v] = work[v] /\ work[v].pc \notin Locked
    BY <1>1, <1>2, <1>8, SlotsAssumption DEF WorkInv
  <2>2. \A v \in Worker : work'[v].pc \in Locked <=> holder' = v
    BY <1>8, <1>9, <2>1 DEF Locked
  <2>3. work'[w].k \in DOMAIN work'[w].at
    BY <1>5, <1>8
  <2>4. \A v \in Worker :
          /\ work'[v].pc \notin {"idle", "info", "submit"} =>
               v # Registrar /\ work'[v].c \in Content
          /\ work'[v].pc = "find" => v \in Task
          /\ work'[v].pc = "write" => work'[v].k \in DOMAIN work'[v].at
          /\ work'[v].pc = "mark" => work'[v].k = Len(work'[v].at) + 1
    BY <1>1, <1>2, <1>8, <2>3, ZenonT(60) DEF WorkInv
  <2> QED
    BY <1>1, <1>2, <1>9, <2>2, <2>4 DEF WorkInv
<1>12. ProofInv'
  <2>1. NotProof(s)
    BY <1>1, <1>2, <1>5, Zenon DEF ProofInv, NotProof
  <2>2. \A v \in Worker : NotProof(work'[v].at)
    BY <1>1, <1>8, <2>1, Zenon DEF ProofInv
  <2> QED
    BY <1>1, <1>9, <2>2, ZenonT(60) DEF ProofInv, HasProof, NotProof
<1>13. ~cut' => UncutInv'
  <2> SUFFICES ASSUME ~cut PROVE UncutInv'
    BY <1>9, Zenon
  <2>1. StoreInv(w)'
    BY <1>5, <1>6, <1>8, <1>9, SMTT(60) DEF StoreInv
  <2>2. \A v \in Worker : v # w => work[v].pc \notin Locked
    BY <1>1, <1>2, SlotsAssumption, Zenon DEF WorkInv
  <2>3. \A v \in Task : StoreInv(v)'
    <3>1. \A v \in Task : v # w => work'[v].pc \notin Locked
      BY <2>2, <1>8, Zenon DEF Worker
    <3>2. \A v \in Task : v # w => StoreInv(v)'
      BY <3>1 DEF StoreInv, Locked
    <3> QED
      BY <2>1, <3>2
  <2>4. work'[Collector] = work[Collector]
    BY <1>2, <1>8 DEF Worker
  <2>5. /\ Agree(slotMap, contentMap)'
        /\ \A c \in Content : (Holds(c, contentMap[c]) \/ Deleting(c))'
    BY <1>1, <1>2, <1>9, <2>4, SMTT(60) DEF UncutInv, Agree, Holds, Deleting
  <2>6. (\A v \in Worker : work[v].pc = "slots" => mapFile = contentMap)'
    BY <2>2, <1>8 DEF Locked
  <2> QED
    BY <1>1, <1>2, <1>9, <2>3, <2>4, <2>5, <2>6, Zenon DEF UncutInv
<1> QED
  BY <1>10, <1>11, <1>12, <1>13, Zenon DEF SlotsInv

(* A delete takes the lock and the slots of a mapping. *)
LEMMA StartDeleteInv ==
  ASSUME SlotsInv, StartDelete
  PROVE  SlotsInv'
<1> USE DEF files, memory, tally
<1> DEFINE w == Collector
<1>1. TypeOK /\ WorkInv /\ ProofInv /\ (~cut => UncutInv)
  BY DEF SlotsInv
<1>2. w \in Worker /\ w # Registrar /\ w \notin Task /\ w # None
  BY SlotsAssumption DEF Worker
<1>3. mode = "up" /\ holder = None
  BY DEF StartDelete, At
<1>4. PICK c \in Content :
        /\ contentMap[c] # << >>
        /\ work' = [work EXCEPT ![w].pc = "write", ![w].c = c,
                                ![w].at = contentMap[c], ![w].k = 1]
  BY Zenon DEF StartDelete
<1>5. contentMap[c] \in Seq(Slot) /\ 1 \in DOMAIN contentMap[c]
  BY <1>1, <1>4 DEF TypeOK, ContentMap
<1>6. work \in [Worker -> WorkRecord]
  BY <1>1 DEF TypeOK, WorkRecord
<1> HIDE DEF w
<1>7. /\ work' \in [Worker -> WorkRecord]
      /\ \A v \in Worker : v # w => work'[v] = work[v]
      /\ work'[w].pc = "write" /\ work'[w].at = contentMap[c] /\ work'[w].k = 1
      /\ work'[w].c = c
  <2> DEFINE n == [work[w] EXCEPT !.pc = "write", !.c = c,
                                  !.at = contentMap[c], !.k = 1]
  <2>1. work[w] \in WorkRecord /\ "write" \in PC
    BY <1>2, <1>6, Zenon DEF PC
  <2>2. /\ n \in WorkRecord
        /\ n.pc = "write" /\ n.at = contentMap[c] /\ n.k = 1 /\ n.c = c
    BY <1>5, <2>1, Zenon DEF WorkRecord
  <2>3. work' = [work EXCEPT ![w] = n]
    BY <1>2, <1>4, <1>6, Zenon
  <2> HIDE DEF n
  <2> QED
    BY <1>2, <1>6, <2>2, <2>3, Zenon
<1>8. UNCHANGED <<mode, files, memory, chain, prover, tally>> /\ holder' = w
  BY Zenon DEF StartDelete, w
<1>9. TypeOK'
  BY <1>1, <1>2, <1>7, <1>8 DEF TypeOK, WorkRecord
<1>10. WorkInv'
  <2>1. \A v \in Worker : v # w => work'[v] = work[v] /\ work[v].pc \notin Locked
    BY <1>1, <1>3, <1>7, SlotsAssumption, Zenon DEF WorkInv
  <2> QED
    BY <1>1, <1>2, <1>3, <1>5, <1>7, <1>8, <2>1, ZenonT(60) DEF WorkInv, Locked
<1>11. ProofInv'
  BY <1>1, <1>7, <1>8, SMTT(60) DEF ProofInv, HasProof, NotProof
<1>12. ~cut' => UncutInv'
  <2> SUFFICES ASSUME ~cut PROVE UncutInv'
    BY <1>8
  <2>1. \A v \in Worker : v # w => work'[v].pc \notin Locked
    BY <1>1, <1>3, <1>7, SlotsAssumption DEF WorkInv
  <2>2. \A v \in Task : StoreInv(v)'
    BY <2>1, <1>2 DEF StoreInv, Locked, Worker
  <2>3. \A d \in Content : ~Deleting(d)
    BY <1>1, <1>2, <1>3 DEF WorkInv, Deleting, Locked, w
  <2>4. /\ Agree(slotMap, contentMap)'
        /\ \A d \in Content : Holds(d, contentMap[d])'
    BY <1>1, <1>3, <1>8, <2>3 DEF UncutInv, Agree, Holds
  <2>5. (\A v \in Worker : work[v].pc = "slots" => mapFile = contentMap)'
    BY <2>1, <1>7 DEF Locked
  <2> QED
    BY <1>2, <1>3, <1>7, <1>8, <2>2, <2>4, <2>5, Zenon DEF UncutInv, w
<1> QED
  BY <1>9, <1>10, <1>11, <1>12 DEF SlotsInv

(* One chunk is written, into a slot that is open or being deleted. *)
LEMMA WriteChunkInv ==
  ASSUME SlotsInv, NEW w \in Worker, WriteChunk(w)
  PROVE  SlotsInv'
<1> USE DEF memory, tally
<1> DEFINE r == work[w]
           s == r.at[r.k]
<1>1. TypeOK /\ WorkInv /\ ProofInv /\ (~cut => UncutInv)
  BY DEF SlotsInv
<1>2. work \in [Worker -> WorkRecord]
  BY <1>1 DEF TypeOK, WorkRecord
<1>3. /\ mode = "up" /\ r.pc = "write" /\ holder = w /\ w # None
      /\ w # Registrar /\ r.c \in Content /\ r.k \in DOMAIN r.at
  BY <1>1, SlotsAssumption, Zenon DEF WriteChunk, At, WorkInv, Locked
<1>4. s \in Slot /\ r.k \in Nat /\ ~HasProof(s)
  BY <1>1, <1>3, SlotFacts DEF ProofInv, NotProof
<1>5. /\ UNCHANGED <<mode, slotsFile, mapFile, memory, chain, holder, prover, tally>>
      /\ file' = [file EXCEPT ![s] = Written(w, r.k)]
      /\ Written(w, r.k) \in Data /\ Written(w, r.k).of # "proof"
  BY <1>3, <1>4, WrittenFacts, Zenon DEF WriteChunk
<1>6. /\ file' \in Tree /\ file \in Tree
      /\ file'[s] = Written(w, r.k)
      /\ \A i \in Slot : i # s => file'[i] = file[i]
      /\ \A i \in Slot : HasProof(i)' <=> HasProof(i)
  <2>1. file \in Tree
    BY <1>1 DEF TypeOK
  <2> HIDE DEF s, r
  <2> QED
    BY <1>4, <1>5, <2>1, Zenon DEF Tree, HasProof
<1>7. r.at \in Seq(Slot) /\ DOMAIN r.at = 1..Len(r.at) /\ Len(r.at) \in Nat
  BY <1>2 DEF WorkRecord
<1>8. /\ work' \in [Worker -> WorkRecord]
      /\ \A v \in Worker : v # w => work'[v] = work[v]
      /\ work'[w].pc = IF r.k = Len(r.at) THEN "mark" ELSE "write"
      /\ work'[w].k = r.k + 1 /\ work'[w].c = r.c /\ work'[w].at = r.at
  <2> DEFINE next == IF r.k = Len(r.at) THEN "mark" ELSE "write"
             n == [r EXCEPT !.k = r.k + 1, !.pc = next]
  <2>1. r \in WorkRecord /\ next \in PC /\ r.k + 1 \in Nat
    BY <1>2, <1>4 DEF PC
  <2>2. work' = [work EXCEPT ![w] = n]
    BY <1>2, Zenon DEF WriteChunk
  <2> HIDE DEF r, next
  <2>3. /\ n \in WorkRecord
        /\ n.pc = next /\ n.k = r.k + 1 /\ n.c = r.c /\ n.at = r.at
    BY <2>1, Zenon DEF WorkRecord
  <2> HIDE DEF n
  <2> QED
    BY <1>2, <2>2, <2>3, Zenon DEF next
<1> HIDE DEF s, r
<1>9. TypeOK'
  BY <1>1, <1>5, <1>6, <1>8, SMTT(60) DEF TypeOK, WorkRecord
<1>10. WorkInv'
  <2>1. /\ work'[w].pc = "write" => work'[w].k \in DOMAIN work'[w].at
        /\ work'[w].pc = "mark" => work'[w].k = Len(work'[w].at) + 1
        /\ work'[w].pc \in {"write", "mark"}
    BY <1>3, <1>4, <1>7, <1>8
  <2>2. \A v \in Worker : v # w => work'[v] = work[v] /\ v # holder
    BY <1>3, <1>8, Zenon
  <2> QED
    BY <1>1, <1>3, <1>5, <1>8, <2>1, <2>2, ZenonT(60) DEF WorkInv, Locked
<1>11. ProofInv'
  <2>1. /\ \A c \in Content : NotProof(contentMap[c])'
        /\ mapFile \in ContentMap => \A c \in Content : NotProof(mapFile[c])'
        /\ \A v \in Worker : NotProof(work[v].at)'
    <3>1. \A v \in Worker : work'[v].at = work[v].at
      BY <1>8, Zenon DEF r
    <3> QED
      BY <1>1, <1>5, <1>6, <3>1, SlotFacts, ZenonT(60) DEF ProofInv, NotProof
  <2>2. (prover.pc = "done" /\ HasProof(prover.i) => prover.ok)'
    BY <1>1, <1>5, <1>6, Zenon DEF ProofInv, WorkInv
  <2>3. \A i \in Slot : HasProof(i)' => file'[i] = ProofData(i)
    BY <1>1, <1>4, <1>6 DEF ProofInv
  <2> QED
    BY <1>1, <1>3, <1>5, <1>6, <2>1, <2>2, <2>3, Zenon DEF ProofInv
<1>12. ~cut' => UncutInv'
  <2> SUFFICES ASSUME ~cut PROVE UncutInv'
    BY <1>5
  <2>1. UncutInv
    BY <1>1
  <2>2. \A v \in Worker : v # w => work'[v].pc \notin Locked
    BY <1>1, <1>3, <1>8 DEF WorkInv
  <2>3. Agree(slotMap, contentMap)'
    BY <2>1, <1>3, <1>5 DEF UncutInv, Agree
  <2>4. (\A v \in Worker : work[v].pc = "slots" => mapFile = contentMap)'
    BY <2>2, <1>8 DEF Locked
  <2>5. CASE w \in Task
    <3>1. w # Collector
      BY <2>5, SlotsAssumption
    <3>2. StoreInv(w)
      BY <2>1, <2>5, <1>3 DEF UncutInv
    <3>3. \A j \in DOMAIN r.at : /\ slotMap[r.at[j]] = "Open" /\ j \in Nat
                                 /\ r.at[j] \in Slot
                                 /\ j < r.k => file[r.at[j]] = Chunk(r.c, j)
                                 /\ j # r.k => r.at[j] # s
      BY <3>2, <1>1, <1>3, SlotFacts, Zenon DEF StoreInv, r, s
    <3>4. Written(w, r.k) = Chunk(r.c, r.k)
      BY <2>5 DEF Written, Storing, r
    <3>5. \A j \in DOMAIN r.at : j < r.k + 1 => file'[r.at[j]] = Chunk(r.c, j)
      BY <3>3, <3>4, <1>4, <1>6 DEF s
    <3>6. StoreInv(w)'
      BY <3>2, <3>3, <3>5, <1>3, <1>5, <1>8, SMTT(60) DEF StoreInv, r
    <3>7. \A v \in Task : StoreInv(v)'
      BY <3>6, <2>2 DEF StoreInv, Locked, Worker
    <3>8. \A c \in Content : \A k \in DOMAIN contentMap[c] :
            contentMap[c][k] \in Slot /\ contentMap[c][k] # s
      <4>1. slotMap[s] = "Open"
        BY <3>3, <1>3 DEF s
      <4> QED
        BY <4>1, <2>1, <1>1, <1>3, SlotFacts, SlotsAssumption, SMTT(60) DEF UncutInv, Agree
    <3>9. work'[Collector] = work[Collector] /\ work[Collector].pc \notin Locked
      BY <3>1, <2>2, <1>8 DEF Worker
    <3>10. \A c \in Content : Holds(c, contentMap[c])'
      BY <3>8, <3>9, <2>1, <1>3, <1>5, <1>6, ZenonT(60) DEF UncutInv, Holds, Deleting, Locked
    <3> QED
      BY <2>3, <2>4, <3>7, <3>9, <3>10, <1>3, <1>5, Zenon DEF UncutInv, Locked
  <2>6. CASE w \notin Task
    <3>1. w = Collector
      BY <2>6, <1>3 DEF Worker
    <3>2. r.at = contentMap[r.c]
      BY <3>1, <2>1, <1>3 DEF UncutInv, r
    <3>3. slotMap[s] = r.c
      BY <3>2, <2>1, <1>3 DEF UncutInv, Agree, s
    <3>4. \A c \in Content : c # r.c => \A k \in DOMAIN contentMap[c] :
            contentMap[c][k] \in Slot /\ contentMap[c][k] # s
      BY <3>3, <2>1, <1>1, <1>3, SlotFacts DEF UncutInv, Agree
    <3>5. \A c \in Content : Deleting(c)' <=> c = r.c
      BY <3>1, <1>8 DEF Deleting
    <3>6. \A c \in Content : c # r.c => ~Deleting(c)
      BY <3>1 DEF Deleting, r
    <3>7. \A c \in Content : (Holds(c, contentMap[c]) \/ Deleting(c))'
      BY <3>4, <3>5, <3>6, <2>1, <1>3, <1>5, <1>6, ZenonT(60) DEF UncutInv, Holds
    <3>8. \A v \in Task : StoreInv(v)'
      BY <2>2, <2>6 DEF StoreInv, Locked, Worker
    <3>9. work'[Collector].at = contentMap'[work'[Collector].c]
      BY <3>1, <3>2, <1>5, <1>8
    <3> QED
      BY <2>3, <2>4, <3>7, <3>8, <3>9, <1>3, <1>5, Zenon DEF UncutInv
  <2> QED
    BY <2>5, <2>6
<1> QED
  BY <1>9, <1>10, <1>11, <1>12 DEF SlotsInv

(* The slots and the mapping change together. *)
LEMMA MarkInv ==
  ASSUME SlotsInv, NEW w \in Worker, Mark(w)
  PROVE  SlotsInv'
<1> USE DEF files, tally
<1> DEFINE r    == work[w]
           used == {r.at[k] : k \in DOMAIN r.at}
           mark == IF Storing(w) THEN r.c ELSE "Open"
           map  == IF Storing(w) THEN r.at ELSE << >>
<1>1. TypeOK /\ WorkInv /\ ProofInv /\ (~cut => UncutInv)
  BY DEF SlotsInv
<1>2. work \in [Worker -> WorkRecord]
  BY <1>1 DEF TypeOK, WorkRecord
<1>3. /\ mode = "up" /\ r.pc = "mark" /\ holder = w /\ w # None
      /\ w # Registrar /\ r.c \in Content /\ r.k = Len(r.at) + 1
  BY <1>1, SlotsAssumption DEF Mark, At, WorkInv, Locked
<1>4. /\ UNCHANGED <<mode, files, tree, chain, holder, prover, tally>>
      /\ slotMap' = [i \in Slot |-> IF i \notin used THEN slotMap[i] ELSE mark]
      /\ contentMap' = [contentMap EXCEPT ![r.c] = map]
      /\ work' = [work EXCEPT ![w].pc = "map"]
  BY DEF Mark, Goto
<1>5. r.at \in Seq(Slot) /\ NotProof(r.at) /\ \A k \in DOMAIN r.at : r.at[k] \in Slot
  BY <1>1, <1>2, SlotFacts DEF WorkRecord, ProofInv
<1>6. slotMap \in SlotMap /\ contentMap \in ContentMap
  BY <1>1, <1>3 DEF TypeOK
<1>7. /\ work' \in [Worker -> WorkRecord]
      /\ \A v \in Worker : v # w => work'[v] = work[v]
      /\ work'[w].pc = "map" /\ work'[w].c = r.c /\ work'[w].at = r.at
  BY <1>2, <1>4, ZenonT(60) DEF WorkRecord, PC
<1>8. /\ mark \in Content \cup {"Open"} /\ mark # "Proof"
      /\ map \in Seq(Slot) /\ NotProof(map)
  BY <1>3, <1>5, SlotsAssumption DEF NotProof
<1>9. \A i \in used : i \in Slot /\ ~HasProof(i)
  BY <1>5 DEF NotProof
<1> HIDE DEF r, used, mark, map
<1>11. slotMap' \in SlotMap /\ contentMap' \in ContentMap
  BY <1>3, <1>4, <1>6, <1>8, Zenon DEF SlotMap, ContentMap
<1>12. TypeOK'
  BY <1>1, <1>4, <1>7, <1>11 DEF TypeOK, WorkRecord
<1>13. WorkInv'
  <2>1. \A v \in Worker : v # w => work'[v] = work[v] /\ v # holder
    BY <1>3, <1>7
  <2>2. slotsFile # None
    BY <1>1, <1>3 DEF WorkInv
  <2> QED
    BY <1>1, <1>3, <1>4, <1>7, <2>1, <2>2, ZenonT(60) DEF WorkInv, Locked
<1>14. ProofInv'
  <2>1. \A i \in Slot : slotMap'[i] = "Proof" <=> HasProof(i)
    BY <1>1, <1>3, <1>4, <1>8, <1>9, Zenon DEF ProofInv
  <2>2. \A c \in Content : NotProof(contentMap'[c])
    BY <1>1, <1>3, <1>4, <1>6, <1>8, Zenon DEF ProofInv, ContentMap
  <2>3. \A v \in Worker : NotProof(work'[v].at)
    BY <1>1, <1>5, <1>7 DEF ProofInv
  <2> QED
    BY <1>1, <1>3, <1>4, <2>1, <2>2, <2>3, ZenonT(60) DEF ProofInv, HasProof, NotProof
<1>15. ~cut' => UncutInv'
  <2> SUFFICES ASSUME ~cut PROVE UncutInv'
    BY <1>4
  <2>1. UncutInv
    BY <1>1
  <2>2. \A v \in Worker : work'[v].pc \notin {"write", "mark", "slots"}
    BY <1>1, <1>3, <1>7, Zenon DEF WorkInv, Locked
  <2>3. Collector \in Worker /\ Task \subseteq Worker
    BY Zenon DEF Worker
  <2>4. \A v \in Task : StoreInv(v)'
    BY <2>2, <2>3 DEF StoreInv
  <2>5. \A c \in Content : /\ contentMap[c] \in Seq(Slot)
                           /\ \A k \in DOMAIN contentMap[c] : contentMap[c][k] \in Slot
                           /\ c # r.c => contentMap'[c] = contentMap[c]
    BY <1>1, <1>4, <1>6, SlotFacts, Zenon DEF ContentMap
  <2>6. contentMap'[r.c] = map
    BY <1>3, <1>4, <1>6 DEF ContentMap
  <2>7. \A c \in Content : c # r.c => Holds(c, contentMap[c])
    <3>1. \A c \in Content : Deleting(c) => c = r.c
      BY <1>1, <1>3, <2>3, Zenon DEF Deleting, WorkInv, Locked, r
    <3> QED
      BY <2>1, <1>3, <3>1 DEF UncutInv
  <2>8. CASE w \in Task
    <3>1. map = r.at /\ mark = r.c
      BY <2>8 DEF map, mark, Storing
    <3>2. \A j \in DOMAIN r.at : slotMap[r.at[j]] = "Open" /\ file[r.at[j]] = Chunk(r.c, j)
      <4>1. StoreInv(w)
        BY <2>1, <2>8, <1>3 DEF UncutInv
      <4>2. \A j \in DOMAIN r.at : j < r.k
        BY <1>3, <1>5
      <4> QED
        BY <4>1, <4>2, <1>3 DEF StoreInv, r
    <3>3. Holds(r.c, contentMap'[r.c])
      BY <2>6, <3>1, <3>2 DEF Holds
    <3>4. \A i \in used : slotMap[i] = "Open" /\ slotMap'[i] = r.c
      BY <3>1, <3>2, <1>4, <1>9 DEF used
    <3>5. \A c \in Content : c # r.c => \A k \in DOMAIN contentMap[c] :
            slotMap'[contentMap[c][k]] = c
      <4> SUFFICES ASSUME NEW c \in Content, c # r.c, NEW k \in DOMAIN contentMap[c]
                   PROVE  slotMap'[contentMap[c][k]] = c
        OBVIOUS
      <4>1. slotMap[contentMap[c][k]] = c /\ contentMap[c][k] \in Slot
        BY <2>1, <2>5, <1>3 DEF UncutInv, Agree
      <4>2. contentMap[c][k] \notin used
        BY <3>4, <4>1, SlotsAssumption
      <4> QED
        BY <4>1, <4>2, <1>4
    <3>6. \A k \in DOMAIN map : slotMap'[map[k]] = r.c
      BY <3>1, <3>4 DEF used
    <3>7. Agree(slotMap, contentMap)'
      BY <2>5, <2>6, <3>5, <3>6 DEF Agree
    <3>8. \A c \in Content : Holds(c, contentMap[c])'
      BY <2>5, <2>7, <3>3, <1>4 DEF Holds
    <3> QED
      BY <2>2, <2>3, <2>4, <3>7, <3>8, <1>3, <1>4, Zenon DEF UncutInv
  <2>9. CASE w \notin Task
    <3>1. w = Collector /\ map = << >> /\ mark = "Open"
      BY <2>9, <1>3 DEF Worker, map, mark, Storing
    <3>2. r.at = contentMap[r.c]
      BY <3>1, <2>1, <1>3 DEF UncutInv, r
    <3>3. \A i \in used : slotMap[i] = r.c
      BY <3>2, <2>1, <1>3 DEF UncutInv, Agree, used
    <3>4. \A c \in Content : c # r.c => \A k \in DOMAIN contentMap[c] :
            slotMap'[contentMap[c][k]] = c
      <4> SUFFICES ASSUME NEW c \in Content, c # r.c, NEW k \in DOMAIN contentMap[c]
                   PROVE  slotMap'[contentMap[c][k]] = c
        OBVIOUS
      <4>1. slotMap[contentMap[c][k]] = c /\ contentMap[c][k] \in Slot
        BY <2>1, <2>5, <1>3 DEF UncutInv, Agree
      <4>2. contentMap[c][k] \notin used
        BY <3>3, <4>1
      <4> QED
        BY <4>1, <4>2, <1>4
    <3>5. Agree(slotMap, contentMap)'
      BY <2>5, <2>6, <3>1, <3>4 DEF Agree
    <3>6. \A c \in Content : Holds(c, contentMap[c])'
      BY <2>5, <2>6, <2>7, <3>1, <1>4 DEF Holds
    <3> QED
      BY <2>2, <2>3, <2>4, <3>5, <3>6, <1>3, <1>4 DEF UncutInv
  <2> QED
    BY <2>8, <2>9
<1> QED
  BY <1>12, <1>13, <1>14, <1>15 DEF SlotsInv

(* The two files are written, then the lock is free. *)
LEMMA SaveInv ==
  ASSUME SlotsInv, NEW w \in Worker, SaveMap(w) \/ SaveSlots(w)
  PROVE  SlotsInv'
<1> USE DEF memory, tally
<1>1. TypeOK /\ WorkInv /\ ProofInv /\ (~cut => UncutInv)
  BY DEF SlotsInv
<1>2. work \in [Worker -> WorkRecord]
  BY <1>1 DEF TypeOK, WorkRecord
<1>3. /\ mode = "up" /\ work[w].pc \in {"map", "slots"} /\ holder = w /\ w # None
      /\ w # Registrar /\ work[w].c \in Content
  BY <1>1, SlotsAssumption DEF SaveMap, SaveSlots, At, WorkInv, Locked
<1>4. UNCHANGED <<mode, file, memory, chain, prover, tally>>
  BY DEF SaveMap, SaveSlots
<1>5. PICK pc \in {"slots", "tree", "previous"} :
        /\ work' = [work EXCEPT ![w].pc = pc]
        /\ pc = "slots" => SaveMap(w)
        /\ pc # "slots" => SaveSlots(w)
  BY DEF SaveMap, SaveSlots, Goto
<1>6. /\ work' \in [Worker -> WorkRecord]
      /\ \A v \in Worker : v # w => work'[v] = work[v]
      /\ work'[w].pc = pc /\ work'[w].c = work[w].c /\ work'[w].at = work[w].at
  BY <1>2, <1>5, ZenonT(60) DEF WorkRecord, PC
<1>7. \/ /\ pc = "slots" /\ mapFile' = contentMap /\ slotsFile' = slotsFile
         /\ holder' = holder
      \/ /\ pc # "slots" /\ mapFile' = mapFile /\ slotsFile' = slotMap
         /\ holder' = None /\ work[w].pc = "slots"
  BY <1>5 DEF SaveMap, SaveSlots, At
<1>8. TypeOK'
  BY <1>1, <1>3, <1>4, <1>6, <1>7, ZenonT(60) DEF TypeOK, WorkRecord
<1>9. \A v \in Worker : v # w => work'[v] = work[v] /\ work[v].pc \notin Locked
  BY <1>1, <1>3, <1>6 DEF WorkInv
<1>10. WorkInv'
  <2>1. slotsFile' # None
    BY <1>1, <1>3, <1>7, SlotsAssumption, Zenon DEF TypeOK, WorkInv
  <2>2. \A v \in Worker : work'[v].pc \in Locked <=> holder' = v
    BY <1>3, <1>5, <1>6, <1>7, <1>9, SlotsAssumption DEF Locked
  <2> QED
    BY <1>1, <1>3, <1>4, <1>5, <1>6, <1>9, <2>1, <2>2, ZenonT(60) DEF WorkInv
<1>11. ProofInv'
  <2>1. \A v \in Worker : NotProof(work'[v].at)
    BY <1>1, <1>6 DEF ProofInv
  <2>2. slotsFile' \in SlotMap =>
          \A i \in Slot : slotsFile'[i] = "Proof" <=> HasProof(i)
    BY <1>1, <1>3, <1>7, SlotsAssumption DEF ProofInv
  <2>3. mapFile' \in ContentMap => \A c \in Content : NotProof(mapFile'[c])
    BY <1>1, <1>7 DEF ProofInv
  <2> QED
    BY <1>1, <1>4, <2>1, <2>2, <2>3, ZenonT(60) DEF ProofInv, HasProof, NotProof
<1>12. ~cut' => UncutInv'
  <2> SUFFICES ASSUME ~cut PROVE UncutInv'
    BY <1>4
  <2>1. UncutInv
    BY <1>1
  <2>2. Collector \in Worker /\ Task \subseteq Worker
    BY DEF Worker
  <2>3. \A v \in Worker : /\ work'[v].pc \notin {"write", "mark"}
                          /\ work[v].pc \notin {"write", "mark"}
    BY <1>3, <1>5, <1>6, <1>9 DEF Locked
  <2>4. \A v \in Task : StoreInv(v)'
    BY <2>2, <2>3 DEF StoreInv
  <2>5. \A c \in Content : Holds(c, contentMap[c])'
    BY <2>1, <2>2, <2>3, <1>3, <1>4, Zenon DEF UncutInv, Deleting, Holds
  <2>6. Agree(slotMap, contentMap)'
    BY <2>1, <1>3, <1>4, Zenon DEF UncutInv, Agree
  <2>7. \A v \in Worker : work'[v].pc = "slots" => mapFile' = contentMap'
    BY <1>4, <1>6, <1>7, <1>9 DEF Locked
  <2>8. holder' = None => slotsFile' = slotMap' /\ mapFile' = contentMap'
    BY <2>1, <1>3, <1>4, <1>7, Zenon DEF UncutInv
  <2> QED
    BY <2>2, <2>3, <2>4, <2>5, <2>6, <2>7, <2>8, <1>3, <1>4, Zenon DEF UncutInv
<1> QED
  BY <1>8, <1>10, <1>11, <1>12 DEF SlotsInv

(* A cut-off write leaves no proof data and takes none away. *)
LEMMA CutOffFacts ==
  ASSUME SlotsInv, NEW w \in Worker, work[w].pc \in Locked, mode = "up",
         UNCHANGED files \/ CutOff(w)
  PROVE  /\ file' \in Tree
         /\ slotsFile' \in {slotsFile, Torn} /\ mapFile' \in {mapFile, Torn}
         /\ \A i \in Slot : HasProof(i)' <=> HasProof(i)
         /\ \A i \in Slot : HasProof(i) => file'[i] = file[i]
<1> USE DEF files
<1>1. TypeOK /\ WorkInv /\ ProofInv
  BY DEF SlotsInv
<1>2. file \in Tree
  BY <1>1 DEF TypeOK
<1>3. CASE file' = file
  BY <1>2, <1>3 DEF CutOff, HasProof
<1>4. CASE file' # file
  <2> DEFINE s == work[w].at[work[w].k]
             d == Chunk(work[w].c, 0)
  <2>1. /\ work[w].pc = "write" /\ UNCHANGED <<slotsFile, mapFile>>
        /\ file' = [file EXCEPT ![s] = d]
    BY <1>4 DEF CutOff
  <2>2. work[w].c \in Content /\ work[w].k \in DOMAIN work[w].at
    BY <1>1, <2>1 DEF WorkInv
  <2>3. s \in Slot /\ ~HasProof(s)
    BY <1>1, <2>2, SlotFacts DEF ProofInv, NotProof
  <2>4. d \in Data /\ d.of # "proof"
    BY <2>2, DataFacts
  <2> HIDE DEF s, d
  <2> QED
    BY <1>2, <2>1, <2>3, <2>4, Zenon DEF Tree, HasProof
<1> QED
  BY <1>3, <1>4

(* A failed write leaves all or a part of what was there, and is a cut. *)
LEMMA WriteFailsInv ==
  ASSUME SlotsInv, NEW w \in Worker, WriteFails(w)
  PROVE  SlotsInv'
<1> USE DEF files, memory
<1>1. TypeOK /\ WorkInv /\ ProofInv
  BY DEF SlotsInv
<1>2. work \in [Worker -> WorkRecord] /\ Idle \in WorkRecord
  BY <1>1, IdleFacts DEF TypeOK, WorkRecord
<1>3. /\ mode = "up" /\ holder = w /\ holder' = None /\ cut' = TRUE /\ faults' \in Nat
      /\ UNCHANGED <<mode, memory, chain, prover, stops>>
      /\ work[w].pc \in Locked
  BY <1>1 DEF WriteFails, WorkInv, TypeOK, Fault, Locked
<1>4. /\ work' \in [Worker -> WorkRecord]
      /\ \A v \in Worker : v # w => work'[v] = work[v]
      /\ work'[w] = Idle
  BY <1>2 DEF WriteFails, End
<1>5. /\ file' \in Tree
      /\ slotsFile' \in {slotsFile, Torn} /\ mapFile' \in {mapFile, Torn}
      /\ \A i \in Slot : HasProof(i)' <=> HasProof(i)
      /\ \A i \in Slot : HasProof(i) => file'[i] = file[i]
  BY <1>3, CutOffFacts DEF WriteFails
<1>6. TypeOK'
  BY <1>1, <1>3, <1>4, <1>5 DEF TypeOK, WorkRecord
<1>7. WorkInv'
  <2>1. \A v \in Worker : work'[v].pc \notin Locked /\ holder' # v
    BY <1>1, <1>3, <1>4, IdleFacts, SlotsAssumption DEF WorkInv, Locked
  <2>2. slotsFile' # None
    BY <1>1, <1>3, <1>5, SlotsAssumption DEF WorkInv
  <2> QED
    BY <1>1, <1>3, <1>4, <2>1, <2>2, IdleFacts DEF WorkInv, Locked
<1>8. ProofInv'
  <2>1. \A v \in Worker : NotProof(work[v].at)'
    BY <1>1, <1>4, <1>5, IdleFacts, SlotFacts, Zenon DEF ProofInv, NotProof
  <2>2. \A c \in Content : NotProof(contentMap[c])'
    BY <1>1, <1>3, <1>5, SlotFacts, Zenon DEF ProofInv, NotProof
  <2>3. (mapFile \in ContentMap => \A c \in Content : NotProof(mapFile[c]))'
    <3>1. mapFile' \in ContentMap => mapFile' = mapFile
      BY <1>5, SlotsAssumption
    <3>2. mapFile \in ContentMap =>
            \A c \in Content : \A k \in DOMAIN mapFile[c] :
              mapFile[c][k] \in Slot /\ ~HasProof(mapFile[c][k])
      BY <1>1, SlotFacts, Zenon DEF ProofInv, NotProof
    <3> SUFFICES ASSUME mapFile' \in ContentMap, NEW c \in Content,
                        NEW k \in DOMAIN mapFile'[c]
                 PROVE  ~HasProof(mapFile[c][k])'
      BY DEF NotProof
    <3>3. mapFile[c][k] \in Slot /\ ~HasProof(mapFile[c][k]) /\ mapFile' = mapFile
      BY <3>1, <3>2
    <3>4. ~HasProof(mapFile[c][k])' <=> ~HasProof(mapFile[c][k])
      BY <1>5, <3>3 DEF HasProof
    <3> QED
      BY <3>3, <3>4
  <2>4. (slotsFile \in SlotMap =>
           \A i \in Slot : slotsFile[i] = "Proof" <=> HasProof(i))'
    BY <1>1, <1>5, SlotsAssumption, Zenon DEF ProofInv
  <2>5. (prover.pc = "done" /\ HasProof(prover.i) => prover.ok)'
    BY <1>1, <1>3, <1>5, Zenon DEF ProofInv, WorkInv
  <2>6. \A i \in Slot : HasProof(i)' => file'[i] = ProofData(i)
    BY <1>1, <1>5, Zenon DEF ProofInv
  <2> QED
    BY <1>1, <1>3, <1>5, <2>1, <2>2, <2>3, <2>4, <2>5, <2>6, Zenon DEF ProofInv
<1> QED
  BY <1>3, <1>6, <1>7, <1>8 DEF SlotsInv

-----------------------------------------------------------------------------
(* The file and the slot map of an allocation agree. *)
LEMMA AllocateInv ==
  ASSUME SlotsInv, Allocate
  PROVE  SlotsInv'
<1>1. TypeOK /\ WorkInv
  BY DEF SlotsInv
<1>2. /\ mode = "down" /\ mode' = "allocating" /\ slotsFile = None /\ slotsFile' = None
      /\ slotMap' \in [Slot -> {"Proof", "Open"}]
      /\ file' = BuildTree(slotMap', file)
      /\ UNCHANGED <<mapFile, contentMap, tree, chain, holder, work, prover, tally>>
  BY DEF Allocate
<1>3. /\ mapFile' = None /\ contentMap' = NoContent /\ holder' = None
      /\ work' = [w \in Worker |-> Idle] /\ prover'.pc = "idle"
  BY <1>1, <1>2 DEF WorkInv
<1>4. slotMap' \in SlotMap /\ file \in Tree
  BY <1>1, <1>2 DEF SlotMap, TypeOK
<1>5. /\ file' \in Tree
      /\ \A i \in Slot :
           /\ i \in Nat
           /\ \/ slotMap'[i] = "Proof" /\ file'[i] = ProofData(i)
              \/ slotMap'[i] = "Open" /\ file'[i] = Zero
  BY <1>2, <1>4, BuildTreeFacts, SlotsAssumption
<1>6. \A i \in Slot : slotMap'[i] = "Proof" <=> HasProof(i)'
  BY <1>5, DataFacts DEF HasProof
<1>7. TypeOK'
  BY <1>1, <1>2, <1>4, <1>5 DEF TypeOK, tally
<1>8. WorkInv'
  BY <1>1, <1>2, <1>3, SlotsAssumption DEF WorkInv
<1>9. \A c \in Content : DOMAIN contentMap'[c] = {}
  BY <1>3 DEF NoContent
<1>10. \A w \in Worker : DOMAIN work'[w].at = {}
  BY <1>3, IdleFacts
<1>11. slotsFile' \notin SlotMap /\ mapFile' \notin ContentMap
  BY <1>2, <1>3, SlotsAssumption
<1>12. ProofInv'
  BY <1>2, <1>3, <1>5, <1>6, <1>9, <1>10, <1>11 DEF ProofInv, NotProof
<1>13. UncutInv'
  BY <1>2 DEF UncutInv
<1> QED
  BY <1>7, <1>8, <1>12, <1>13 DEF SlotsInv

(* What the tasks of a started process know. *)
LEMMA StartedFacts ==
  /\ Started \in [Worker -> WorkRecord]
  /\ \A w \in Worker : /\ Started[w].pc \in {"idle", "info"}
                        /\ Started[w].at = << >>
<1>1. [Idle EXCEPT !.pc = "info"] \in WorkRecord
      /\ [Idle EXCEPT !.pc = "info"].pc = "info"
      /\ [Idle EXCEPT !.pc = "info"].at = << >>
  <2>1. Idle \in WorkRecord /\ "info" \in PC
    BY IdleFacts DEF WorkRecord, PC
  <2> QED
    BY <2>1, IdleFacts DEF WorkRecord
<1> QED
  BY <1>1, IdleFacts DEF Started, WorkRecord

(***************************************************************************)
(* The process is up with the slot map of the file, no content or those of *)
(* the content-slot map's file, and a tree built from the slot map.        *)
(***************************************************************************)
LEMMA StartInv ==
  ASSUME SlotsInv, Allocated \/ Load
  PROVE  SlotsInv'
<1> USE DEF tally
<1>1. TypeOK /\ WorkInv /\ ProofInv /\ (~cut => UncutInv)
  BY DEF SlotsInv
<1>2. /\ mode' = "up" /\ slotsFile' = slotMap' /\ slotMap' \in SlotMap
      /\ tree' = BuildTree(slotMap', file) /\ work' = Started
      /\ UNCHANGED <<file, mapFile, chain, holder, prover, tally>>
      /\ holder = None /\ prover.pc = "idle" /\ mode # "up"
  <2>1. CASE Allocated
    BY <1>1, <2>1 DEF Allocated, TypeOK, WorkInv
  <2>2. CASE Load
    BY <1>1, <2>2 DEF Load, TypeOK, WorkInv, files
  <2> QED
    BY <2>1, <2>2
<1>3. /\ contentMap' \in ContentMap
      /\ contentMap' = NoContent \/ (mapFile \in ContentMap /\ contentMap' = mapFile)
      /\ (contentMap' = NoContent /\ mapFile \in {None, Torn}) \/ contentMap' = mapFile
  <2>1. NoContent \in ContentMap
    BY DEF NoContent, ContentMap
  <2>2. CASE Allocated
    BY <1>1, <2>1, <2>2 DEF Allocated, WorkInv
  <2>3. CASE Load
    BY <1>1, <2>1, <2>3 DEF Load, TypeOK
  <2> QED
    BY <2>2, <2>3
<1>4. \A i \in Slot : slotMap'[i] = "Proof" <=> HasProof(i)
  <2>1. CASE Allocated
    BY <1>1, <2>1 DEF Allocated, ProofInv
  <2>2. CASE Load
    BY <1>1, <1>2, <2>2, Zenon DEF Load, ProofInv
  <2> QED
    BY <2>1, <2>2
<1>5. /\ tree' \in Tree
      /\ \A i \in Slot : HasProof(i) => tree'[i] = ProofData(i)
  <2>1. file \in Tree
    BY <1>1 DEF TypeOK
  <2> QED
    BY <1>2, <1>4, <2>1, BuildTreeFacts, Zenon
<1>6. \A c \in Content : DOMAIN NoContent[c] = {}
  BY DEF NoContent
<1>7. TypeOK'
  BY <1>1, <1>2, <1>3, <1>5, StartedFacts, Zenon DEF TypeOK, WorkRecord
<1>8. WorkInv'
  <2>1. slotsFile' # None
    BY <1>2, SlotsAssumption
  <2>2. \A w \in Worker : w # holder'
    BY <1>2, SlotsAssumption
  <2> QED
    BY <1>2, <2>1, <2>2, StartedFacts, Zenon DEF WorkInv, Locked
<1>9. ProofInv'
  <2>1. \A w \in Worker : NotProof(work'[w].at)
    BY <1>2, StartedFacts DEF NotProof
  <2>2. \A c \in Content : NotProof(contentMap'[c])
    BY <1>1, <1>3, <1>6 DEF ProofInv, NotProof
  <2> QED
    BY <1>1, <1>2, <1>4, <1>5, <2>1, <2>2, ZenonT(60) DEF ProofInv, HasProof, NotProof
<1>10. ~cut' => UncutInv'
  <2> SUFFICES ASSUME ~cut PROVE UncutInv'
    BY <1>2
  <2>1. Collector \in Worker /\ Task \subseteq Worker
    BY DEF Worker
  <2>2. \A w \in Worker : work'[w].pc \notin {"write", "mark", "slots"}
    BY <1>2, StartedFacts
  <2>3. \A w \in Task : StoreInv(w)'
    BY <2>1, <2>2 DEF StoreInv
  <2>4. Agree(slotMap', contentMap') /\ \A c \in Content : Holds(c, contentMap'[c])
    <3>1. CASE contentMap' = NoContent
      BY <3>1, <1>6 DEF Agree, Holds
    <3>2. CASE mapFile \in ContentMap /\ contentMap' = mapFile
      <4>1. CASE Allocated
        <5>1. mapFile = None
          BY <1>1, <4>1 DEF WorkInv, Allocated
        <5> QED
          BY <3>2, <5>1, SlotsAssumption
      <4>2. CASE Load
        <5>1. slotsFile \in SlotMap /\ mode = "down" /\ slotMap' = slotsFile
          BY <1>1, <4>2 DEF Load, TypeOK
        <5> QED
          BY <1>1, <3>2, <5>1 DEF UncutInv
      <4> QED
        BY <4>1, <4>2
    <3> QED
      BY <1>3, <3>1, <3>2
  <2>5. (\A c \in Content : Holds(c, contentMap[c]))' /\ Agree(slotMap, contentMap)'
    BY <2>4, <1>2 DEF Holds, Agree
  <2> QED
    BY <2>1, <2>2, <2>3, <2>5, <1>2, <1>3 DEF UncutInv
<1> QED
  BY <1>7, <1>8, <1>9, <1>10 DEF SlotsInv

(* What is on disk is what the process had, unless the lock was taken. *)
LEMMA StopInv ==
  ASSUME SlotsInv, Stop
  PROVE  SlotsInv'
<1> USE DEF files
<1>1. TypeOK /\ WorkInv /\ ProofInv /\ (~cut => UncutInv)
  BY DEF SlotsInv
<1>2. /\ mode # "down" /\ mode' = "down" /\ stops' \in Nat
      /\ cut' = (cut \/ holder # None)
      /\ slotMap' = None /\ contentMap' = NoContent /\ tree' = None
      /\ holder' = None /\ work' = [w \in Worker |-> Idle] /\ prover' = Rest
      /\ UNCHANGED <<chain, faults>>
  BY <1>1 DEF Stop, TypeOK
<1>3. NoContent \in ContentMap /\ \A c \in Content : DOMAIN NoContent[c] = {}
  BY DEF NoContent, ContentMap
<1>4. /\ file' \in Tree
      /\ slotsFile' \in {slotsFile, Torn} /\ mapFile' \in {mapFile, Torn}
      /\ \A i \in Slot : HasProof(i)' <=> HasProof(i)
      /\ \A i \in Slot : HasProof(i) => file'[i] = file[i]
      /\ slotsFile' = None => mapFile' = None
      /\ holder = None /\ mode = "up" => UNCHANGED files
      /\ mode = "allocating" => mapFile' = None
  <2>1. CASE UNCHANGED files
    BY <1>1, <2>1 DEF TypeOK, HasProof, WorkInv
  <2>2. CASE mode = "allocating" /\ slotsFile' = Torn /\ UNCHANGED <<file, mapFile>>
    BY <1>1, <2>2, SlotsAssumption DEF TypeOK, HasProof, WorkInv
  <2>3. CASE \E w \in Worker : holder = w /\ CutOff(w)
    <3>1. PICK w \in Worker : holder = w /\ CutOff(w)
      BY <2>3
    <3>2. holder # None /\ mode = "up" /\ work[w].pc \in Locked
      BY <1>1, <1>2, <3>1, SlotsAssumption DEF WorkInv, TypeOK
    <3>3. slotsFile # None
      BY <1>1, <3>2 DEF WorkInv
    <3> QED
      BY <3>1, <3>2, <3>3, CutOffFacts, SlotsAssumption
  <2> QED
    BY <2>1, <2>2, <2>3 DEF Stop
<1>5. TypeOK'
  <2>1. cut' \in BOOLEAN
    BY <1>2
  <2> QED
    BY <1>1, <1>2, <1>3, <1>4, <2>1, IdleFacts DEF TypeOK, Rest
<1>6. WorkInv'
  BY <1>1, <1>2, <1>4, IdleFacts, SlotsAssumption DEF WorkInv, Locked, Rest
<1>7. ProofInv'
  <2>1. \A w \in Worker : NotProof(work[w].at)'
    BY <1>2, IdleFacts DEF NotProof
  <2>2. \A c \in Content : NotProof(contentMap[c])'
    BY <1>2, <1>3 DEF NotProof
  <2>3. prover'.pc = "idle"
    BY <1>2 DEF Rest
  <2>4. (mapFile \in ContentMap => \A c \in Content : NotProof(mapFile[c]))'
    <3>1. mapFile' \in ContentMap => mapFile' = mapFile
      BY <1>4, SlotsAssumption
    <3>2. mapFile \in ContentMap =>
            \A c \in Content : \A k \in DOMAIN mapFile[c] :
              mapFile[c][k] \in Slot /\ ~HasProof(mapFile[c][k])
      BY <1>1, SlotFacts, Zenon DEF ProofInv, NotProof
    <3> SUFFICES ASSUME mapFile' \in ContentMap, NEW c \in Content,
                        NEW k \in DOMAIN mapFile'[c]
                 PROVE  ~HasProof(mapFile[c][k])'
      BY DEF NotProof
    <3>3. mapFile[c][k] \in Slot /\ ~HasProof(mapFile[c][k]) /\ mapFile' = mapFile
      BY <3>1, <3>2
    <3>4. ~HasProof(mapFile[c][k])' <=> ~HasProof(mapFile[c][k])
      BY <1>4, <3>3 DEF HasProof
    <3> QED
      BY <3>3, <3>4
  <2>5. (slotsFile \in SlotMap =>
           \A i \in Slot : slotsFile[i] = "Proof" <=> HasProof(i))'
    BY <1>1, <1>4, SlotsAssumption, Zenon DEF ProofInv
  <2>6. \A i \in Slot : HasProof(i)' => file'[i] = ProofData(i)
    BY <1>1, <1>4, Zenon DEF ProofInv
  <2> QED
    BY <1>2, <2>1, <2>2, <2>3, <2>4, <2>5, <2>6, Zenon DEF ProofInv
<1>8. ~cut' => UncutInv'
  <2> SUFFICES ASSUME ~cut, holder = None PROVE UncutInv'
    BY <1>2, Zenon
  <2>1. CASE mode = "allocating"
    <3>1. mapFile' \notin ContentMap
      BY <1>4, <2>1, SlotsAssumption
    <3> QED
      BY <1>2, <3>1 DEF UncutInv
  <2>2. CASE mode = "up"
    <3>1. UNCHANGED <<file, slotsFile, mapFile>>
      BY <1>4, <2>2
    <3> SUFFICES ASSUME mapFile \in ContentMap
                 PROVE  Agree(slotsFile, mapFile) /\ \A c \in Content : Holds(c, mapFile[c])
      BY <1>2, <3>1, Zenon DEF UncutInv, Agree, Holds
    <3>2. slotsFile = slotMap /\ mapFile = contentMap
      BY <1>1, <2>2, SlotsAssumption DEF UncutInv
    <3>3. \A c \in Content : ~Deleting(c)
      BY <1>1, SlotsAssumption, Zenon DEF Deleting, WorkInv, Locked, Worker
    <3> QED
      BY <1>1, <2>2, <3>2, <3>3, Zenon DEF UncutInv
  <2> QED
    BY <1>1, <1>2, <2>1, <2>2 DEF TypeOK
<1> QED
  BY <1>5, <1>6, <1>7, <1>8, Zenon DEF SlotsInv

(* No step at all. *)
LEMMA StutterInv ==
  ASSUME SlotsInv, UNCHANGED vars
  PROVE  SlotsInv'
<1> USE DEF vars, files, memory, tally
<1>1. TypeOK'
  BY DEF SlotsInv, TypeOK
<1>2. WorkInv'
  BY Zenon DEF SlotsInv, WorkInv
<1>3. ProofInv'
  BY Zenon DEF SlotsInv, ProofInv, HasProof, NotProof
<1>4. \A c, m : Holds(c, m)' <=> Holds(c, m)
  BY DEF Holds
<1>5. \A w \in Task : StoreInv(w)' <=> StoreInv(w)
  BY DEF StoreInv
<1>6. \A c \in Content : Deleting(c)' <=> Deleting(c)
  BY DEF Deleting
<1>7. ~cut' => UncutInv'
  BY <1>4, <1>5, <1>6 DEF SlotsInv, UncutInv, Agree, Holds
<1> QED
  BY <1>1, <1>2, <1>3, <1>7 DEF SlotsInv

-----------------------------------------------------------------------------
(***************************************************************************)
(* The inductive invariant: however stores, deletes, challenges, failed    *)
(* writes and stops interleave, the two slot maps and the file agree on    *)
(* the proof slots, no content is mapped to one, and before anything was   *)
(* cut off the contents are where the maps say.                            *)
(***************************************************************************)
THEOREM SlotsConsistent == Spec => []SlotsInv
<1>1. ASSUME SlotsInv, [Next]_vars PROVE SlotsInv'
  <2>1. CASE Next
    <3>1. CASE Allocate
      BY <1>1, <3>1, AllocateInv
    <3>2. CASE Allocated \/ Load
      BY <1>1, <3>2, StartInv
    <3>3. CASE Stop
      BY <1>1, <3>3, StopInv
    <3>4. CASE StartDelete
      BY <1>1, <3>4, StartDeleteInv
    <3>5. CASE Register
      BY <1>1, <3>5, TaskInv DEF Worker
    <3>6. CASE Challenge \/ TakeTree \/ CopySlots \/ ReadChunk
      BY <1>1, <3>6, ChallengeInv
    <3>7. ASSUME NEW w \in Worker, Step(w) PROVE SlotsInv'
      BY <1>1, <3>7, TaskInv, FindInv, WriteChunkInv, MarkInv, SaveInv,
         WriteFailsInv, UpdateTreeInv DEF Step
    <3> QED
      BY <2>1, <3>1, <3>2, <3>3, <3>4, <3>5, <3>6, <3>7 DEF Next
  <2>2. CASE UNCHANGED vars
    BY <1>1, <2>2, StutterInv
  <2> QED
    BY <1>1, <2>1, <2>2
<1> QED
  BY <1>1, InitInv, PTL DEF Spec

(***************************************************************************)
(* No store or delete, failed or cut off anywhere, touches the data or the *)
(* leaf of a proof slot.                                                   *)
(***************************************************************************)
THEOREM ProofSlotsAreKept == Spec => []ProofSlotsKept
<1>1. SlotsInv => ProofSlotsKept
  BY DEF SlotsInv, ProofInv, ProofSlotsKept
<1> QED
  BY <1>1, SlotsConsistent, PTL

(* The answer to a challenge for a proof slot's chunk verifies. *)
THEOREM ProofSlotsDoVerify == Spec => []ProofSlotsVerify
<1>1. SlotsInv => ProofSlotsVerify
  BY DEF SlotsInv, WorkInv, ProofInv, ProofSlotsVerify
<1> QED
  BY <1>1, SlotsConsistent, PTL

(***************************************************************************)
(* As long as no operation was cut off, get_content_from_slots returns     *)
(* what was stored, restarts included.                                     *)
(***************************************************************************)
THEOREM ContentReadsBack == Spec => []ReadsBackUncut
<1>1. SlotsInv => ReadsBackUncut
  <2> SUFFICES ASSUME SlotsInv, ~cut, mode = "up", holder = None, NEW c \in Content
               PROVE  Holds(c, contentMap[c])
    BY DEF ReadsBackUncut, ReadsBack, Holds
  <2>1. ~Deleting(c)
    BY SlotsAssumption DEF SlotsInv, WorkInv, Deleting, Locked, Worker
  <2> QED
    BY <2>1 DEF SlotsInv, UncutInv
<1> QED
  BY <1>1, SlotsConsistent, PTL
=============================================================================

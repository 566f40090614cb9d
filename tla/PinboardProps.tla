--------------------------- MODULE PinboardProps ---------------------------
(***************************************************************************)
(* What the pinboard promises, with a history variable for the contents    *)
(* whose bytes this node may lose by a known cause.                        *)
(***************************************************************************)
EXTENDS Pinboard

VARIABLE harm

(* Bytes are lost when a mirror task gives up or dies with the process, and *)
(* may be when a commit comes while a tick of the collector is under way.   *)
Harm ==
  harm' = harm \cup ({t[2] : t \in mirror \ mirror'} \ slots')
               \cup (IF height' # height /\ gc.phase # "idle" THEN StagedContents ELSE {})

hvars == << vars, harm >>

HInit == Init /\ harm = {}
HNext == Next /\ Harm
HSpec == HInit /\ [][HNext]_hvars

(* Tokio runs every task that can go on, a supervisor starts the process    *)
(* again, Tendermint goes on with the block it decided.                     *)
Fairness ==
  /\ WF_vars(DeliverPost \/ Commit \/ CommitFatal)
  /\ WF_vars(Start)
  /\ WF_vars(\E t \in mirror : Mirror(t))
  /\ WF_vars(GcStart \/ GcPage \/ GcDelete \/ GcEnd)

FairSpec == HSpec /\ Fairness

-----------------------------------------------------------------------------
(* The count of a content covers its entries, and is zero without one.     *)
RefsCoverIndex ==
  \A c \in Content :
    LET es == {e \in index.commit : ContentOf[e[2]] = c}
    IN  refs[c] >= Cardinality(es) /\ (refs[c] > 0 => es # {})


Flatten(pages) == FoldLeft(LAMBDA a, b : a \o b, << >>, pages)


Live(m) == m \in DOMAIN meta /\ height < meta[m].expires

(* A row of the log of deletions names a message that had expired at the    *)
(* height it tells, unless its commit overlapped the tick.                  *)
DeletedHadExpired ==
  \A r \in log :
    \/ \E e \in index.expiry : e[2] = r[1] /\ e[1] <= r[2]
    \/ ContentOf[r[1]] \in harm

(* As long as a message has not expired its bytes are in the slots or on    *)
(* the way there, unless the task that carries them failed or died, a       *)
(* commit overlapped a tick, or the feed outgrew what a tick scans; and the *)
(* collector reports no other deletions.                                    *)
LiveBlobsKept ==
  Cardinality(index.commit) <= ScanLimit =>
    /\ \A m \in DOMAIN meta :
         Live(m) => \/ ContentOf[m] \in slots \cup harm
                    \/ \E t \in mirror : t[2] = ContentOf[m]
    /\ DeletedHadExpired

BlobsHere ==
  block # None => {ContentOf[block[1][i]] : i \in DOMAIN block[1]} \subseteq temp

(* A block that is decided when the node has all its blobs is committed. *)
BlocksCommit ==
  (block # None /\ BlobsHere) ~> block = None

Expired(c) ==
  /\ \E m \in DOMAIN meta : meta[m].content = c
  /\ \A m \in DOMAIN meta : meta[m].content = c => height >= meta[m].expires

(* The bytes of a content all of whose messages have expired leave the      *)
(* slots, or a new message takes it up, or the node lacks a blob of the     *)
(* block and never gets past its commit.                                    *)
ExpiredBlobsGo ==
  \A c \in Content :
    (c \in slots /\ Expired(c)) ~> (c \notin slots \/ ~Expired(c) \/ ~BlobsHere)
=============================================================================

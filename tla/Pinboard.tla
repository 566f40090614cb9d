------------------------------ MODULE Pinboard ------------------------------
(***************************************************************************)
(* The pinboard of one node: a message is uploaded to its HTTP interface,  *)
(* its bytes wait as a temporary blob, the transaction goes through a      *)
(* block, Commit writes metadata and indexes and hands the bytes to a task *)
(* that mirrors them into the capacity slots, and a collector deletes the  *)
(* bytes of expired messages from the slots.                               *)
(*                                                                         *)
(* A content stands for its bytes and for their hash, the content_key; a   *)
(* message for its message_id.  Both are numbers, ordered as their keys    *)
(* are.  The capacity slots are CapacitySlots seen from outside: a content *)
(* is stored or not.                                                       *)
(***************************************************************************)
EXTENDS Integers, Sequences, FiniteSets, PrefixQuery

CONSTANTS
  Message,       \* message ids
  Content,       \* content keys
  ContentOf,     \* the content of a message
  SignerOf,      \* its original signer
  TagsOf,        \* its tags
  Ttl,           \* its lifetime in blocks, 0 for the default
  DefaultTtl,    \* default_pinboard_post_ttl_blocks
  TypeOf,        \* its content type
  NamespaceOf,   \* the namespace it names, or NoNamespace
  NoNamespace,
  OwnerOf,       \* the owners of the registered namespaces
  AllowedTypes,  \* POST_MESSAGE_ALLOWED_CONTENT_TYPES
  MaxTags,       \* POST_MESSAGE_MAX_TAGS
  ScanLimit,     \* PINBOARD_GC_MAX_SCAN_PER_TICK
  DeleteLimit,   \* PINBOARD_GC_MAX_DELETES_PER_TICK
  PageSize,      \* PINBOARD_GC_PAGE_SIZE
  MaxResults,    \* max_results of a prefix query
  BlockSize,     \* bound: messages of a block
  MaxHeight,     \* bound: blocks
  MaxPosts,      \* bound: posts that reach the mempool
  MaxMishaps     \* bound: stops, and calls of the capacity manager or limiter that fail

ASSUME PinboardAssumption ==
  /\ Message \subseteq Nat /\ Content \subseteq Nat
  /\ ContentOf \in [Message -> Content]
  /\ Ttl \in [Message -> Nat] /\ DefaultTtl \in Nat
  /\ NoNamespace \notin DOMAIN OwnerOf
  /\ MaxHeight \in Nat

VARIABLES
  running,   \* the process is up
  temp,      \* contents with a temporary blob
  slots,     \* contents in the capacity slots
  mempool,   \* messages in Tendermint's mempool, a bag
  block,     \* the messages of the block being decided, or None
  next,      \* the position of the next one to deliver
  staged,    \* the pinboard caches of the envelope
  height,    \* the committed height, also the chain tip's
  meta,      \* pinboard_meta by message id
  index,     \* the four indexes, and the path keys of pinboard_meta
  refs,      \* pinboard_refcounts
  mirror,    \* blobs of commits that still have to reach the slots
  announced, \* messages whose content was announced to the peers
  asked,     \* contents the peers were asked for
  gc,        \* the collector's tick
  log,       \* the collector's log of deletions
  posts,     \* posts so far
  mishaps    \* stops and failed calls so far

chainVars == << mempool, block, next, staged, height, meta, index, refs, announced, asked >>
gcVars    == << gc, log >>
bounds    == << posts, mishaps >>
vars      == << running, temp, slots, chainVars, mirror, gcVars, bounds >>

None == << >>

(* No entries: what the caches of the envelope hold at the start of a block. *)
NothingStaged ==
  [meta |-> << >>, commit |-> {}, wallet |-> {}, tag |-> {}, expiry |-> {},
   path |-> {}, refs |-> [c \in Content |-> 0]]

Idle == [phase |-> "idle", height |-> 0, page |-> 0, scanned |-> 0,
         expires |-> << >>, todo |-> << >>]

Init ==
  /\ running = TRUE
  /\ temp = {} /\ slots = {} /\ mirror = {} /\ announced = {} /\ asked = {}
  /\ mempool = [m \in Message |-> 0] /\ block = None /\ next = 1
  /\ staged = NothingStaged
  /\ height = 0
  /\ meta = << >>
  /\ index = [commit |-> {}, wallet |-> {}, tag |-> {}, expiry |-> {},
              path |-> {}]
  /\ refs = [c \in Content |-> 0]
  /\ gc = Idle
  /\ log = {}
  /\ posts = 0 /\ mishaps = 0

-----------------------------------------------------------------------------
(* Uploads *)

(* What PostMessageTx::new checks, for an upload and for a transaction that *)
(* is read; the keys and the signature are those of the message.            *)
WellFormed(m) ==
  /\ TypeOf[m] \in AllowedTypes
  /\ Cardinality(TagsOf[m]) <= MaxTags

(* validate_namespace_upload_authorization. *)
Authorized(m) ==
  \/ NamespaceOf[m] = NoNamespace
  \/ NamespaceOf[m] \in DOMAIN OwnerOf /\ OwnerOf[NamespaceOf[m]] = SignerOf[m]

(* The checks of handle_pinboard_submit that come before anything is kept.  *)
ValidUpload(m) == WellFormed(m) /\ Authorized(m)

(* extend_pinboard_temp_blob_ttl, else put_pinboard_temp_blob.  The expiry  *)
(* of a temporary blob is written and never read.                           *)
KeepTempBlob(c) == temp' = temp \cup {c}

(* The bytes are kept unless the slots have them already. *)
KeepBytes(m) ==
  IF ContentOf[m] \in slots THEN UNCHANGED temp ELSE KeepTempBlob(ContentOf[m])

(* submit_transaction_to_tendermint: the call, or check_tx, may refuse. *)
SendPost(m, sent) == mempool' = IF sent THEN [mempool EXCEPT ![m] = @ + 1] ELSE mempool

(* handle_pinboard_submit: whatever refuses the transaction once the bytes  *)
(* are kept (the account, its balance, the call, check_tx) leaves them.     *)
Submit(m, sent) ==
  /\ running
  /\ posts < MaxPosts /\ posts' = posts + 1
  /\ ValidUpload(m)
  /\ KeepBytes(m)
  /\ SendPost(m, sent)
  /\ UNCHANGED << running, slots, block, next, staged, height, meta, index, refs,
                  announced, asked, mirror, gcVars, mishaps >>

(* The same message is uploaded to another validator: it reaches the        *)
(* mempool, and its bytes do not reach this node.                           *)
SubmitElsewhere(m) ==
  /\ WellFormed(m)
  /\ posts < MaxPosts /\ posts' = posts + 1
  /\ mempool' = [mempool EXCEPT ![m] = @ + 1]
  /\ UNCHANGED << running, temp, slots, block, next, staged, height, meta, index, refs,
                  announced, asked, mirror, gcVars, mishaps >>

-----------------------------------------------------------------------------
(* Blocks *)

(* Tendermint decides on a block: messages of the mempool in some order. *)
Propose ==
  /\ block = None /\ height < MaxHeight
  /\ \E s \in UNION {[1 .. k -> Message] : k \in 0 .. BlockSize} :
       /\ \A m \in Message : Cardinality({i \in DOMAIN s : s[i] = m}) <= mempool[m]
       /\ block' = << s >>
       /\ mempool' = [m \in Message |->
                        mempool[m] - Cardinality({i \in DOMAIN s : s[i] = m})]
  /\ next' = 1
  /\ UNCHANGED << running, temp, slots, staged, height, meta, index, refs, announced,
                  asked, mirror, gcVars, bounds >>

TtlBlocks(m) == IF Ttl[m] = 0 THEN DefaultTtl ELSE Ttl[m]

(* The entries process_post_message_tx stages. *)
StagePost(m) ==
  LET h   == height + 1
      exp == h + TtlBlocks(m)
  IN  [meta   |-> [x \in DOMAIN staged.meta \cup {m} |->
                     IF x = m THEN [content |-> ContentOf[m], committed |-> h, expires |-> exp]
                     ELSE staged.meta[x]],
       commit |-> staged.commit \cup {<< h, m >>},
       wallet |-> staged.wallet \cup {<< SignerOf[m], h, m >>},
       tag    |-> staged.tag \cup {<< t, h, m >> : t \in TagsOf[m]},
       expiry |-> staged.expiry \cup {<< exp, m >>},
       path   |-> staged.path \cup
                    (IF NamespaceOf[m] = NoNamespace THEN {} ELSE {<< NamespaceOf[m], m >>}),
       refs   |-> [staged.refs EXCEPT ![ContentOf[m]] = @ + 1]]

(* Mutant: a message whose signer does not own the namespace is waited for. *)
DeliverAuthorizedOnly ==
  /\ running /\ block # None /\ next <= Len(block[1]) /\ Authorized(block[1][next])
  /\ LET m == block[1][next]
     IN  /\ asked' = IF ContentOf[m] \in temp THEN asked ELSE asked \cup {ContentOf[m]}
         /\ staged' = StagePost(m)
  /\ next' = next + 1
  /\ UNCHANGED << running, temp, slots, mempool, block, height, meta, index, refs,
                  announced, mirror, gcVars, bounds >>

(* process_post_message_tx: a missing blob is asked for and does not fail   *)
(* the transaction, a namespace of somebody else does.                      *)
DeliverPost ==
  /\ running /\ block # None /\ next <= Len(block[1])
  /\ LET m == block[1][next]
     IN  /\ asked' = IF ContentOf[m] \in temp THEN asked ELSE asked \cup {ContentOf[m]}
         /\ staged' = IF Authorized(m) THEN StagePost(m) ELSE staged
  /\ next' = next + 1
  /\ UNCHANGED << running, temp, slots, mempool, block, height, meta, index, refs,
                  announced, mirror, gcVars, bounds >>

StagedContents == {staged.meta[m].content : m \in DOMAIN staged.meta}

(* Process stop: what is in memory is lost; Tendermint keeps the block. *)
Halt ==
  /\ running' = FALSE
  /\ staged' = NothingStaged
  /\ next' = 1
  /\ mirror' = {}
  /\ gc' = Idle

(* commit_inner, when the temporary blob of a staged message is missing:    *)
(* the error is fatal and the transaction is never committed.               *)
CommitFatal ==
  /\ running /\ block # None /\ next > Len(block[1])
  /\ ~(StagedContents \subseteq temp)
  /\ Halt
  /\ UNCHANGED << temp, slots, mempool, block, height, meta, index, refs, announced, asked,
                  log, bounds >>

(* put_pinboard_metadata_with_tx: the entry of an earlier commit of the     *)
(* same message is replaced.                                                *)
MergedMeta ==
  [m \in DOMAIN meta \cup DOMAIN staged.meta |->
     IF m \in DOMAIN staged.meta THEN staged.meta[m] ELSE meta[m]]

(* update_pinboard_refcount_with_tx; Commit only ever adds.                 *)
CountedRefs == [c \in Content |-> refs[c] + staged.refs[c]]

(* delete_pinboard_temp_blob_with_tx, of every content of the block. *)
RemainingTemp == temp \ StagedContents

(* The pinboard entries of the transaction that Commit builds. *)
WritePinboard ==
  /\ meta' = MergedMeta
  /\ index' = [commit |-> index.commit \cup staged.commit,
               wallet |-> index.wallet \cup staged.wallet,
               tag    |-> index.tag \cup staged.tag,
               expiry |-> index.expiry \cup staged.expiry,
               path   |-> index.path \cup staged.path]
  /\ refs' = CountedRefs
  /\ temp' = RemainingTemp

(* find_pinboard_and_broadcast_announce is given the cache, which was       *)
(* cleared with the others when the entries had been written.               *)
AnnounceStaged ==
  LET cleared == NothingStaged
  IN  announced' = announced \cup DOMAIN cleared.meta

(* commit_inner: every blob is there. *)
Commit ==
  /\ running /\ block # None /\ next > Len(block[1])
  /\ StagedContents \subseteq temp
  /\ WritePinboard
  /\ AnnounceStaged
  /\ mirror' = mirror \cup {<< height + 1, c >> : c \in StagedContents}
  /\ staged' = NothingStaged
  /\ height' = height + 1
  /\ block' = None /\ next' = 1
  /\ UNCHANGED << running, slots, mempool, asked, gcVars, bounds >>

(* The process stops; it also may at any moment. *)
Stop ==
  /\ running /\ mishaps < MaxMishaps /\ mishaps' = mishaps + 1
  /\ Halt
  /\ UNCHANGED << temp, slots, mempool, block, height, meta, index, refs, announced, asked,
                  log, posts >>

(* After a start Tendermint delivers the block again that was not committed. *)
Start ==
  /\ ~running /\ running' = TRUE
  /\ UNCHANGED << temp, slots, chainVars, mirror, gcVars, bounds >>

-----------------------------------------------------------------------------
(* Blobs and the capacity slots *)

(* The task Commit spawns writes a blob unless the slots have it; an error  *)
(* is logged and the blob given up.                                         *)
Mirror(t) ==
  /\ running /\ t \in mirror
  /\ mirror' = mirror \ {t}
  /\ \/ slots' = slots \cup {t[2]} /\ UNCHANGED mishaps
     \/ /\ t[2] \notin slots /\ UNCHANGED slots
        /\ mishaps < MaxMishaps /\ mishaps' = mishaps + 1
  /\ UNCHANGED << running, temp, chainVars, gcVars, posts >>

(* handle_content_response: bytes of a peer go to the slots, not to the     *)
(* temporary blobs.                                                         *)
ContentResponse(c) ==
  /\ running /\ c \in asked \ slots
  /\ slots' = slots \cup {c}
  /\ UNCHANGED << running, temp, chainVars, mirror, gcVars, bounds >>

-----------------------------------------------------------------------------
(* Queries *)

Before(a, b) == a[1] < b[1] \/ (a[1] = b[1] /\ a[2] < b[2])

(* The keys of pinboard_idx_commit, oldest or newest first; those of one    *)
(* wallet and of one tag, oldest first.                                     *)
GlobalFeed(order) ==
  SetToSortSeq(index.commit, LAMBDA a, b : IF order = "asc" THEN Before(a, b) ELSE Before(b, a))

WalletFeed(w) == SetToSortSeq({<< e[2], e[3] >> : e \in {x \in index.wallet : x[1] = w}}, Before)

TagFeed(t) == SetToSortSeq({<< e[2], e[3] >> : e \in {x \in index.tag : x[1] = t}}, Before)

(* pinboard_blob_fields: only the slots are asked for the bytes. *)
BlobStatus(m) ==
  CASE height >= meta[m].expires -> "expired"
    [] height < meta[m].expires /\ meta[m].content \in slots -> "available"
    [] OTHER -> "missing"

(* The posts of a page of a feed; one without metadata is left out, and the *)
(* expired ones unless they are asked for.  A page size may be refused.     *)
ListPosts(feed, page, pageSize, expiredToo) ==
  LET ids  == ScanPage(feed, page, pageSize, MaxResults).items
      show(e) == e[2] \in DOMAIN meta /\ (expiredToo \/ BlobStatus(e[2]) # "expired")
      shown == SelectSeq(ids, show)
  IN  IF ~ValidOptions(pageSize, MaxResults) THEN << None >>
      ELSE [i \in DOMAIN shown |-> << shown[i][2], BlobStatus(shown[i][2]) >>]

(* handle_get_pinboard_post_by_path: by the signer's path, or by the path   *)
(* in a namespace; nothing when the path is not the message's.              *)
PostByWalletPath(w, m) ==
  IF m \in DOMAIN meta /\ SignerOf[m] = w THEN << m, BlobStatus(m) >> ELSE None

PostByNamespacePath(ns, m) ==
  IF << ns, m >> \in index.path THEN << m, BlobStatus(m) >> ELSE None

-----------------------------------------------------------------------------
(* The collector: run_gc_tick *)

GcStart ==
  /\ running /\ gc.phase = "idle"
  /\ gc' = [Idle EXCEPT !.phase = "scan", !.height = height]
  /\ UNCHANGED << running, temp, slots, chainVars, mirror, log, bounds >>

FirstOf(s, n) == SubSeq(s, 1, IF Len(s) < n THEN Len(s) ELSE n)

(* The latest expiry of each content among the messages seen. *)
SeeMessages(expires, ms) ==
  LET seen == {m \in ms : m \in DOMAIN meta}
      cs   == {meta[m].content : m \in seen}
      top(c) == Max({meta[m].expires : m \in {x \in seen : meta[x].content = c}}
                    \cup (IF c \in DOMAIN expires THEN {expires[c]} ELSE {}))
  IN  [c \in DOMAIN expires \cup cs |-> IF c \in cs THEN top(c) ELSE expires[c]]

(* Mutants: a content is taken one block early; one block late. *)
CandidatesEarly(expires, h) ==
  FirstOf(SetToSortSeq({c \in DOMAIN expires : h + 1 >= expires[c]}, LAMBDA a, b : a < b), DeleteLimit)
CandidatesLate(expires, h) ==
  FirstOf(SetToSortSeq({c \in DOMAIN expires : h > expires[c]}, LAMBDA a, b : a < b), DeleteLimit)

(* What has expired, by expiry and then by key; at most DeleteLimit of it. *)
Candidates(expires, h) ==
  LET all == SetToSortSeq({c \in DOMAIN expires : h >= expires[c]},
                          LAMBDA a, b : \/ expires[a] < expires[b]
                                        \/ expires[a] = expires[b] /\ a < b)
  IN  FirstOf(all, DeleteLimit)

(* One page of the feed; the scan ends with an empty page, the last page or *)
(* the limit, and the candidates are chosen.                                *)
GcPage ==
  /\ running /\ gc.phase = "scan"
  /\ \E page \in {ScanPage(GlobalFeed("desc"), gc.page, PageSize, MaxResults)} :
       \E ids \in {FirstOf(page.items, ScanLimit - gc.scanned)} :
         \E exps \in {SeeMessages(gc.expires, {ids[i][2] : i \in DOMAIN ids})} :
           LET done == ~page.has_more \/ page.items = << >> \/ gc.scanned + Len(ids) >= ScanLimit
           IN  gc' = [gc EXCEPT !.page    = @ + 1,
                                !.scanned = @ + Len(ids),
                                !.expires = exps,
                                !.phase   = IF done THEN "delete" ELSE "scan",
                                !.todo    = IF done THEN Candidates(exps, gc.height) ELSE << >>]
  /\ UNCHANGED << running, temp, slots, chainVars, mirror, log, bounds >>

(* A page the limiter refuses ends the tick with an error. *)
GcRefused ==
  /\ running /\ gc.phase = "scan"
  /\ mishaps < MaxMishaps /\ mishaps' = mishaps + 1
  /\ gc' = Idle
  /\ UNCHANGED << running, temp, slots, chainVars, mirror, log, posts >>

(* delete_content_from_slots for one candidate.  The log of deletions gets  *)
(* a row for every message with the content.                                *)
GcDelete ==
  /\ running /\ gc.phase = "delete" /\ gc.todo # << >>
  /\ gc' = [gc EXCEPT !.todo = Tail(@)]
  /\ LET c == Head(gc.todo)
     IN  \/ /\ c \in slots
            /\ slots' = slots \ {c}
            /\ log' = log \cup
                 {<< m, gc.height >> : m \in {x \in DOMAIN meta : meta[x].content = c}}
            /\ UNCHANGED mishaps
         \/ /\ c \notin slots
            /\ UNCHANGED << slots, log, mishaps >>
         \/ /\ c \in slots /\ mishaps < MaxMishaps /\ mishaps' = mishaps + 1
            /\ UNCHANGED << slots, log >>
  /\ UNCHANGED << running, temp, chainVars, mirror, posts >>

(* The end of a tick; the counters it writes are read by nobody in the node. *)
GcEnd ==
  /\ running /\ gc.phase = "delete" /\ gc.todo = << >>
  /\ gc' = Idle
  /\ UNCHANGED << running, temp, slots, chainVars, mirror, log, bounds >>

-----------------------------------------------------------------------------
Post   == \E m \in Message : \/ \E sent \in BOOLEAN : Submit(m, sent)
                             \/ SubmitElsewhere(m)
Blocks == Propose \/ DeliverPost \/ Commit \/ CommitFatal
Blobs  == \/ \E t \in mirror : Mirror(t)
          \/ \E c \in Content : ContentResponse(c)
Tick   == GcStart \/ GcPage \/ GcRefused \/ GcDelete \/ GcEnd

Next == Post \/ Blocks \/ Stop \/ Start \/ Blobs \/ Tick

Spec == Init /\ [][Next]_vars
=============================================================================

---------------------------- MODULE PrefixQuery ----------------------------
(***************************************************************************)
(* Paginated scans of an index in key order.  A key costs one unit of the  *)
(* memory bound.                                                           *)
(***************************************************************************)
EXTENDS Integers, Sequences, SequencesExt

(* PrefixQueryOptions::validate, with the page size it delegates. *)
ValidOptions(pageSize, maxResults) ==
  /\ pageSize \in 1 .. maxResults
  /\ maxResults > 0

Offset(page, pageSize) == page * pageSize


(* A page of the keys.  The scan counts keys until they run out, or until   *)
(* it breaks at the first one beyond max_results or beyond the page, which  *)
(* is counted too; the page is what it counted from the offset on.          *)
ScanPage(keys, page, pageSize, maxResults) ==
  LET offset    == Offset(page, pageSize)
      processed == Min({Len(keys), maxResults + 1, offset + pageSize + 1})
      items     == SubSeq(keys, offset + 1, Min({processed, maxResults, offset + pageSize}))
  IN  [items |-> items, has_more |-> processed > offset + Len(items)]
=============================================================================

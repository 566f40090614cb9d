----------------------------- MODULE PathStore -----------------------------
(***************************************************************************)
(* What the CADO storage promises its callers: a map from paths to bodies, *)
(* changed by whole transactions and by single calls.  A call takes effect *)
(* at one moment between its start and its return, on its own path only;   *)
(* a stop of the process ends the open transaction without effect and      *)
(* leaves an open call done or not done, never half done.                  *)
(*                                                                         *)
(* Paths of the content-addressed types share one stored body when their   *)
(* contents are equal.  A delete of one of them may make the others        *)
(* unreadable, and a put of that content makes them readable again: such a *)
(* path reads as absent or as its own binding, never as another body.      *)
(***************************************************************************)
CONSTANTS Path,     \* paths
          Body,     \* bodies
          Shared,   \* the paths of content-addressed types
          Absent    \* no body, no call

VARIABLES bound,    \* what each path is bound to
          lost,     \* the shared paths whose body is gone
          txn,      \* the bindings of the open transaction
          call      \* the call in progress: its path and the new binding

vars == <<bound, lost, txn, call>>

Nothing == [p \in {} |-> Absent]

(* A delete may lose bodies of shared paths, a put only recovers them, and *)
(* the path it binds is readable.                                          *)
Losing(deletes, newly) ==
  /\ lost' \subseteq {p \in Shared : bound'[p] # Absent} \ newly
  /\ ~deletes => lost' \subseteq lost

Init ==
  /\ bound = [p \in Path |-> Absent]
  /\ lost = {}
  /\ txn = Nothing
  /\ call = Absent

Stage(p, b) ==
  /\ txn' = [q \in DOMAIN txn \cup {p} |-> IF q = p THEN b ELSE txn[q]]
  /\ UNCHANGED <<bound, lost, call>>

Commit ==
  /\ bound' = [p \in Path |-> IF p \in DOMAIN txn THEN txn[p] ELSE bound[p]]
  /\ txn' = Nothing
  /\ UNCHANGED <<lost, call>>

Call(p, b) ==
  /\ call = Absent
  /\ call' = [path |-> p, body |-> b]
  /\ UNCHANGED <<bound, lost, txn>>

Effect ==
  /\ call # Absent
  /\ \/ /\ bound' = [bound EXCEPT ![call.path] = call.body]
        /\ Losing(call.body = Absent, {call.path})
     \/ /\ bound' = bound
        /\ Losing(call.body = Absent, {})
  /\ UNCHANGED txn
  /\ \/ call' = call
     \/ call' = Absent /\ bound'[call.path] = call.body

Crash ==
  /\ txn' = Nothing
  /\ call' = Absent
  /\ UNCHANGED <<bound, lost>>

Next ==
  \/ \E p \in Path \ Shared, b \in Body : Stage(p, b)
  \/ \E p \in Path, b \in Body : Call(p, b)
  \/ \E p \in Shared : Call(p, Absent)
  \/ Commit
  \/ Effect
  \/ Crash

Spec == Init /\ [][Next]_vars
=============================================================================

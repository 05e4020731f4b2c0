------------------------------ MODULE AtomicStore ------------------------------
(***************************************************************************)
(* What the config store promises its callers: each call that edits the    *)
(* stored document takes effect at one instant between its start and its   *)
(* return, on the document as it then is, or not at all.                   *)
(*                                                                         *)
(* A document is the set of the edits it contains: an edit that reads the  *)
(* document, changes it and writes it back adds itself to the set.  A fill *)
(* (restoring an empty list) writes only while no entry has been put there.*)
(***************************************************************************)

CONSTANTS Calls,   \* the edits ever requested
          Entries, \* those that put an entry into the list that fills restore
          Fills    \* those that are fillEmpty: they restore that list if it is empty

VARIABLES doc,     \* the edits the stored document contains
          status   \* how far each call has come

vars == <<doc, status>>

Stages == {"idle", "pending", "committed", "ok", "failed", "lost"}

TypeOK == /\ doc \subseteq Calls
          /\ status \in [Calls -> Stages]

Init == /\ doc = {}
        /\ status = [c \in Calls |-> "idle"]

Move(c, from, to) == /\ status[c] = from
                     /\ status' = [status EXCEPT ![c] = to]

Invoke(c) == Move(c, "idle", "pending") /\ UNCHANGED doc

Full == doc \intersect Entries # {}

(* The call's effect.  A fill of a list that holds something commits       *)
(* without writing.                                                        *)
Commit(c) == /\ Move(c, "pending", "committed")
             /\ IF c \in Fills /\ Full THEN UNCHANGED doc
                                      ELSE doc' = doc \union {c}

Return(c) == Move(c, "committed", "ok") /\ UNCHANGED doc

(* An error is reported only for a call that had no effect.                *)
Refuse(c) == Move(c, "pending", "failed") /\ UNCHANGED doc

(* The pods that died took these calls' answers with them; whether such a  *)
(* call committed is then unknown to its caller, as for any crashed server.*)
Crash == /\ \E dead \in SUBSET {c \in Calls : status[c] \in {"pending", "committed"}} :
              status' = [c \in Calls |-> IF c \in dead THEN "lost" ELSE status[c]]
         /\ UNCHANGED doc

Next == \/ \E c \in Calls : Invoke(c) \/ Commit(c) \/ Return(c) \/ Refuse(c)
        \/ Crash

Spec == Init /\ [][Next]_vars
================================================================================

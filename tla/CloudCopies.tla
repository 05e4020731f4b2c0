----------------------------- MODULE CloudCopies -----------------------------
(***************************************************************************)
(* The copies of what is live in a GCS bucket: "Save all to GCS" of the    *)
(* cameras, the prompt and the scenarios (the three sync-gcs routes, with  *)
(* lib/helpers/gcs-config.ts), one object each.  The cameras' object also  *)
(* holds what operators set per camera; a copy carries it over from the    *)
(* object it replaces.  Requests run side by side in one process, and the  *)
(* cameras' copy is signed through a variable of the process.              *)
(*                                                                         *)
(* A registration of VST is [name, url]; an entry of the copy is [id, url, *)
(* extra], extra 0 for nothing set.  Contents of the others are versions.  *)
(***************************************************************************)
EXTENDS Integers, Sequences

CONSTANTS
  Users,        \* who presses the button; each has one request at a time
  SensorLists,  \* what VST may list: sequences of [name, url]
  Copies,       \* entries the cameras' object may hold at first: sequences of [id, url, extra]
  MaxFaults,    \* bound: calls that fail
  MaxTurns      \* bound: requests and changes of what is live

VARIABLES
  live,    \* [cameras: VST's list, prompt, scenarios: versions]
  bucket,  \* object -> [by, holds]; holds is what was live, or entries
  author,  \* process.env.UPDATED_BY
  req,     \* user -> [step, what, list, read: the object's entries, known: it was read]
  spent    \* [faults, turns]

vars == <<live, bucket, author, req, spent>>

Objects == {"cameras", "prompt", "scenarios"}
NoRequest == [step |-> "none", what |-> "none", list |-> <<>>, read |-> <<>>, known |-> FALSE]

--------------------------------------------------------------------------------
Init ==
  /\ live \in [cameras : SensorLists, prompt : {1}, scenarios : {1}]
  /\ bucket \in {[o \in Objects |-> IF o = "cameras" THEN [by |-> "nobody", holds |-> c]
                                    ELSE [by |-> "nobody", holds |-> <<0>>]] : c \in Copies}
  /\ author = "unknown"
  /\ req = [u \in Users |-> NoRequest]
  /\ spent = [faults |-> 0, turns |-> 0]

Turn  == spent.turns < MaxTurns /\ spent' = [spent EXCEPT !.turns = @ + 1]
Fault == spent.faults < MaxFaults /\ spent' = [spent EXCEPT !.faults = @ + 1]
Put(u, r) == req' = [req EXCEPT ![u] = r]

(* What is live changes: VST registers or forgets, somebody edits.         *)
Change ==
  /\ Turn
  /\ \/ \E l \in SensorLists : live' = [live EXCEPT !.cameras = l]
     \/ \E o \in {"prompt", "scenarios"} : live' = [live EXCEPT ![o] = @ + 1]
  /\ UNCHANGED <<bucket, author, req>>

Press(u, o) ==
  /\ req[u].step = "none" /\ Turn
  /\ Put(u, [NoRequest EXCEPT !.step = "list", !.what = o])
  /\ UNCHANGED <<live, bucket, author>>

(* The read of what is live: vstListSensors, readPromptLive or the         *)
(* scenarios' ConfigMap.  VST that does not answer is an empty list and a  *)
(* warning, and no copy is made of it.                                     *)
CopiesAnything(u) == \* (variant) the warning is not looked at
  Put(u, [req[u] EXCEPT !.step = "read", !.list = <<>>])
Unreachable(u) == Put(u, NoRequest)

List(u) ==
  /\ req[u].step = "list"
  /\ Put(u, IF req[u].what = "cameras"
            THEN [req[u] EXCEPT !.step = "read", !.list = live.cameras]
            ELSE [req[u] EXCEPT !.step = "put", !.list = <<live[req[u].what]>>])
  /\ UNCHANGED <<live, bucket, author, spent>>
ListFails(u) ==
  /\ req[u].step = "list" /\ Fault
  /\ IF req[u].what = "cameras" THEN Unreachable(u) ELSE Put(u, NoRequest)
  /\ UNCHANGED <<live, bucket, author>>

(* gcsCamerasGet never throws: an object that cannot be read is none.      *)
Read(u) ==
  /\ req[u].step = "read"
  /\ Put(u, [req[u] EXCEPT !.step = "put", !.read = bucket["cameras"].holds, !.known = TRUE])
  /\ UNCHANGED <<live, bucket, author, spent>>
ReadFails(u) ==
  /\ req[u].step = "read" /\ Fault
  /\ Put(u, [req[u] EXCEPT !.step = "put"])
  /\ UNCHANGED <<live, bucket, author>>

(* Every registration listed becomes an entry, a deleted one too; what was *)
(* set is that of the last entry of its name.                              *)
Extra(entries, name) ==
  LET at == {i \in DOMAIN entries : entries[i].id = name}
  IN IF at = {} THEN 0 ELSE entries[CHOOSE i \in at : \A j \in at : j <= i].extra
NothingSet(entries, name) == \* (variant) a copy starts afresh
  0
Carried(entries, name) == Extra(entries, name)
Entries(r) == [i \in DOMAIN r.list |->
                 [id |-> r.list[i].name, url |-> r.list[i].url, extra |-> Carried(r.read, r.list[i].name)]]

(* The cameras' copy is signed with UPDATED_BY, which is set with no await *)
(* between; the others are signed by their own routes.                     *)
SignedBefore(u, what) == \* (variant) what another request left there
  IF what = "cameras" THEN author ELSE u
Signature(u, what) == u
Signing(u) == author' = IF req[u].what = "cameras" THEN u ELSE author

Write(u) ==
  /\ req[u].step = "put"
  /\ bucket' = [bucket EXCEPT ![req[u].what] =
       [by    |-> Signature(u, req[u].what),
        holds |-> IF req[u].what = "cameras" THEN Entries(req[u]) ELSE req[u].list]]
  /\ Signing(u)
  /\ Put(u, NoRequest)
  /\ UNCHANGED <<live, spent>>
WriteFails(u) ==
  /\ req[u].step = "put" /\ Fault
  /\ Signing(u)
  /\ Put(u, NoRequest)
  /\ UNCHANGED <<live, bucket>>

Next ==
  \/ Change
  \/ \E u \in Users : \/ \E o \in Objects : Press(u, o)
                     \/ List(u) \/ ListFails(u) \/ Read(u) \/ ReadFails(u)
                     \/ Write(u) \/ WriteFails(u)
Spec == Init /\ [][Next]_vars

--------------------------------------------------------------------------------
TypeOK ==
  /\ \A u \in Users : req[u].step \in {"none", "list", "read", "put"} /\ req[u].what \in Objects \union {"none"}
  /\ author \in Users \union {"unknown"}
  /\ \A o \in Objects : bucket[o].by \in Users \union {"nobody", "unknown"}
  /\ spent.faults \in 0 .. MaxFaults /\ spent.turns \in 0 .. MaxTurns

(* A list that came of an outage is never saved over the copy: an empty    *)
(* copy was an empty VST (cameras/sync-gcs).                               *)
NoCopyOfAnOutage ==
  bucket["cameras"].by # "nobody" /\ bucket["cameras"].holds = <<>> => <<>> \in SensorLists

(* A copy is signed by who asked for it, whatever requests run beside it   *)
(* (cameras/sync-gcs, gcsCamerasPut).                                      *)
SignedStep ==
  \A o \in Objects : bucket'[o] # bucket[o] =>
    \E u \in Users : /\ req[u].step = "put" /\ req[u].what = o /\ req'[u].step = "none"
                     /\ bucket'[o].by = u
Signed == [][SignedStep]_vars

(* A copy that replaces the entries it has read keeps what is set for the  *)
(* cameras that are still there (cameras/sync-gcs).  One that could not    *)
(* read them does not.                                                     *)
ExtrasStep ==
  LET old == bucket["cameras"].holds
      new == bucket'["cameras"].holds
  IN \A u \in Users :
       req[u].step = "put" /\ req[u].known /\ req[u].read = old /\ req'[u].step = "none" /\ new # old =>
         \A i \in DOMAIN new : Extra(new, new[i].id) = Extra(old, new[i].id)
ExtrasStay == [][ExtrasStep]_vars
================================================================================

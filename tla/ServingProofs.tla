----------------------------- MODULE ServingProofs -----------------------------
(***************************************************************************)
(* Proofs of the parts that serve and save: for each, what a state of it   *)
(* always satisfies, that its initial states do, that its steps keep it,   *)
(* and what follows for the properties of ServiceParts.                    *)
(***************************************************************************)
EXTENDS ServingParts, FiniteSetTheorems, WellFoundedInduction, TLAPS

(* A set of natural numbers that is not empty has a least element, and one *)
(* bounded from above has a greatest.                                      *)
LEMMA HasLeast ==
  ASSUME NEW T \in SUBSET Nat, T # {}
  PROVE  \E m \in T : \A k \in T : m <= k
<1> DEFINE less == OpToRel(<, Nat)
<1>1. IsWellFoundedOn(less, Nat)
  BY NatLessThanWellFounded
<1>2. \A x, y \in Nat : <<y, x>> \in less <=> y < x
  BY DEF OpToRel
<1> HIDE DEF less
<1>3. PICK x \in T : \A y \in T : ~ (<<y, x>> \in less)
  BY <1>1, WFMin
<1>4. \A y \in T : y \in Nat /\ x \in Nat /\ ~(y < x)
  BY <1>2, <1>3
<1>5. \A y \in T : x <= y
  BY <1>4
<1> QED  BY <1>3, <1>5

LEMMA HasGreatest ==
  ASSUME NEW n \in Nat, NEW T \in SUBSET (0 .. n), T # {}
  PROVE  \E m \in T : \A k \in T : k <= m
<1> DEFINE U == {n - k : k \in T}
<1>1. U \in SUBSET Nat /\ U # {}
  <2>1. \A k \in T : k \in 0 .. n /\ n - k \in Nat
    OBVIOUS
  <2> QED  BY <2>1
<1>2. PICK m \in T : \A k \in U : n - m <= k
  <2> HIDE DEF U
  <2>1. \E u \in U : \A k \in U : u <= k
    BY <1>1, HasLeast
  <2> QED  BY <2>1 DEF U
<1>3. \A k \in T : k \in 0 .. n /\ n - m <= n - k /\ m \in 0 .. n
  BY <1>2
<1>4. \A k \in T : k <= m
  BY <1>3
<1> QED  BY <1>2, <1>4

--------------------------------------------------------------------------------
(* The copies in the cloud (gcs-config.ts and the sync-gcs routes): v1 what *)
(* is live, v2 the bucket, v3 the process's author, v4 the requests, v5 the *)
(* faults and turns.                                                       *)

IsRequest(r) ==
  /\ r \in [step : {"none", "list", "read", "put"}, what : Copies!Objects \union {"none"},
            list : {r.list}, read : {r.read}, known : BOOLEAN]
  /\ r.step # "none" => r.what \in Copies!Objects
  /\ r.step = "read" => r.what = "cameras"
  /\ r.step \in {"read", "put"} /\ r.what = "cameras" => r.list \in CopiesGiven.SensorLists
  /\ r.known => r.step = "put" /\ r.what = "cameras"
IsObject(b) ==
  /\ b = [by |-> b.by, holds |-> b.holds]
  /\ b.by \in CopiesGiven.Users \union {"nobody", "unknown"}

(* What holds in every state of them: the cameras' copy is empty only if   *)
(* it is the first or VST listed nothing.                                  *)
LiveTyped   == v1 \in [cameras : CopiesGiven.SensorLists, prompt : Nat, scenarios : Nat]
BucketTyped == v2 \in [Copies!Objects -> {v2[o] : o \in Copies!Objects}]
               /\ \A o \in Copies!Objects : IsObject(v2[o])
AskedTyped  == v4 \in [CopiesGiven.Users -> {v4[u] : u \in CopiesGiven.Users}]
               /\ \A u \in CopiesGiven.Users : IsRequest(v4[u])
SpentTyped  == v5 \in [faults : 0 .. CopiesGiven.MaxFaults, turns : 0 .. CopiesGiven.MaxTurns]
CopiesInv ==
  /\ LiveTyped /\ BucketTyped /\ AskedTyped /\ SpentTyped
  /\ v3 \in CopiesGiven.Users \union {"unknown"}
  /\ Copies!NoCopyOfAnOutage

LEMMA CopiesPromise == CopiesInv => Copies!TypeOK /\ Copies!NoCopyOfAnOutage
BY DEF CopiesInv, BucketTyped, AskedTyped, SpentTyped, IsRequest, IsObject, Copies!TypeOK

LEMMA CopiesStart == Copies!Init => CopiesInv
<1> SUFFICES ASSUME Copies!Init PROVE CopiesInv
  OBVIOUS
<1> USE CopiesAssumption DEF Copies!Init
<1>1. LiveTyped
  BY DEF LiveTyped
<1>2. BucketTyped /\ Copies!NoCopyOfAnOutage
  BY DEF BucketTyped, IsObject, Copies!Objects, Copies!NoCopyOfAnOutage
<1>3. AskedTyped
  BY DEF AskedTyped, IsRequest, Copies!NoRequest
<1>4. SpentTyped
  BY DEF SpentTyped
<1> QED  BY <1>1, <1>2, <1>3, <1>4 DEF CopiesInv

(* A request moves on: what it becomes is all that matters.                *)
LEMMA RequestMoves ==
  ASSUME AskedTyped, NEW u \in CopiesGiven.Users, NEW r, IsRequest(r), Copies!Put(u, r)
  PROVE  AskedTyped' /\ v4'[u] = r /\ \A w \in CopiesGiven.Users \ {u} : v4'[w] = v4[w]
<1>1. v4' = [v4 EXCEPT ![u] = r]
  BY DEF Copies!Put
<1>2. v4'[u] = r /\ \A w \in CopiesGiven.Users \ {u} : v4'[w] = v4[w]
  BY <1>1 DEF AskedTyped
<1>3. v4' \in [CopiesGiven.Users -> {v4'[w] : w \in CopiesGiven.Users}]
  BY <1>1 DEF AskedTyped
<1>4. \A w \in CopiesGiven.Users : IsRequest(v4'[w])
  BY <1>2 DEF AskedTyped
<1> QED  BY <1>2, <1>3, <1>4 DEF AskedTyped

LEMMA SpentMoves ==
  ASSUME SpentTyped, Copies!Turn \/ Copies!Fault
  PROVE  SpentTyped'
<1> USE CopiesAssumption
<1>1. CASE Copies!Turn
  BY <1>1 DEF SpentTyped, Copies!Turn
<1>2. CASE Copies!Fault
  BY <1>2 DEF SpentTyped, Copies!Fault
<1> QED  BY <1>1, <1>2

(* Where the bucket stays, nothing is signed and nothing is lost.          *)
LEMMA BucketStays ==
  ASSUME CopiesInv, v2' = v2
  PROVE  /\ BucketTyped' /\ Copies!NoCopyOfAnOutage'
         /\ Copies!SignedStep /\ Copies!ExtrasStep
BY DEF CopiesInv, BucketTyped, Copies!NoCopyOfAnOutage, Copies!SignedStep, Copies!ExtrasStep

LEMMA CopiesChange ==
  ASSUME CopiesInv, Copies!Change
  PROVE  CopiesInv' /\ Copies!SignedStep /\ Copies!ExtrasStep
<1>1. LiveTyped'
  BY DEF CopiesInv, LiveTyped, Copies!Change
<1>2. SpentTyped'
  BY SpentMoves DEF CopiesInv, Copies!Change
<1>3. v2' = v2 /\ v3' = v3 /\ v4' = v4
  BY DEF Copies!Change
<1> QED
  BY <1>1, <1>2, <1>3, BucketStays DEF CopiesInv, AskedTyped

LEMMA CopiesRequests ==
  ASSUME CopiesInv, NEW u \in CopiesGiven.Users,
         \/ \E o \in Copies!Objects : Copies!Press(u, o)
         \/ Copies!List(u) \/ Copies!ListFails(u) \/ Copies!Read(u) \/ Copies!ReadFails(u)
         \/ Copies!WriteFails(u)
  PROVE  CopiesInv' /\ Copies!SignedStep /\ Copies!ExtrasStep
<1>0. AskedTyped /\ IsRequest(v4[u]) /\ SpentTyped /\ LiveTyped
  BY DEF CopiesInv, AskedTyped
<1>a. IsRequest(Copies!NoRequest)
  BY DEF IsRequest, Copies!NoRequest
<1>1. UNCHANGED <<v1, v2>>
  BY DEF Copies!Press, Copies!List, Copies!ListFails, Copies!Read, Copies!ReadFails, Copies!WriteFails
<1>2. v3' \in CopiesGiven.Users \union {"unknown"}
  BY DEF CopiesInv, Copies!Press, Copies!List, Copies!ListFails, Copies!Read, Copies!ReadFails,
         Copies!WriteFails, Copies!Signing
<1>3. SpentTyped'
  BY <1>0, SpentMoves
  DEF Copies!Press, Copies!List, Copies!ListFails, Copies!Read, Copies!ReadFails, Copies!WriteFails,
      SpentTyped
<1>4. AskedTyped'
  <2>1. ASSUME NEW o \in Copies!Objects, Copies!Press(u, o) PROVE AskedTyped'
    <3> DEFINE r == [Copies!NoRequest EXCEPT !.step = "list", !.what = o]
    <3>1. IsRequest(r)
      BY <1>a DEF IsRequest, Copies!NoRequest
    <3> QED  BY <1>0, <2>1, <3>1, RequestMoves DEF Copies!Press
  <2>2. CASE Copies!List(u)
    <3> DEFINE r == IF v4[u].what = "cameras"
                    THEN [v4[u] EXCEPT !.step = "read", !.list = v1.cameras]
                    ELSE [v4[u] EXCEPT !.step = "put", !.list = <<v1[v4[u].what]>>]
    <3>1. v4[u].step = "list" /\ Copies!Put(u, r)
      BY <2>2 DEF Copies!List
    <3>2. IsRequest(r)
      <4>1. CASE v4[u].what = "cameras"
        BY <1>0, <3>1, <4>1 DEF IsRequest, LiveTyped
      <4>2. CASE v4[u].what # "cameras"
        BY <1>0, <3>1, <4>2 DEF IsRequest
      <4> QED  BY <4>1, <4>2
    <3> QED  BY <1>0, <3>1, <3>2, RequestMoves
  <2>3. CASE Copies!ListFails(u) \/ Copies!WriteFails(u)
    BY <1>0, <1>a, <2>3, RequestMoves DEF Copies!ListFails, Copies!WriteFails, Copies!Unreachable
  <2>4. CASE Copies!Read(u)
    <3> DEFINE r == [v4[u] EXCEPT !.step = "put", !.read = v2["cameras"].holds, !.known = TRUE]
    <3>1. v4[u].step = "read" /\ Copies!Put(u, r)
      BY <2>4 DEF Copies!Read
    <3>2. IsRequest(r)
      BY <1>0, <3>1 DEF IsRequest
    <3> QED  BY <1>0, <3>1, <3>2, RequestMoves
  <2>5. CASE Copies!ReadFails(u)
    <3> DEFINE r == [v4[u] EXCEPT !.step = "put"]
    <3>1. v4[u].step = "read" /\ Copies!Put(u, r)
      BY <2>5 DEF Copies!ReadFails
    <3>2. IsRequest(r)
      BY <1>0, <3>1 DEF IsRequest
    <3> QED  BY <1>0, <3>1, <3>2, RequestMoves
  <2> QED  BY <2>1, <2>2, <2>3, <2>4, <2>5
<1>5. LiveTyped' /\ BucketTyped' /\ Copies!NoCopyOfAnOutage' /\ Copies!SignedStep /\ Copies!ExtrasStep
  BY <1>0, <1>1, BucketStays DEF LiveTyped
<1> QED  BY <1>2, <1>3, <1>4, <1>5 DEF CopiesInv

(* The last entry of a name is the same in a copy as in what it was made    *)
(* of: the copy says of each camera what was set.                          *)
LEMMA ExtrasCarried ==
  ASSUME NEW r, IsList(r.list), NEW i \in DOMAIN Copies!Entries(r)
  PROVE  LET new == Copies!Entries(r)
         IN Copies!Extra(new, new[i].id) = Copies!Extra(r.read, new[i].id)
<1> DEFINE new  == Copies!Entries(r)
           name == new[i].id
           at   == {j \in DOMAIN new : new[j].id = name}
<1>1. new = [j \in DOMAIN r.list |-> [id    |-> r.list[j].name, url |-> r.list[j].url,
                                     extra |-> Copies!Extra(r.read, r.list[j].name)]]
  BY DEF Copies!Entries, Copies!Carried
<1>2. PICK n \in Nat : DOMAIN new = 1 .. n
  <2>1. Len(r.list) \in Nat /\ DOMAIN r.list = 1 .. Len(r.list)
    BY DEF IsList
  <2> QED  BY <1>1, <2>1
<1>i. i \in DOMAIN new
  OBVIOUS
<1> HIDE DEF new
<1>3. \A j \in at : new[j].extra = Copies!Extra(r.read, name)
  BY <1>1
<1>4. at \in SUBSET (0 .. n) /\ at # {}
  BY <1>2, <1>i
<1> HIDE DEF at
<1>5. \E m \in at : \A k \in at : k <= m
  BY <1>4, HasGreatest
<1> DEFINE m == CHOOSE m \in at : \A k \in at : k <= m
<1>6. m \in at
  BY <1>5
<1>7. Copies!Extra(new, name) = new[m].extra
  BY <1>4 DEF Copies!Extra, at
<1> QED  BY <1>3, <1>6, <1>7 DEF new

LEMMA CopiesWrite ==
  ASSUME CopiesInv, NEW u \in CopiesGiven.Users, Copies!Write(u)
  PROVE  CopiesInv' /\ Copies!SignedStep /\ Copies!ExtrasStep
<1> USE CopiesAssumption
<1> DEFINE q == v4[u]
           b == [by |-> u, holds |-> IF q.what = "cameras" THEN Copies!Entries(q) ELSE q.list]
<1>1. /\ q.step = "put" /\ q.what \in Copies!Objects /\ v2' = [v2 EXCEPT ![q.what] = b]
      /\ Copies!Put(u, Copies!NoRequest) /\ UNCHANGED <<v1, v5>>
      /\ q.what = "cameras" => q.list \in CopiesGiven.SensorLists
  BY DEF Copies!Write, Copies!Signature, CopiesInv, AskedTyped, IsRequest
<1>2. IsRequest(Copies!NoRequest)
  BY DEF IsRequest, Copies!NoRequest
<1>3. AskedTyped' /\ v4'[u].step = "none" /\ \A w \in CopiesGiven.Users \ {u} : v4'[w] = v4[w]
  BY <1>1, <1>2, RequestMoves DEF CopiesInv, Copies!NoRequest
<1>4. v3' \in CopiesGiven.Users \union {"unknown"}
  BY DEF Copies!Write, Copies!Signing, CopiesInv
<1>5. IsObject(b)
  BY DEF IsObject
<1> HIDE DEF b
<1>6. v2'[q.what] = b /\ \A o \in Copies!Objects \ {q.what} : v2'[o] = v2[o]
  BY <1>1 DEF CopiesInv, BucketTyped
<1>7. BucketTyped'
  <2>1. v2' \in [Copies!Objects -> {v2'[o] : o \in Copies!Objects}]
    BY <1>1 DEF CopiesInv, BucketTyped
  <2> QED  BY <1>5, <1>6, <2>1 DEF CopiesInv, BucketTyped
<1>8. Copies!SignedStep
  BY <1>1, <1>3, <1>6 DEF Copies!SignedStep, b
<1>9. Copies!NoCopyOfAnOutage'
  <2>1. CASE q.what = "cameras"
    <3>1. Copies!Entries(q) = <<>> => q.list = <<>>
      <4>1. IsList(q.list)
        BY <1>1, <2>1
      <4>2. DOMAIN Copies!Entries(q) = DOMAIN q.list
        BY DEF Copies!Entries
      <4> QED  BY <4>1, <4>2 DEF IsList
    <3> QED  BY <1>1, <1>6, <2>1, <3>1 DEF Copies!NoCopyOfAnOutage, b
  <2>2. CASE q.what # "cameras"
    BY <1>6, <2>2 DEF CopiesInv, Copies!NoCopyOfAnOutage, Copies!Objects
  <2> QED  BY <2>1, <2>2
<1>10. Copies!ExtrasStep
  <2> SUFFICES ASSUME NEW w \in CopiesGiven.Users, v4[w].step = "put", v4[w].known,
                      v4[w].read = v2["cameras"].holds, v4'[w].step = "none",
                      v2'["cameras"].holds # v2["cameras"].holds,
                      NEW i \in DOMAIN v2'["cameras"].holds
               PROVE  Copies!Extra(v2'["cameras"].holds, v2'["cameras"].holds[i].id)
                      = Copies!Extra(v2["cameras"].holds, v2'["cameras"].holds[i].id)
    BY DEF Copies!ExtrasStep
  <2>1. w = u
    BY <1>3
  <2>2. q.what = "cameras"
    BY <1>6 DEF Copies!Objects
  <2>3. v2'["cameras"].holds = Copies!Entries(q)
    BY <1>6, <2>2 DEF b
  <2>4. IsList(q.list)
    BY <1>1, <2>2
  <2> HIDE DEF q
  <2> QED  BY <2>1, <2>3, <2>4, ExtrasCarried DEF q
<1> QED
  BY <1>1, <1>3, <1>4, <1>7, <1>8, <1>9, <1>10 DEF CopiesInv, LiveTyped, SpentTyped

(* Every step keeps the invariant, and a copy is signed by who asked for   *)
(* it and loses nothing that was set.                                      *)
LEMMA CopiesStep ==
  ASSUME CopiesInv, [Copies!Next]_(Copies!vars)
  PROVE  CopiesInv' /\ (Copies!Next => Copies!SignedStep /\ Copies!ExtrasStep)
<1>1. CASE UNCHANGED Copies!vars /\ ~Copies!Next
  BY <1>1, BucketStays DEF CopiesInv, Copies!vars, LiveTyped, AskedTyped, SpentTyped
<1>2. CASE Copies!Next
  BY <1>2, CopiesChange, CopiesRequests, CopiesWrite DEF Copies!Next
<1> QED  BY <1>1, <1>2

--------------------------------------------------------------------------------
(* Secrets and profiles (api/secrets/[key], api/profiles/[name]): v1 the   *)
(* view, v2 the Secret's fields, v3 the workloads, v4 the database, v5 the *)
(* profile in force, v6 the requests, v7 the box.                          *)

Turns == 0 .. SecretsGiven.MaxTurns
Asks == Secrets!Keys \union Secrets!Names \union {"none"}

SecretsTyped ==
  /\ v1 \in {"secrets", "profiles"}
  /\ v2 \in [Secrets!Fields -> Turns] /\ v3 \in [Secrets!Workloads -> Turns]
  /\ v5 \in [Secrets!PartSet -> Turns]
  /\ v7 \in [paused : BOOLEAN, turns : 1 .. SecretsGiven.MaxTurns, deaths : Nat]
NotesTyped ==
  v4 \in [rotated : [Secrets!Keys -> Turns], audit : SUBSET Turns, profiles : [Secrets!Names -> Turns]]

(* What a request may be: a rotation or an apply says of each target what  *)
(* became of it, as long as nothing else runs.                             *)
IsRun(r) ==
  /\ r \in [step : {"none", "dialog", "write", "restart", "apply", "answer"}, key : Asks,
            value : Turns, todo : {r.todo}, warned : {r.warned}, alone : BOOLEAN]
  /\ r.step \in {"write", "restart"} => r.key \in Secrets!Keys
  /\ r.step \in {"dialog", "apply"} => r.key \in Secrets!Names
  /\ r.step = "write" => r.todo = Secrets!Targets(r.key)
  /\ r.step \in {"none", "dialog"} => ~r.alone
  /\ r.step = "answer" => r.todo = {}
Follows(r, pods, store) ==
  r.alone /\ r.step \in {"restart", "answer"} /\ r.key \in Secrets!Keys =>
    \A w \in Secrets!Targets(r.key) : w \in r.todo \/ pods[w] = store[Secrets!Reads(w)] \/ w \in r.warned
Halves(r, live) ==
  r.alone /\ r.step \in {"apply", "answer"} /\ r.key \in Secrets!Names =>
    \A p \in Secrets!PartSet : p \in r.todo \/ live[p] = r.value \/ p \in r.warned

RunsTyped == v6 \in [SecretsGiven.Users -> {v6[u] : u \in SecretsGiven.Users}]
RunsFine  == \A u \in SecretsGiven.Users : IsRun(v6[u]) /\ Follows(v6[u], v3, v2) /\ Halves(v6[u], v5)
Apart     == \A u \in SecretsGiven.Users : v6[u].alone =>
               \A w \in SecretsGiven.Users \ {u} : v6[w].step \in {"none", "dialog"}

(* A value in the Secret is noted, or being rolled out, or was cut off.    *)
Held == v7.deaths > 0 \/ \A f \in Secrets!Fields :
          \/ v2[f] = 0 \/ v2[f] \in v4.audit
          \/ \E u \in SecretsGiven.Users : v6[u].step = "restart" /\ v6[u].value = v2[f]

SecretsInv == SecretsTyped /\ NotesTyped /\ RunsTyped /\ RunsFine /\ Apart /\ Held

LEMMA SecretsPromise ==
  SecretsInv => /\ Secrets!TypeOK /\ Secrets!ReadersFollow /\ Secrets!RotationsAreNoted
                /\ Secrets!HalvesAreNamed
<1> SUFFICES ASSUME SecretsInv
             PROVE  /\ Secrets!TypeOK /\ Secrets!ReadersFollow /\ Secrets!RotationsAreNoted
                    /\ Secrets!HalvesAreNamed
  OBVIOUS
<1>1. Secrets!TypeOK
  BY DEF SecretsInv, SecretsTyped, RunsFine, IsRun, Turns, Secrets!TypeOK
<1>2. Secrets!ReadersFollow
  BY DEF SecretsInv, RunsFine, IsRun, Follows, Secrets!ReadersFollow
<1>3. Secrets!HalvesAreNamed
  BY DEF SecretsInv, RunsFine, IsRun, Halves, Secrets!HalvesAreNamed
<1>4. Secrets!RotationsAreNoted
  BY DEF SecretsInv, Held, Secrets!RotationsAreNoted, Secrets!Unnoted
<1> QED  BY <1>1, <1>2, <1>3, <1>4

LEMMA NoReqIsRun ==
  LET r == Secrets!NoReq IN IsRun(r) /\ ~r.alone /\ r.step = "none" /\ r.value = 0
BY SecretsAssumption DEF IsRun, Secrets!NoReq, Asks, Turns

LEMMA SecretsStart == Secrets!Init => SecretsInv
<1> SUFFICES ASSUME Secrets!Init PROVE SecretsInv
  OBVIOUS
<1> USE SecretsAssumption DEF Secrets!Init
<1>0. 0 \in Turns /\ 1 \in Turns /\ 1 \in 1 .. SecretsGiven.MaxTurns
  BY DEF Turns
<1>1. SecretsTyped
  BY <1>0 DEF SecretsTyped
<1>2. NotesTyped
  BY <1>0 DEF NotesTyped
<1>3. RunsTyped /\ RunsFine /\ Apart
  BY NoReqIsRun DEF RunsTyped, RunsFine, Apart, Follows, Halves
<1>4. Held
  BY DEF Held
<1> QED  BY <1>1, <1>2, <1>3, <1>4 DEF SecretsInv

(* One request becomes r, and the others stay: they were alone only if     *)
(* nothing ran, or nothing they rely on changes.                           *)
LEMMA RunMoves ==
  ASSUME SecretsInv, NEW u \in SecretsGiven.Users, NEW r, IsRun(r), v6' = [v6 EXCEPT ![u] = r],
         r.alone => v6[u].alone,
         \/ r.step \in {"none", "dialog"} /\ UNCHANGED <<v2, v3, v5>>
         \/ v6[u].step \notin {"none", "dialog"},
         Follows(r, v3', v2'), Halves(r, v5')
  PROVE  /\ RunsTyped' /\ RunsFine' /\ Apart' /\ v6'[u] = r
         /\ \A w \in SecretsGiven.Users \ {u} : v6'[w] = v6[w]
<1> DEFINE U == SecretsGiven.Users
<1>1. v6'[u] = r /\ RunsTyped' /\ \A w \in U \ {u} : v6'[w] = v6[w]
  BY DEF SecretsInv, RunsTyped
<1>2. ASSUME NEW w \in U \ {u}
      PROVE  IsRun(v6[w]) /\ Follows(v6[w], v3', v2') /\ Halves(v6[w], v5')
  <2>1. CASE UNCHANGED <<v2, v3, v5>>
    BY <2>1 DEF SecretsInv, RunsFine
  <2>2. CASE v6[u].step \notin {"none", "dialog"}
    <3>1. ~v6[w].alone
      BY <2>2 DEF SecretsInv, Apart
    <3> QED  BY <3>1 DEF SecretsInv, RunsFine, Follows, Halves
  <2> QED  BY <2>1, <2>2
<1>3. RunsFine'
  BY <1>1, <1>2 DEF RunsFine
<1>4. Apart'
  BY <1>1 DEF Apart, SecretsInv
<1> QED  BY <1>1, <1>3, <1>4

LEMMA NotAlone ==
  ASSUME NEW q, IsRun(q)
  PROVE  LET r == [q EXCEPT !.alone = FALSE]
         IN IsRun(r) /\ ~r.alone /\ r.step = q.step /\ r.value = q.value
<1> DEFINE r == [q EXCEPT !.alone = FALSE]
<1>1. /\ r \in [step : {"none", "dialog", "write", "restart", "apply", "answer"}, key : Asks,
                 value : Turns, todo : {r.todo}, warned : {r.warned}, alone : BOOLEAN]
      /\ r.step = q.step /\ r.key = q.key /\ r.value = q.value /\ r.todo = q.todo /\ ~r.alone
  BY DEF IsRun
<1> HIDE DEF r
<1>2. IsRun(r) /\ ~r.alone /\ r.step = q.step /\ r.value = q.value
  BY <1>1 DEF IsRun
<1> QED  BY <1>2 DEF r

(* One request begins to run: no other is alone any more.                  *)
LEMMA RunBegins ==
  ASSUME SecretsInv, NEW u \in SecretsGiven.Users, NEW r, IsRun(r),
         v6' = [Secrets!Crowded EXCEPT ![u] = r],
         r.alone => \A w \in SecretsGiven.Users \ {u} : v6[w].step \in {"none", "dialog"},
         Follows(r, v3', v2'), Halves(r, v5')
  PROVE  /\ RunsTyped' /\ RunsFine' /\ Apart' /\ v6'[u] = r
         /\ \A w \in SecretsGiven.Users \ {u} :
              v6'[w].step = v6[w].step /\ v6'[w].value = v6[w].value
<1> DEFINE U == SecretsGiven.Users
<1>1. v6'[u] = r /\ RunsTyped' /\ \A w \in U \ {u} : v6'[w] = [v6[w] EXCEPT !.alone = FALSE]
  BY DEF RunsTyped, Secrets!Crowded
<1>2. ASSUME NEW w \in U \ {u}
      PROVE  /\ IsRun(v6'[w]) /\ ~v6'[w].alone
             /\ v6'[w].step = v6[w].step /\ v6'[w].value = v6[w].value
  <2>1. IsRun(v6[w])
    BY DEF SecretsInv, RunsFine
  <2> QED  BY <1>1, <2>1, NotAlone
<1>3. RunsFine'
  BY <1>1, <1>2 DEF RunsFine, Follows, Halves
<1>4. Apart'
  BY <1>1, <1>2 DEF Apart
<1> QED  BY <1>1, <1>2, <1>3, <1>4

(* Nothing held is lost where the Secret stays and who rolls out goes on.  *)
LEMMA HeldStays ==
  ASSUME SecretsInv, v2' = v2, v4.audit \subseteq v4'.audit, v7'.deaths = v7.deaths,
         \A u \in SecretsGiven.Users : v6[u].step = "restart" =>
           \/ v6'[u].step = "restart" /\ v6'[u].value = v6[u].value
           \/ v6[u].value \in v4'.audit
  PROVE  Held'
<1>1. CASE v7.deaths > 0
  BY <1>1 DEF Held
<1>2. ASSUME ~(v7.deaths > 0), NEW f \in Secrets!Fields
      PROVE  \/ v2'[f] = 0 \/ v2'[f] \in v4'.audit
             \/ \E u \in SecretsGiven.Users : v6'[u].step = "restart" /\ v6'[u].value = v2'[f]
  <2>1. CASE v2[f] = 0 \/ v2[f] \in v4.audit
    BY <2>1
  <2>2. CASE \E u \in SecretsGiven.Users : v6[u].step = "restart" /\ v6[u].value = v2[f]
    <3>1. PICK u \in SecretsGiven.Users : v6[u].step = "restart" /\ v6[u].value = v2[f]
      BY <2>2
    <3> QED  BY <3>1
  <2> QED  BY <1>2, <2>1, <2>2 DEF SecretsInv, Held
<1> QED  BY <1>1, <1>2 DEF Held

(* A turn goes by.                                                         *)
LEMMA TurnTyped ==
  ASSUME SecretsInv, Secrets!Turn
  PROVE  /\ v7' \in [paused : BOOLEAN, turns : 1 .. SecretsGiven.MaxTurns, deaths : Nat]
         /\ v7'.deaths = v7.deaths /\ Secrets!Number \in Turns
BY SecretsAssumption DEF SecretsInv, SecretsTyped, Secrets!Turn, Secrets!May, Secrets!Number, Turns

LEMMA RotateStep ==
  ASSUME SecretsInv, NEW u \in SecretsGiven.Users, NEW key \in Secrets!Keys, Secrets!Rotate(u, key)
  PROVE  SecretsInv' /\ Secrets!BeginStep
<1> DEFINE r == [step |-> "write", key |-> key, value |-> Secrets!Number,
                 todo |-> Secrets!Targets(key), warned |-> {},
                 alone |-> \A v \in SecretsGiven.Users : Secrets!Idle(v)]
<1>1. /\ Secrets!Idle(u) /\ Secrets!Turn /\ UNCHANGED <<v1, v2, v3, v4, v5>>
      /\ v6' = [Secrets!Crowded EXCEPT ![u] = r]
  BY DEF Secrets!Rotate
<1>2. Secrets!Number \in Turns /\ v7'.deaths = v7.deaths
  BY <1>1, TurnTyped
<1>3. IsRun(r)
  <2>1. r.alone \in BOOLEAN
    OBVIOUS
  <2>2. r \in [step : {"none", "dialog", "write", "restart", "apply", "answer"}, key : Asks,
               value : Turns, todo : {r.todo}, warned : {r.warned}, alone : BOOLEAN]
    BY <1>2, <2>1 DEF Asks
  <2> QED  BY <2>2 DEF IsRun
<1>4. r.alone => \A w \in SecretsGiven.Users \ {u} : v6[w].step \in {"none", "dialog"}
  BY DEF Secrets!Idle
<1>5. Follows(r, v3', v2') /\ Halves(r, v5') /\ r.step = "write"
  BY DEF Follows, Halves
<1> HIDE DEF r
<1>6. /\ RunsTyped' /\ RunsFine' /\ Apart' /\ v6'[u] = r
      /\ \A w \in SecretsGiven.Users \ {u} : v6'[w].step = v6[w].step /\ v6'[w].value = v6[w].value
  BY <1>1, <1>3, <1>4, <1>5, RunBegins
<1>7. Held'
  BY <1>1, <1>2, <1>6, HeldStays DEF Secrets!Idle
<1>8. SecretsTyped' /\ NotesTyped'
  BY <1>1, TurnTyped DEF SecretsInv, SecretsTyped, NotesTyped
<1>9. Secrets!BeginStep
  BY <1>1, <1>5, <1>6 DEF Secrets!BeginStep, Secrets!Idle
<1> QED  BY <1>6, <1>7, <1>8, <1>9 DEF SecretsInv

LEMMA WriteSecretStep ==
  ASSUME SecretsInv, NEW u \in SecretsGiven.Users, Secrets!WriteSecret(u)
  PROVE  SecretsInv' /\ Secrets!BeginStep
<1>1. v6[u].step = "write" /\ UNCHANGED <<v1, v3, v4, v5, v7>> /\ IsRun(v6[u])
  BY DEF Secrets!WriteSecret, SecretsInv, RunsFine
<1>2. CASE v6' = [v6 EXCEPT ![u] = Secrets!NoReq] /\ v2' = v2
  <2>1. /\ RunsTyped' /\ RunsFine' /\ Apart' /\ v6'[u] = Secrets!NoReq
        /\ \A w \in SecretsGiven.Users \ {u} : v6'[w] = v6[w]
    BY <1>1, <1>2, NoReqIsRun, RunMoves DEF Follows, Halves
  <2>2. Held'
    BY <1>1, <1>2, <2>1, HeldStays
  <2>3. Secrets!BeginStep
    BY <1>1, <2>1 DEF Secrets!BeginStep
  <2> QED  BY <1>1, <1>2, <2>1, <2>2, <2>3 DEF SecretsInv, SecretsTyped, NotesTyped
<1>3. CASE /\ v2' = [v2 EXCEPT ![Secrets!FieldOf(v6[u].key)] = v6[u].value]
           /\ v6' = [v6 EXCEPT ![u].step = "restart"]
  <2> DEFINE r == [v6[u] EXCEPT !.step = "restart"]
  <2>1. /\ r \in [step : {"none", "dialog", "write", "restart", "apply", "answer"}, key : Asks,
                  value : Turns, todo : {r.todo}, warned : {r.warned}, alone : BOOLEAN]
        /\ r.step = "restart" /\ r.key = v6[u].key /\ r.value = v6[u].value
        /\ r.todo = v6[u].todo /\ r.alone = v6[u].alone
    BY <1>1 DEF IsRun
  <2>2. v6' = [v6 EXCEPT ![u] = r]
    BY <1>3 DEF SecretsInv, RunsTyped
  <2> HIDE DEF r
  <2>3. IsRun(r) /\ Follows(r, v3', v2') /\ Halves(r, v5') /\ r.key \in Secrets!Keys
    BY <1>1, <2>1 DEF IsRun, Follows, Halves
  <2>4. /\ RunsTyped' /\ RunsFine' /\ Apart' /\ v6'[u] = r
        /\ \A w \in SecretsGiven.Users \ {u} : v6'[w] = v6[w]
    BY <1>1, <2>1, <2>2, <2>3, RunMoves
  <2>5. /\ v6[u].value \in Turns /\ v2' \in [Secrets!Fields -> Turns]
        /\ \A f \in Secrets!Fields : v2'[f] = v2[f] \/ v2'[f] = v6[u].value
    BY <1>1, <1>3 DEF SecretsInv, SecretsTyped, IsRun
  <2>6. Held'
    <3> SUFFICES ASSUME ~(v7.deaths > 0), NEW f \in Secrets!Fields
                 PROVE  \/ v2'[f] = 0 \/ v2'[f] \in v4.audit
                        \/ \E w \in SecretsGiven.Users : v6'[w].step = "restart" /\ v6'[w].value = v2'[f]
      BY <1>1 DEF Held
    <3>1. CASE v2'[f] = v6[u].value
      BY <2>1, <2>4, <3>1
    <3>2. CASE v2'[f] = v2[f]
      <4>1. \A w \in SecretsGiven.Users : v6[w].step = "restart" =>
              v6'[w].step = "restart" /\ v6'[w].value = v6[w].value
        BY <1>1, <2>4
      <4> QED  BY <3>2, <4>1 DEF SecretsInv, Held
    <3> QED  BY <2>5, <3>1, <3>2
  <2>7. Secrets!BeginStep
    BY <2>1, <2>4 DEF Secrets!BeginStep
  <2> QED  BY <1>1, <2>4, <2>5, <2>6, <2>7 DEF SecretsInv, SecretsTyped, NotesTyped
<1> QED  BY <1>2, <1>3 DEF Secrets!WriteSecret

(* The pods a target is restarted in run with what the Secret holds; a     *)
(* target that is not is named.                                            *)
LEMMA RestartReaderStep ==
  ASSUME SecretsInv, NEW u \in SecretsGiven.Users, NEW w \in Secrets!Workloads,
         Secrets!RestartReader(u, w)
  PROVE  SecretsInv' /\ Secrets!BeginStep
<1>1. /\ v6[u].step = "restart" /\ UNCHANGED <<v1, v2, v4, v5, v7>>
      /\ IsRun(v6[u]) /\ Follows(v6[u], v3, v2)
  BY DEF Secrets!RestartReader, SecretsInv, RunsFine
<1>2. ASSUME NEW warned, NEW r, r = [v6[u] EXCEPT !.todo = v6[u].todo \ {w}, !.warned = warned],
             v6' = [v6 EXCEPT ![u] = r], v3' \in [Secrets!Workloads -> Turns],
             \A x \in Secrets!Workloads \ {w} : v3'[x] = v3[x],
             v6[u].warned \subseteq warned, w \in warned \/ v3'[w] = v2[Secrets!Reads(w)]
      PROVE  SecretsInv' /\ Secrets!BeginStep
  <2>1. /\ r \in [step : {"none", "dialog", "write", "restart", "apply", "answer"}, key : Asks,
                  value : Turns, todo : {r.todo}, warned : {r.warned}, alone : BOOLEAN]
        /\ r.step = "restart" /\ r.key = v6[u].key /\ r.value = v6[u].value
        /\ r.todo = v6[u].todo \ {w} /\ r.alone = v6[u].alone /\ r.warned = warned
    BY <1>1, <1>2 DEF IsRun
  <2>2. Secrets!Targets(r.key) \subseteq Secrets!Workloads
    BY DEF Secrets!Targets, Secrets!Workloads
  <2>3. Follows(r, v3', v2)
    BY <1>1, <1>2, <2>1, <2>2 DEF Follows
  <2>4. IsRun(r) /\ Halves(r, v5)
    BY <1>1, <2>1 DEF IsRun, Halves
  <2>5. /\ RunsTyped' /\ RunsFine' /\ Apart' /\ v6'[u] = r
        /\ \A x \in SecretsGiven.Users \ {u} : v6'[x] = v6[x]
    BY <1>1, <1>2, <2>1, <2>3, <2>4, RunMoves
  <2>6. Held'
    BY <1>1, <2>1, <2>5, HeldStays
  <2>7. Secrets!BeginStep
    BY <2>1, <2>5 DEF Secrets!BeginStep
  <2> QED  BY <1>1, <1>2, <2>5, <2>6, <2>7 DEF SecretsInv, SecretsTyped, NotesTyped
<1>3. CASE v3' = [v3 EXCEPT ![w] = v2[Secrets!Reads(w)]] /\ v6' = [v6 EXCEPT ![u].todo = @ \ {w}]
  <2> DEFINE r == [v6[u] EXCEPT !.todo = v6[u].todo \ {w}, !.warned = v6[u].warned]
  <2>1. v6' = [v6 EXCEPT ![u] = r]
    <3>1. [v6[u] EXCEPT !.todo = v6[u].todo \ {w}] = r
      BY <1>1 DEF IsRun
    <3> QED  BY <1>3, <3>1 DEF SecretsInv, RunsTyped
  <2>2. v2[Secrets!Reads(w)] \in Turns
    BY DEF SecretsInv, SecretsTyped, Secrets!Reads, Secrets!Fields
  <2>3. /\ v3' \in [Secrets!Workloads -> Turns] /\ v3'[w] = v2[Secrets!Reads(w)]
        /\ \A x \in Secrets!Workloads \ {w} : v3'[x] = v3[x]
    BY <1>3, <2>2 DEF SecretsInv, SecretsTyped
  <2> HIDE DEF r
  <2> QED  BY <1>2, <2>1, <2>3 DEF r
<1>4. CASE v3' = v3 /\ v6' = [v6 EXCEPT ![u].todo = @ \ {w}, ![u].warned = Secrets!Warning(u, w)]
  <2> DEFINE warned == v6[u].warned \union {w}
             r == [v6[u] EXCEPT !.todo = v6[u].todo \ {w}, !.warned = warned]
  <2>1. v6' = [v6 EXCEPT ![u] = r]
    BY <1>4 DEF SecretsInv, RunsTyped, Secrets!Warning
  <2>2. v6[u].warned \subseteq warned /\ w \in warned /\ v3' \in [Secrets!Workloads -> Turns]
    BY <1>4 DEF SecretsInv, SecretsTyped
  <2> HIDE DEF warned
  <2> QED  BY <1>2, <1>4, <2>1, <2>2
<1> QED  BY <1>3, <1>4 DEF Secrets!RestartReader

(* A request answers or is given up; what it was is forgotten.             *)
LEMMA LeaveStep ==
  ASSUME SecretsInv, NEW u \in SecretsGiven.Users, v6[u].step # "restart",
         v6' = [v6 EXCEPT ![u] = Secrets!NoReq], UNCHANGED <<v1, v2, v3, v4, v5, v7>>
  PROVE  SecretsInv' /\ Secrets!BeginStep
<1>1. /\ RunsTyped' /\ RunsFine' /\ Apart' /\ v6'[u] = Secrets!NoReq
      /\ \A w \in SecretsGiven.Users \ {u} : v6'[w] = v6[w]
  BY NoReqIsRun, RunMoves DEF Follows, Halves
<1>2. Held'
  BY <1>1, HeldStays
<1>3. Secrets!BeginStep
  BY <1>1, NoReqIsRun DEF Secrets!BeginStep
<1> QED  BY <1>1, <1>2, <1>3 DEF SecretsInv, SecretsTyped, NotesTyped

(* A rotation or an apply whose targets are all through is noted.          *)
LEMMA NoteStep ==
  ASSUME SecretsInv, NEW u \in SecretsGiven.Users, Secrets!Note(u) \/ Secrets!Applied(u)
  PROVE  SecretsInv' /\ Secrets!BeginStep
<1> DEFINE r == [v6[u] EXCEPT !.step = "answer"]
<1>1. /\ v6[u].step \in {"restart", "apply"} /\ v6[u].todo = {} /\ UNCHANGED <<v1, v2, v3, v5, v7>>
      /\ v6' = [v6 EXCEPT ![u].step = "answer"]
      /\ IsRun(v6[u]) /\ Follows(v6[u], v3, v2) /\ Halves(v6[u], v5)
  BY DEF Secrets!Note, Secrets!Applied, SecretsInv, RunsFine
<1>2. /\ r \in [step : {"none", "dialog", "write", "restart", "apply", "answer"}, key : Asks,
                value : Turns, todo : {r.todo}, warned : {r.warned}, alone : BOOLEAN]
      /\ r.step = "answer" /\ r.key = v6[u].key /\ r.value = v6[u].value
      /\ r.todo = v6[u].todo /\ r.alone = v6[u].alone /\ r.warned = v6[u].warned
  BY <1>1 DEF IsRun
<1>3. v6' = [v6 EXCEPT ![u] = r]
  BY <1>1 DEF SecretsInv, RunsTyped
<1>4. NotesTyped' /\ v4'.audit = v4.audit \union {v6[u].value}
  <2>1. v6[u].value \in Turns
    BY <1>1 DEF IsRun
  <2>2. CASE Secrets!Note(u)
    <3>1. v6[u].key \in Secrets!Keys
      BY <1>1, <2>2 DEF IsRun, Secrets!Note
    <3>2. v4' = [rotated  |-> [v4.rotated EXCEPT ![v6[u].key] = v6[u].value],
                 audit    |-> v4.audit \union {v6[u].value}, profiles |-> v4.profiles]
      BY <2>2 DEF Secrets!Note, Secrets!Noted, SecretsInv, NotesTyped
    <3>3. [v4.rotated EXCEPT ![v6[u].key] = v6[u].value] \in [Secrets!Keys -> Turns]
      BY <2>1, <3>1 DEF SecretsInv, NotesTyped
    <3> QED  BY <2>1, <3>2, <3>3 DEF SecretsInv, NotesTyped
  <2>3. CASE Secrets!Applied(u)
    BY <2>1, <2>3 DEF Secrets!Applied, SecretsInv, NotesTyped
  <2> QED  BY <2>2, <2>3
<1> HIDE DEF r
<1>5. Follows(r, v3, v2) /\ Halves(r, v5)
  <2>1. Secrets!Keys \intersect Secrets!Names = {}
    BY DEF Secrets!Keys, Secrets!Names
  <2> QED  BY <1>1, <1>2, <2>1 DEF IsRun, Follows, Halves
<1>6. IsRun(r)
  BY <1>1, <1>2 DEF IsRun
<1>7. /\ RunsTyped' /\ RunsFine' /\ Apart' /\ v6'[u] = r
      /\ \A w \in SecretsGiven.Users \ {u} : v6'[w] = v6[w]
  BY <1>1, <1>2, <1>3, <1>5, <1>6, RunMoves
<1>8. Held'
  BY <1>1, <1>4, <1>7, HeldStays
<1>9. Secrets!BeginStep
  BY <1>2, <1>7 DEF Secrets!BeginStep
<1> QED  BY <1>1, <1>4, <1>7, <1>8, <1>9 DEF SecretsInv, SecretsTyped

(* The console goes down, or the box is switched: requests are lost with   *)
(* the one, and the other brings servers back with what the Secret holds.  *)
LEMMA BoxStep ==
  ASSUME SecretsInv, Secrets!Die \/ Secrets!Switch
  PROVE  SecretsInv' /\ Secrets!BeginStep
<1>0. \A w \in Secrets!Workloads : v2[Secrets!Reads(w)] \in Turns
  BY DEF SecretsInv, SecretsTyped, Secrets!Reads, Secrets!Fields
<1>1. CASE Secrets!Die
  <2>1. /\ v7' \in [paused : BOOLEAN, turns : 1 .. SecretsGiven.MaxTurns, deaths : Nat]
        /\ v7'.deaths > 0
    <3>1. /\ v7.turns + 1 \in 1 .. SecretsGiven.MaxTurns /\ v7.deaths + 1 \in Nat
          /\ v7.deaths + 1 > 0 /\ v7.paused \in BOOLEAN
      BY <1>1, SecretsAssumption DEF Secrets!Die, Secrets!May, SecretsInv, SecretsTyped
    <3>2. v7' = [paused |-> v7.paused, turns |-> v7.turns + 1, deaths |-> v7.deaths + 1]
      BY <1>1 DEF Secrets!Die, SecretsInv, SecretsTyped
    <3> QED  BY <3>1, <3>2
  <2>2. v3' \in [Secrets!Workloads -> Turns]
    BY <1>0, <1>1 DEF Secrets!Die, SecretsInv, SecretsTyped, Secrets!Workloads, Secrets!Reads
  <2>3. \A u \in SecretsGiven.Users : v6'[u] = Secrets!NoReq
    BY <1>1 DEF Secrets!Die
  <2>4. RunsTyped' /\ RunsFine' /\ Apart' /\ Secrets!BeginStep
    BY <1>1, <2>3, NoReqIsRun
    DEF Secrets!Die, RunsTyped, RunsFine, Apart, Follows, Halves, Secrets!BeginStep
  <2> QED  BY <1>1, <2>1, <2>2, <2>4 DEF Secrets!Die, SecretsInv, SecretsTyped, NotesTyped, Held
<1>2. CASE Secrets!Switch
  <2>1. /\ v7' \in [paused : BOOLEAN, turns : 1 .. SecretsGiven.MaxTurns, deaths : Nat]
        /\ v7'.deaths = v7.deaths
    <3>1. v7.turns + 1 \in 1 .. SecretsGiven.MaxTurns /\ v7.deaths \in Nat
      BY <1>2, SecretsAssumption DEF Secrets!Switch, Secrets!May, SecretsInv, SecretsTyped
    <3>2. v7' = [paused |-> ~v7.paused, turns |-> v7.turns + 1, deaths |-> v7.deaths]
      BY <1>2 DEF Secrets!Switch, SecretsInv, SecretsTyped
    <3> QED  BY <3>1, <3>2
  <2>2. /\ v3' \in [Secrets!Workloads -> Turns]
        /\ \A w \in Secrets!Workloads : v3'[w] \in {v3[w], v2[Secrets!Reads(w)]}
    BY <1>0, <1>2 DEF Secrets!Switch, SecretsInv, SecretsTyped
  <2>3. UNCHANGED <<v1, v2, v4, v5, v6>>
    BY <1>2 DEF Secrets!Switch
  <2>4. \A key : Secrets!Targets(key) \subseteq Secrets!Workloads
    BY DEF Secrets!Targets, Secrets!Workloads
  <2>5. RunsFine'
    BY <2>2, <2>3, <2>4 DEF SecretsInv, RunsFine, Follows
  <2>6. RunsTyped' /\ Apart' /\ Secrets!BeginStep /\ Held'
    BY <2>1, <2>3 DEF SecretsInv, RunsTyped, Apart, Secrets!BeginStep, Held
  <2> QED  BY <2>1, <2>2, <2>3, <2>5, <2>6 DEF SecretsInv, SecretsTyped, NotesTyped
<1> QED  BY <1>1, <1>2

(* Profiles are saved, copied and deleted beside what runs.                *)
LEMMA ProfilesStep ==
  ASSUME SecretsInv, \/ Secrets!Duplicate
                     \/ \E n \in Secrets!Names : Secrets!SaveProfile(n) \/ Secrets!Delete(n)
  PROVE  SecretsInv' /\ Secrets!BeginStep
<1>1. Secrets!Turn /\ UNCHANGED <<v1, v2, v3, v5, v6>>
  BY DEF Secrets!Duplicate, Secrets!SaveProfile, Secrets!Delete
<1>2. NotesTyped' /\ v4'.audit = v4.audit
  <2>1. ASSUME NEW n \in Secrets!Names, NEW x \in Turns, v4' = [v4 EXCEPT !.profiles[n] = x]
        PROVE  NotesTyped' /\ v4'.audit = v4.audit
    <3>1. [v4.profiles EXCEPT ![n] = x] \in [Secrets!Names -> Turns]
      BY <2>1 DEF SecretsInv, NotesTyped
    <3>2. v4' = [rotated |-> v4.rotated, audit |-> v4.audit, profiles |-> [v4.profiles EXCEPT ![n] = x]]
      BY <2>1 DEF SecretsInv, NotesTyped
    <3> QED  BY <3>1, <3>2 DEF SecretsInv, NotesTyped
  <2>2. "scene-copy" \in Secrets!Names /\ v4.profiles["scene"] \in Turns /\ 0 \in Turns
    BY SecretsAssumption DEF SecretsInv, NotesTyped, Secrets!Names, Turns
  <2>3. Secrets!Number \in Turns
    BY <1>1, TurnTyped
  <2>4. CASE Secrets!Duplicate
    BY <2>1, <2>2, <2>4 DEF Secrets!Duplicate
  <2>5. ASSUME NEW n \in Secrets!Names, Secrets!SaveProfile(n) \/ Secrets!Delete(n)
        PROVE  NotesTyped' /\ v4'.audit = v4.audit
    BY <2>1, <2>2, <2>3, <2>5 DEF Secrets!SaveProfile, Secrets!Delete
  <2> QED  BY <2>4, <2>5
<1>3. SecretsTyped' /\ v7'.deaths = v7.deaths
  BY <1>1, TurnTyped DEF SecretsInv, SecretsTyped
<1>4. RunsTyped' /\ RunsFine' /\ Apart' /\ Secrets!BeginStep
  BY <1>1 DEF SecretsInv, RunsTyped, RunsFine, Apart, Secrets!BeginStep, Follows
<1>5. Held'
  BY <1>1, <1>2, <1>3, HeldStays
<1> QED  BY <1>2, <1>3, <1>4, <1>5 DEF SecretsInv

LEMMA OpenStep ==
  ASSUME SecretsInv, NEW u \in SecretsGiven.Users, NEW n \in Secrets!Names, Secrets!Open(u, n)
  PROVE  SecretsInv' /\ Secrets!BeginStep
<1> DEFINE r == [Secrets!NoReq EXCEPT !.step = "dialog", !.key = n, !.value = v4.profiles[n]]
<1>1. /\ v6[u].step = "none" /\ Secrets!Turn /\ v6' = [v6 EXCEPT ![u] = r]
      /\ UNCHANGED <<v1, v2, v3, v4, v5>>
  BY DEF Secrets!Open, Secrets!Idle
<1>2. IsRun(r) /\ ~r.alone /\ r.step = "dialog"
  <2>1. v4.profiles[n] \in Turns
    BY DEF SecretsInv, NotesTyped
  <2>2. /\ r \in [step : {"none", "dialog", "write", "restart", "apply", "answer"}, key : Asks,
                  value : Turns, todo : {r.todo}, warned : {r.warned}, alone : BOOLEAN]
        /\ r.step = "dialog" /\ r.key = n /\ ~r.alone
    BY <2>1 DEF Asks, Secrets!NoReq
  <2> HIDE DEF r
  <2> QED  BY <2>2 DEF IsRun
<1> HIDE DEF r
<1>3. /\ RunsTyped' /\ RunsFine' /\ Apart' /\ v6'[u] = r
      /\ \A w \in SecretsGiven.Users \ {u} : v6'[w] = v6[w]
  BY <1>1, <1>2, RunMoves DEF Follows, Halves
<1>4. SecretsTyped' /\ NotesTyped' /\ v7'.deaths = v7.deaths
  BY <1>1, TurnTyped DEF SecretsInv, SecretsTyped, NotesTyped
<1>5. Held'
  BY <1>1, <1>3, <1>4, HeldStays
<1>6. Secrets!BeginStep
  BY <1>1, <1>2, <1>3 DEF Secrets!BeginStep
<1> QED  BY <1>3, <1>4, <1>5, <1>6 DEF SecretsInv

LEMMA ConfirmStep ==
  ASSUME SecretsInv, NEW u \in SecretsGiven.Users, Secrets!Confirm(u)
  PROVE  SecretsInv' /\ Secrets!BeginStep
<1> DEFINE n == v6[u].key
           r == [step |-> "apply", key |-> n, value |-> v4.profiles[n], todo |-> Secrets!PartSet,
                 warned |-> {},
                 alone |-> \A v \in SecretsGiven.Users \ {u} : v6[v].step \in {"none", "dialog"}]
<1>1. v6[u].step = "dialog" /\ UNCHANGED <<v1, v2, v3, v4, v5, v7>> /\ n \in Secrets!Names
  BY DEF Secrets!Confirm, SecretsInv, RunsFine, IsRun
<1>2. CASE v6' = [v6 EXCEPT ![u] = Secrets!NoReq]
  BY <1>1, <1>2, LeaveStep
<1>3. CASE ~v7.paused /\ v6' = [Secrets!Crowded EXCEPT ![u] = r]
  <2>1. v4.profiles[n] \in Turns /\ r.alone \in BOOLEAN
    BY <1>1 DEF SecretsInv, NotesTyped
  <2>2. /\ r \in [step : {"none", "dialog", "write", "restart", "apply", "answer"}, key : Asks,
                  value : Turns, todo : {r.todo}, warned : {r.warned}, alone : BOOLEAN]
        /\ r.step = "apply" /\ r.key = n /\ r.todo = Secrets!PartSet
        /\ r.alone => \A w \in SecretsGiven.Users \ {u} : v6[w].step \in {"none", "dialog"}
    <3> HIDE DEF n
    <3> QED  BY <1>1, <2>1 DEF Asks
  <2> HIDE DEF r
  <2>3. IsRun(r) /\ Follows(r, v3', v2') /\ Halves(r, v5')
    BY <1>1, <2>2 DEF IsRun, Follows, Halves
  <2>4. /\ RunsTyped' /\ RunsFine' /\ Apart' /\ v6'[u] = r
        /\ \A w \in SecretsGiven.Users \ {u} : v6'[w].step = v6[w].step /\ v6'[w].value = v6[w].value
    BY <1>3, <2>2, <2>3, RunBegins
  <2>5. Held'
    BY <1>1, <2>4, HeldStays
  <2> QED  BY <1>1, <1>3, <2>4, <2>5 DEF SecretsInv, SecretsTyped, NotesTyped, Secrets!BeginStep
<1> QED  BY <1>2, <1>3 DEF Secrets!Confirm, Secrets!BoxIsHere

PartGoes(q, r, gone, warned) ==
  /\ r \in [step : {"none", "dialog", "write", "restart", "apply", "answer"}, key : Asks,
            value : Turns, todo : {r.todo}, warned : {r.warned}, alone : BOOLEAN]
  /\ r.step = q.step /\ r.key = q.key /\ r.value = q.value
  /\ r.todo = q.todo \ gone /\ r.alone = q.alone /\ r.warned = warned
LEMMA PartsGo ==
  ASSUME NEW q, IsRun(q), NEW gone, NEW warned
  PROVE  /\ PartGoes(q, [q EXCEPT !.todo = @ \ gone], gone, q.warned)
         /\ PartGoes(q, [q EXCEPT !.todo = @ \ gone, !.warned = warned], gone, warned)
BY DEF IsRun, PartGoes

(* A part is in force, or it and what is attempted with it are named.      *)
LEMMA ApplyPartStep ==
  ASSUME SecretsInv, NEW u \in SecretsGiven.Users, Secrets!ApplyPart(u)
  PROVE  SecretsInv' /\ Secrets!BeginStep
<1>1. /\ v6[u].step = "apply" /\ UNCHANGED <<v1, v2, v3, v4, v7>>
      /\ IsRun(v6[u]) /\ Halves(v6[u], v5)
  BY DEF Secrets!ApplyPart, SecretsInv, RunsFine
<1>2. ASSUME NEW gone, NEW warned, NEW r, PartGoes(v6[u], r, gone, warned),
             v6' = [v6 EXCEPT ![u] = r], v5' \in [Secrets!PartSet -> Turns],
             v6[u].warned \subseteq warned,
             \A p \in Secrets!PartSet : /\ p \in gone => p \in warned \/ v5'[p] = v6[u].value
                                        /\ v5'[p] = v5[p] \/ v5'[p] = v6[u].value
      PROVE  SecretsInv' /\ Secrets!BeginStep
  <2>1. /\ r \in [step : {"none", "dialog", "write", "restart", "apply", "answer"}, key : Asks,
                  value : Turns, todo : {r.todo}, warned : {r.warned}, alone : BOOLEAN]
        /\ r.step = "apply" /\ r.key = v6[u].key /\ r.value = v6[u].value
        /\ r.todo = v6[u].todo \ gone /\ r.alone = v6[u].alone /\ r.warned = warned
    BY <1>1, <1>2 DEF PartGoes
  <2>2. IsRun(r) /\ Follows(r, v3', v2')
    BY <1>1, <2>1 DEF IsRun, Follows
  <2>3. Halves(r, v5')
    BY <1>1, <1>2, <2>1 DEF Halves
  <2>4. /\ RunsTyped' /\ RunsFine' /\ Apart' /\ v6'[u] = r
        /\ \A x \in SecretsGiven.Users \ {u} : v6'[x] = v6[x]
    BY <1>1, <1>2, <2>1, <2>2, <2>3, RunMoves
  <2>5. Held'
    BY <1>1, <2>4, HeldStays
  <2>6. Secrets!BeginStep
    BY <1>1, <2>4 DEF Secrets!BeginStep
  <2> QED  BY <1>1, <1>2, <2>4, <2>5, <2>6 DEF SecretsInv, SecretsTyped, NotesTyped
<1> DEFINE p == Secrets!NextPart(u)
<1>3. CASE v5' = [v5 EXCEPT ![p] = v6[u].value] /\ v6' = [v6 EXCEPT ![u].todo = @ \ {p}]
  <2> HIDE DEF p
  <2> DEFINE r == [v6[u] EXCEPT !.todo = @ \ {p}]
  <2>1. v6' = [v6 EXCEPT ![u] = r]
    BY <1>3 DEF SecretsInv, RunsTyped
  <2>2. /\ v5' \in [Secrets!PartSet -> Turns]
        /\ \A q \in Secrets!PartSet : /\ q \in {p} => v5'[q] = v6[u].value
                                      /\ v5'[q] = v5[q] \/ v5'[q] = v6[u].value
    BY <1>1, <1>3 DEF SecretsInv, SecretsTyped, IsRun
  <2>3. PartGoes(v6[u], r, {p}, v6[u].warned)
    BY <1>1, PartsGo
  <2> HIDE DEF r
  <2> QED  BY <1>2, <2>1, <2>2, <2>3
<1>4. CASE /\ v6' = [v6 EXCEPT ![u].todo = @ \ Secrets!Attempt(p), ![u].warned = Secrets!Failed(u, p)]
           /\ v5' = v5
  <2> DEFINE gone == Secrets!Attempt(p)
             warned == v6[u].warned \union gone
             r == [v6[u] EXCEPT !.todo = @ \ gone, !.warned = warned]
  <2>1. v6' = [v6 EXCEPT ![u] = r]
    <3> HIDE DEF p
    <3> QED  BY <1>4 DEF SecretsInv, RunsTyped, Secrets!Failed
  <2>2. v6[u].warned \subseteq warned /\ gone \subseteq warned /\ v5' \in [Secrets!PartSet -> Turns]
    BY <1>4 DEF SecretsInv, SecretsTyped
  <2>3. PartGoes(v6[u], r, gone, warned)
    <3> HIDE DEF gone, warned
    <3> QED  BY <1>1, PartsGo
  <2> HIDE DEF r, warned, gone
  <2> QED  BY <1>2, <1>4, <2>1, <2>2, <2>3
<1> QED  BY <1>3, <1>4 DEF Secrets!ApplyPart

(* Every step keeps the invariant, and nothing is applied while the box is *)
(* away.                                                                   *)
LEMMA SecretsStep ==
  ASSUME SecretsInv, [Secrets!Next]_(Secrets!vars)
  PROVE  SecretsInv' /\ (Secrets!Next => Secrets!BeginStep)
<1>1. CASE UNCHANGED Secrets!vars /\ ~Secrets!Next
  <2>1. UNCHANGED <<v1, v2, v3, v4, v5, v6, v7>>
    BY <1>1 DEF Secrets!vars
  <2>2. SecretsTyped' /\ NotesTyped' /\ RunsTyped'
    BY <2>1 DEF SecretsInv, SecretsTyped, NotesTyped, RunsTyped
  <2>3. RunsFine' /\ Apart' /\ Held'
    BY <2>1 DEF SecretsInv, RunsFine, Apart, Held
  <2> QED  BY <1>1, <2>2, <2>3 DEF SecretsInv
<1>2. ASSUME NEW u \in SecretsGiven.Users, Secrets!Answer(u)
      PROVE  SecretsInv' /\ Secrets!BeginStep
  BY <1>2, LeaveStep DEF Secrets!Answer
<1>3. CASE Secrets!Next
  BY <1>2, <1>3, WriteSecretStep, NoteStep, ConfirmStep, ApplyPartStep, RotateStep,
     RestartReaderStep, OpenStep, BoxStep, ProfilesStep DEF Secrets!Next
<1> QED  BY <1>1, <1>3

--------------------------------------------------------------------------------
(* The tuning page (api/tuning): v1 the view, v2 the components' ConfigMaps, *)
(* v3 what they were started with, v4 the forms, v5 the requests, v6 the   *)
(* rules.                                                                  *)

TuningMap  == [mode : {"always", "event"}, drop : BOOLEAN, own : {"sensor", "stream"}, version : Nat]
TuningForm == [there : BOOLEAN, data : Tuning!Values, local : Tuning!Values,
               dialog : {"closed", "open", "saving", "saved", "failed"}]
TuningReq  == [step : {"none", "read1", "write1", "read2", "write2", "restart1", "restart2", "answer"},
               patch : Tuning!Values, read : Nat, alone : BOOLEAN]
TuningRules == [live : [TuningGiven.Rules -> {"old", "new", "gone", "none", "there"}],
                doc : {"old", "new"}, saving : BOOLEAN, began : SUBSET TuningGiven.Rules,
                todo : SUBSET TuningGiven.Rules, warned : SUBSET TuningGiven.Rules,
                turns : 0 .. TuningGiven.MaxTurns]

MapsTyped  == v2 \in [Tuning!Parts -> TuningMap]
FormsTyped == v4 \in [TuningGiven.Users -> TuningForm]
ReqsTyped  == v5 \in [TuningGiven.Users -> TuningReq]

(* A request that runs alone has brought its patch as far as it has come.  *)
Reached(q, maps, pods) ==
  /\ q.step \in {"read2", "write2", "restart1", "restart2", "answer"} =>
       Tuning!Tuned(maps["sensor"]) = q.patch
  /\ q.step \in {"restart1", "restart2", "answer"} => Tuning!Tuned(maps["stream"]) = q.patch
  /\ q.step \in {"restart2", "answer"} => pods["sensor"] = q.patch
  /\ q.step = "answer" => pods["stream"] = q.patch
RunsAlone ==
  \A u \in TuningGiven.Users : v5[u].alone =>
    /\ \A w \in TuningGiven.Users \ {u} : v5[w].step = "none"
    /\ Reached(v5[u], v2, v3)

(* A rule that was live is still to be posted, live, or named.             *)
RulesHeld == v6.saving =>
  \A r \in v6.began : r \in v6.todo \/ v6.live[r] # "none" \/ r \in v6.warned

TuningInv ==
  /\ v1 \in {"vst", "sampling"} /\ MapsTyped /\ v3 \in [Tuning!Parts -> Tuning!Values]
  /\ FormsTyped /\ ReqsTyped /\ v6 \in TuningRules /\ RunsAlone /\ RulesHeld

LEMMA TuningParts == Tuning!Parts = {"sensor", "stream"}
BY DEF Tuning!Parts, Tuning!Targets

(* What is typed in a field of a form is brought into its bounds.          *)
LEMMA ClampedFits ==
  ASSUME NEW n \in Int, NEW lo \in Nat, NEW hi \in Nat, NEW default \in lo .. hi
  PROVE  /\ Tuning!Clamped(n, lo, hi, default) \in lo .. hi
         /\ n \in lo .. hi /\ n # 0 => Tuning!Clamped(n, lo, hi, default) = n
         /\ n > hi => Tuning!Clamped(n, lo, hi, default) = hi
BY DEF Tuning!Clamped

LEMMA FormsFit == Tuning!FormsSendWhatRoutesTake
<1>1. ASSUME NEW f \in Tuning!SamplingFields \union Tuning!RtviFields \union Tuning!VstFields
      PROVE  /\ f.lo \in Nat /\ f.hi \in Nat /\ f.default \in f.lo .. f.hi
             /\ f.min \in Nat /\ f.max \in Nat /\ f.min <= f.lo /\ f.hi <= f.max
  <2>1. CASE f \in Tuning!SamplingFields
    BY <2>1 DEF Tuning!SamplingFields
  <2>2. CASE f \in Tuning!RtviFields
    BY <2>2 DEF Tuning!RtviFields
  <2>3. CASE f \in Tuning!VstFields
    BY <2>3 DEF Tuning!VstFields
  <2> QED  BY <2>1, <2>2, <2>3
<1>2. Tuning!Typed \subseteq Int
  BY DEF Tuning!Typed
<1> SUFFICES ASSUME NEW f \in Tuning!SamplingFields \union Tuning!RtviFields \union Tuning!VstFields,
                    NEW n \in Tuning!Typed
             PROVE  /\ Tuning!Clamped(n, f.lo, f.hi, f.default) \in f.min .. f.max
                    /\ n \in f.lo .. f.hi /\ n # 0 => Tuning!Clamped(n, f.lo, f.hi, f.default) = n
                    /\ n > f.hi => Tuning!Clamped(n, f.lo, f.hi, f.default) = f.hi
  BY DEF Tuning!FormsSendWhatRoutesTake
<1>3. /\ Tuning!Clamped(n, f.lo, f.hi, f.default) \in f.lo .. f.hi
      /\ n \in f.lo .. f.hi /\ n # 0 => Tuning!Clamped(n, f.lo, f.hi, f.default) = n
      /\ n > f.hi => Tuning!Clamped(n, f.lo, f.hi, f.default) = f.hi
  BY <1>1, <1>2, ClampedFits
<1>4. Tuning!Clamped(n, f.lo, f.hi, f.default) \in f.min .. f.max
  BY <1>1, <1>3
<1> QED  BY <1>3, <1>4

LEMMA CooldownsFit == Tuning!CooldownNeverShortens
<1> SUFFICES ASSUME NEW cooldowns \in SUBSET {0, 30, 120}, NEW c \in cooldowns
             PROVE  c <= Tuning!ShownCooldown(cooldowns)
  BY DEF Tuning!CooldownNeverShortens, Tuning!SavedCooldowns
<1>1. cooldowns \in SUBSET (0 .. 120) /\ cooldowns # {}
  OBVIOUS
<1>2. \E m \in cooldowns : \A d \in cooldowns : d <= m
  BY <1>1, HasGreatest
<1> QED  BY <1>1, <1>2 DEF Tuning!ShownCooldown

LEMMA TuningPromise ==
  TuningInv => /\ Tuning!TypeOK /\ Tuning!LostIsNamed /\ Tuning!FormsSendWhatRoutesTake
               /\ Tuning!CooldownNeverShortens
<1> SUFFICES ASSUME TuningInv PROVE Tuning!TypeOK /\ Tuning!LostIsNamed
  BY FormsFit, CooldownsFit
<1>1. Tuning!TypeOK
  BY DEF TuningInv, TuningRules, FormsTyped, TuningForm, Tuning!TypeOK
<1>2. Tuning!LostIsNamed
  BY DEF TuningInv, TuningRules, RulesHeld, Tuning!LostIsNamed, Tuning!Alive
<1> QED  BY <1>1, <1>2

LEMMA TuningStart == Tuning!Init => TuningInv
<1> SUFFICES ASSUME Tuning!Init PROVE TuningInv
  OBVIOUS
<1> USE TuningAssumption DEF Tuning!Init
<1>1. Tuning!Now \in Tuning!Values
  BY DEF Tuning!Now, Tuning!Values
<1>2. MapsTyped /\ v3 \in [Tuning!Parts -> Tuning!Values]
  BY <1>1, TuningParts DEF MapsTyped, TuningMap
<1>3. FormsTyped /\ ReqsTyped /\ RunsAlone
  BY <1>1 DEF FormsTyped, ReqsTyped, RunsAlone, TuningForm, TuningReq, Tuning!NoForm, Tuning!NoReq
<1>4. v6 \in TuningRules /\ RulesHeld
  BY DEF TuningRules, RulesHeld
<1> QED  BY <1>2, <1>3, <1>4 DEF TuningInv

TuningKeeps == Tuning!MapStep /\ Tuning!SaveStep /\ Tuning!TypedStep

(* A turn goes by; the rules stay.                                         *)
LEMMA TuningTurn ==
  ASSUME TuningInv, v6' = v6 \/ Tuning!Turn
  PROVE  v6' \in TuningRules /\ RulesHeld'
<1>1. CASE v6' = v6
  BY <1>1 DEF TuningInv, RulesHeld
<1>2. CASE Tuning!Turn
  <2>1. v6' = [v6 EXCEPT !.turns = @ + 1] /\ v6.turns + 1 \in 0 .. TuningGiven.MaxTurns
    BY <1>2, TuningAssumption DEF Tuning!Turn, TuningInv, TuningRules
  <2>2. v6' \in TuningRules /\ v6'.saving = v6.saving /\ v6'.began = v6.began /\ v6'.todo = v6.todo
        /\ v6'.live = v6.live /\ v6'.warned = v6.warned
    BY <2>1 DEF TuningInv, TuningRules
  <2> QED  BY <2>2 DEF TuningInv, RulesHeld
<1> QED  BY <1>1, <1>2

(* The forms are loaded and edited, and dialogs opened and closed.         *)
LEMMA FormsStep ==
  ASSUME TuningInv, NEW u \in TuningGiven.Users,
         \/ Tuning!Load(u) \/ Tuning!Open(u) \/ Tuning!Cancel(u)
         \/ \E value \in Tuning!Values : Tuning!Edit(u, value)
  PROVE  TuningInv' /\ TuningKeeps
<1>1. UNCHANGED <<v1, v2, v3, v5>> /\ (v6' = v6 \/ Tuning!Turn)
  BY DEF Tuning!Load, Tuning!Open, Tuning!Cancel, Tuning!Edit
<1>2. v4[u] \in TuningForm /\ v4 \in [TuningGiven.Users -> TuningForm]
  BY DEF TuningInv, FormsTyped
<1>3. \E f \in TuningForm : /\ v4' = [v4 EXCEPT ![u] = f]
                            /\ v4[u].there /\ f.local # v4[u].local =>
                                 v4[u].dialog \in {"closed", "open"} /\ f.data = v4[u].data
  <2>1. CASE Tuning!Load(u)
    <3>1. Tuning!Tuned(v2["sensor"]) \in Tuning!Values
      BY TuningParts DEF TuningInv, MapsTyped, TuningMap, Tuning!Tuned, Tuning!Values
    <3> DEFINE f == Tuning!Seeded(u, Tuning!Tuned(v2["sensor"]))
    <3>2. f \in TuningForm /\ (v4[u].there => f.local = v4[u].local)
      BY <1>2, <3>1 DEF TuningForm, Tuning!Seeded
    <3> QED  BY <2>1, <3>2 DEF Tuning!Load
  <2>2. CASE Tuning!Open(u)
    <3> DEFINE f == [v4[u] EXCEPT !.dialog = "open"]
    <3>1. f \in TuningForm /\ f.local = v4[u].local /\ v4' = [v4 EXCEPT ![u] = f]
      BY <1>2, <2>2 DEF TuningForm, Tuning!Open
    <3> QED  BY <3>1
  <2>3. CASE Tuning!Cancel(u)
    <3> DEFINE f == [v4[u] EXCEPT !.dialog = "closed"]
    <3>1. f \in TuningForm /\ f.local = v4[u].local /\ v4' = [v4 EXCEPT ![u] = f]
      BY <1>2, <2>3 DEF TuningForm, Tuning!Cancel
    <3> QED  BY <3>1
  <2>4. ASSUME NEW value \in Tuning!Values, Tuning!Edit(u, value)
        PROVE  \E f \in TuningForm : /\ v4' = [v4 EXCEPT ![u] = f]
                                     /\ v4[u].there /\ f.local # v4[u].local =>
                                          v4[u].dialog \in {"closed", "open"} /\ f.data = v4[u].data
    <3> DEFINE f == [v4[u] EXCEPT !.local = value]
    <3>1. f \in TuningForm /\ f.data = v4[u].data /\ v4' = [v4 EXCEPT ![u] = f]
          /\ v4[u].dialog \in {"closed", "open"}
      BY <1>2, <2>4 DEF TuningForm, Tuning!Edit
    <3> QED  BY <3>1
  <2> QED  BY <2>1, <2>2, <2>3, <2>4
<1>4. PICK f \in TuningForm : /\ v4' = [v4 EXCEPT ![u] = f]
                              /\ v4[u].there /\ f.local # v4[u].local =>
                                   v4[u].dialog \in {"closed", "open"} /\ f.data = v4[u].data
  BY <1>3
<1>5. FormsTyped' /\ Tuning!TypedStep
  BY <1>2, <1>4 DEF FormsTyped, Tuning!TypedStep
<1>6. Tuning!MapStep /\ Tuning!SaveStep
  BY <1>1 DEF Tuning!MapStep, Tuning!SaveStep
<1>7. v6' \in TuningRules /\ RulesHeld'
  BY <1>1, TuningTurn
<1>8. MapsTyped' /\ ReqsTyped' /\ RunsAlone'
  BY <1>1 DEF TuningInv, MapsTyped, ReqsTyped, RunsAlone
<1> QED  BY <1>1, <1>5, <1>6, <1>7, <1>8 DEF TuningInv, TuningKeeps

(* Nobody is alone any more, with the steps they are at.                   *)
LEMMA NobodyAlone ==
  ASSUME ReqsTyped
  PROVE  /\ Tuning!NotAlone \in [TuningGiven.Users -> TuningReq]
         /\ \A w \in TuningGiven.Users : /\ ~Tuning!NotAlone[w].alone
                                         /\ Tuning!NotAlone[w].step = v5[w].step
BY DEF ReqsTyped, TuningReq, Tuning!NotAlone

LEMMA ConfirmTuning ==
  ASSUME TuningInv, NEW u \in TuningGiven.Users, Tuning!Confirm(u)
  PROVE  TuningInv' /\ TuningKeeps
<1> DEFINE U == TuningGiven.Users
           q == [step |-> "read1", patch |-> v4[u].local, read |-> 0,
                 alone |-> \A v \in U : v5[v].step = "none"]
           f == [v4[u] EXCEPT !.dialog = "saving"]
<1>1. /\ UNCHANGED <<v1, v2, v3>> /\ Tuning!Turn
      /\ v4 \in [U -> TuningForm] /\ v4' = [v4 EXCEPT ![u] = f]
      /\ v5' = [Tuning!NotAlone EXCEPT ![u] = q]
  BY DEF Tuning!Confirm, TuningInv, FormsTyped
<1>2. f \in TuningForm /\ f.local = v4[u].local
  BY <1>1 DEF TuningForm
<1>3. q \in TuningReq /\ q.step = "read1" /\ (q.alone => \A v \in U : v5[v].step = "none")
  <2>1. v4[u].local \in Tuning!Values
    BY <1>1 DEF TuningForm
  <2>2. (\A v \in U : v5[v].step = "none") \in BOOLEAN
    OBVIOUS
  <2> QED  BY <2>1, <2>2 DEF TuningReq
<1> HIDE DEF q, f
<1>4. /\ v5' \in [U -> TuningReq] /\ v5'[u] = q
      /\ \A w \in U \ {u} : ~v5'[w].alone /\ v5'[w].step = v5[w].step
  BY <1>1, <1>3, NobodyAlone DEF TuningInv
<1>5. RunsAlone'
  BY <1>3, <1>4 DEF RunsAlone, Reached
<1>6. FormsTyped' /\ Tuning!TypedStep
  BY <1>1, <1>2 DEF FormsTyped, Tuning!TypedStep
<1>7. Tuning!MapStep /\ Tuning!SaveStep
  BY <1>1, <1>3, <1>4 DEF Tuning!MapStep, Tuning!SaveStep
<1>8. v6' \in TuningRules /\ RulesHeld'
  BY <1>1, TuningTurn
<1> QED
  BY <1>1, <1>4, <1>5, <1>6, <1>7, <1>8 DEF TuningInv, TuningKeeps, MapsTyped, ReqsTyped

(* One request takes a step and becomes q: nothing else runs while one is  *)
(* alone, so that the one has reached what it says.                        *)
LEMMA ReqMoves ==
  ASSUME TuningInv, NEW u \in TuningGiven.Users, NEW q \in TuningReq, v5[u].step # "none",
         v5' = [v5 EXCEPT ![u] = q], q.alone => v5[u].alone /\ Reached(q, v2', v3')
  PROVE  /\ ReqsTyped' /\ RunsAlone' /\ v5'[u] = q
         /\ \A w \in TuningGiven.Users \ {u} : v5'[w] = v5[w]
<1>1. /\ ReqsTyped' /\ v5'[u] = q
      /\ \A w \in TuningGiven.Users \ {u} : v5'[w] = v5[w]
  BY DEF TuningInv, ReqsTyped
<1>2. \A w \in TuningGiven.Users \ {u} : ~v5[w].alone
  BY DEF TuningInv, RunsAlone
<1>3. RunsAlone'
  BY <1>1, <1>2 DEF TuningInv, RunsAlone
<1> QED  BY <1>1, <1>3

(* A save is refused at any point, or answers and the form takes the       *)
(* answer.                                                                 *)
LEMMA EndStep ==
  ASSUME TuningInv, NEW u \in TuningGiven.Users, Tuning!Refuse(u) \/ Tuning!Answered(u)
  PROVE  TuningInv' /\ TuningKeeps
<1> DEFINE U == TuningGiven.Users
<1>1. /\ UNCHANGED <<v1, v2, v3, v6>> /\ v5[u].step # "none"
      /\ v4 \in [U -> TuningForm] /\ v5 \in [U -> TuningReq]
  BY DEF Tuning!Refuse, Tuning!Answered, Tuning!Goes, TuningInv, FormsTyped, ReqsTyped
<1>2. ASSUME NEW f \in TuningForm, NEW q \in TuningReq, v4' = [v4 EXCEPT ![u] = f],
             v5' = [v5 EXCEPT ![u] = q], f.local = v4[u].local,
             q.alone => v5[u].alone /\ Reached(q, v2, v3), q.step = "none",
             v5[u].step = "answer" \/ f.dialog # "saved"
      PROVE  TuningInv' /\ TuningKeeps
  <2>1. /\ ReqsTyped' /\ RunsAlone' /\ v5'[u] = q /\ \A w \in U \ {u} : v5'[w] = v5[w]
    BY <1>1, <1>2, ReqMoves
  <2>2. FormsTyped' /\ Tuning!TypedStep /\ v4'[u] = f /\ \A w \in U \ {u} : v4'[w] = v4[w]
    BY <1>1, <1>2 DEF FormsTyped, Tuning!TypedStep
  <2>3. Tuning!SaveStep
    <3> SUFFICES ASSUME v5[u].step = "answer", v5[u].alone, f.dialog = "saved", NEW c \in Tuning!Parts
                 PROVE  Tuning!Tuned(v2[c]) = v5[u].patch /\ v3[c] = v5[u].patch
      BY <2>1, <2>2 DEF Tuning!SaveStep
    <3>1. Reached(v5[u], v2, v3)
      BY DEF TuningInv, RunsAlone
    <3> QED  BY <3>1, TuningParts DEF Reached
  <2>4. Tuning!MapStep
    BY <1>1 DEF Tuning!MapStep
  <2> QED
    BY <1>1, <2>1, <2>2, <2>3, <2>4 DEF TuningInv, TuningKeeps, MapsTyped, RulesHeld
<1>3. CASE Tuning!Refuse(u)
  <2> DEFINE f == [v4[u] EXCEPT !.dialog = "failed"]
  <2>1. v4' = [v4 EXCEPT ![u] = f] /\ v5' = [v5 EXCEPT ![u] = Tuning!NoReq]
    BY <1>1, <1>3 DEF Tuning!Refuse
  <2>2. f \in TuningForm /\ f.local = v4[u].local /\ f.dialog = "failed"
    BY <1>1 DEF TuningForm
  <2>3. Tuning!NoReq \in TuningReq /\ ~Tuning!NoReq.alone /\ Tuning!NoReq.step = "none"
    BY DEF TuningReq, Tuning!NoReq, Tuning!Now, Tuning!Values
  <2> HIDE DEF f
  <2> QED  BY <1>2, <2>1, <2>2, <2>3
<1>4. CASE Tuning!Answered(u)
  <2> DEFINE f == [v4[u] EXCEPT !.dialog = "saved", !.data = Tuning!Tuned(v2["sensor"])]
             q == [v5[u] EXCEPT !.step = "none"]
  <2>1. v5[u].step = "answer" /\ v4' = [v4 EXCEPT ![u] = f] /\ v5' = [v5 EXCEPT ![u] = q]
    BY <1>1, <1>4 DEF Tuning!Answered, Tuning!Goes
  <2>2. f \in TuningForm /\ f.local = v4[u].local
    <3>1. Tuning!Tuned(v2["sensor"]) \in Tuning!Values
      BY TuningParts DEF TuningInv, MapsTyped, TuningMap, Tuning!Tuned, Tuning!Values
    <3> QED  BY <1>1, <3>1 DEF TuningForm
  <2>3. q \in TuningReq /\ q.step = "none" /\ q.alone = v5[u].alone
    BY <1>1 DEF TuningReq
  <2>4. Reached(q, v2, v3)
    BY <2>3 DEF Reached
  <2> HIDE DEF f, q
  <2> QED  BY <1>2, <2>1, <2>2, <2>3, <2>4
<1> QED  BY <1>3, <1>4

LEMMA ReadMapStep ==
  ASSUME TuningInv, NEW u \in TuningGiven.Users, Tuning!ReadMap(u)
  PROVE  TuningInv' /\ TuningKeeps
<1> DEFINE n == v2[Tuning!Target(v5[u].step)].version
           q == [v5[u] EXCEPT !.step = IF @ = "read1" THEN "write1" ELSE "write2", !.read = n]
<1>1. /\ UNCHANGED <<v1, v2, v3, v4, v6>> /\ v5[u].step \in {"read1", "read2"}
      /\ v5 \in [TuningGiven.Users -> TuningReq] /\ v5' = [v5 EXCEPT ![u] = q]
  BY DEF Tuning!ReadMap, TuningInv, ReqsTyped
<1>2. n \in Nat
  BY TuningParts DEF TuningInv, MapsTyped, TuningMap, Tuning!Target
<1>3. /\ q \in TuningReq /\ q.alone = v5[u].alone /\ q.patch = v5[u].patch
      /\ q.step \in {"write1", "write2"} /\ (q.step = "write2" => v5[u].step = "read2")
  <2> HIDE DEF n
  <2> QED  BY <1>1, <1>2 DEF TuningReq
<1>4. q.alone => v5[u].alone /\ Reached(q, v2', v3')
  <2> HIDE DEF q
  <2>1. v5[u].alone => Reached(v5[u], v2, v3)
    BY DEF TuningInv, RunsAlone
  <2> QED  BY <1>1, <1>3, <2>1 DEF Reached
<1> HIDE DEF q
<1>5. /\ ReqsTyped' /\ RunsAlone' /\ v5'[u] = q
      /\ \A w \in TuningGiven.Users \ {u} : v5'[w] = v5[w]
  BY <1>1, <1>3, <1>4, ReqMoves
<1>6. TuningKeeps
  BY <1>1, <1>5 DEF TuningKeeps, Tuning!MapStep, Tuning!SaveStep, Tuning!TypedStep
<1> QED  BY <1>1, <1>5, <1>6 DEF TuningInv, MapsTyped, FormsTyped, RulesHeld

(* A patch is written to the target the request is at, under its version.  *)
LEMMA WriteMapStep ==
  ASSUME TuningInv, NEW u \in TuningGiven.Users, Tuning!WriteMap(u)
  PROVE  TuningInv' /\ TuningKeeps
<1> DEFINE c == Tuning!Target(v5[u].step)
           m == Tuning!Patched(v2[c], v5[u].patch)
           q == [v5[u] EXCEPT !.step = IF @ = "write1" THEN "read2" ELSE "restart1"]
<1>1. /\ UNCHANGED <<v1, v3, v4, v6>> /\ v5[u].step \in {"write1", "write2"}
      /\ v5[u].read = v2[c].version /\ v2' = [v2 EXCEPT ![c] = m] /\ v5' = [v5 EXCEPT ![u] = q]
      /\ v5 \in [TuningGiven.Users -> TuningReq] /\ v2 \in [Tuning!Parts -> TuningMap]
  BY DEF Tuning!WriteMap, Tuning!Matches, TuningInv, ReqsTyped, MapsTyped
<1>2. c \in Tuning!Parts /\ (c = "sensor" <=> v5[u].step = "write1")
  BY <1>1, TuningParts DEF Tuning!Target
<1>3. /\ q \in TuningReq /\ q.alone = v5[u].alone /\ q.patch = v5[u].patch
      /\ q.step = IF v5[u].step = "write1" THEN "read2" ELSE "restart1"
  BY <1>1 DEF TuningReq
<1> HIDE DEF c, q
<1>4. m \in TuningMap /\ m.own = v2[c].own /\ Tuning!Tuned(m) = v5[u].patch
  <2>1. v2[c] \in TuningMap /\ v5[u].patch \in Tuning!Values
    BY <1>1, <1>2 DEF TuningReq
  <2>2. v2[c].version + 1 \in Nat
    BY <2>1 DEF TuningMap
  <2>3. /\ m \in TuningMap /\ m.own = v2[c].own
        /\ m.mode = v5[u].patch.mode /\ m.drop = v5[u].patch.drop
    BY <2>1, <2>2 DEF TuningMap, Tuning!Values, Tuning!Patched
  <2> HIDE DEF m
  <2> QED  BY <2>1, <2>3 DEF Tuning!Tuned, Tuning!Values
<1> HIDE DEF m
<1>5. MapsTyped' /\ v2'[c] = m /\ \A d \in Tuning!Parts \ {c} : v2'[d] = v2[d]
  BY <1>1, <1>2, <1>4 DEF MapsTyped
<1>6. q.alone => v5[u].alone /\ Reached(q, v2', v3')
  <2>1. v5[u].alone => Reached(v5[u], v2, v3)
    BY DEF TuningInv, RunsAlone
  <2> QED  BY <1>1, <1>2, <1>3, <1>4, <1>5, <2>1, TuningParts DEF Reached
<1>7. /\ ReqsTyped' /\ RunsAlone' /\ v5'[u] = q
      /\ \A w \in TuningGiven.Users \ {u} : v5'[w] = v5[w]
  BY <1>1, <1>3, <1>6, ReqMoves
<1>8. Tuning!MapStep
  BY <1>1, <1>4, <1>5, <1>7 DEF Tuning!MapStep
<1>9. Tuning!SaveStep /\ Tuning!TypedStep
  BY <1>1, <1>7 DEF Tuning!SaveStep, Tuning!TypedStep
<1> QED  BY <1>1, <1>5, <1>7, <1>8, <1>9 DEF TuningInv, TuningKeeps, FormsTyped, RulesHeld

LEMMA RestartStep ==
  ASSUME TuningInv, NEW u \in TuningGiven.Users, Tuning!Restart(u)
  PROVE  TuningInv' /\ TuningKeeps
<1> DEFINE c == IF v5[u].step = "restart1" THEN "sensor" ELSE "stream"
           q == [v5[u] EXCEPT !.step = IF @ = "restart1" THEN "restart2" ELSE "answer"]
<1>1. /\ UNCHANGED <<v1, v2, v4, v6>> /\ v5[u].step \in {"restart1", "restart2"}
      /\ v3' = [v3 EXCEPT ![c] = Tuning!Tuned(v2[c])]
      /\ v5 \in [TuningGiven.Users -> TuningReq]
  BY DEF Tuning!Restart, Tuning!Goes, TuningInv, ReqsTyped
<1>2. v5' = [v5 EXCEPT ![u] = q]
  <2>1. CASE v5[u].step = "restart1"
    BY <2>1 DEF Tuning!Restart, Tuning!Goes
  <2>2. CASE v5[u].step = "restart2"
    BY <2>2 DEF Tuning!Restart, Tuning!Goes
  <2> QED  BY <1>1, <2>1, <2>2
<1>3. /\ q \in TuningReq /\ q.alone = v5[u].alone /\ q.patch = v5[u].patch
      /\ q.step = IF v5[u].step = "restart1" THEN "restart2" ELSE "answer"
  BY <1>1 DEF TuningReq
<1>4. /\ c \in Tuning!Parts /\ (c = "sensor" <=> v5[u].step = "restart1")
      /\ c = "stream" \/ c = "sensor"
  BY TuningParts
<1> HIDE DEF c, q
<1>5. /\ v3' \in [Tuning!Parts -> Tuning!Values] /\ v3'[c] = Tuning!Tuned(v2[c])
      /\ \A d \in Tuning!Parts \ {c} : v3'[d] = v3[d]
  <2>1. Tuning!Tuned(v2[c]) \in Tuning!Values
    BY <1>4 DEF TuningInv, MapsTyped, TuningMap, Tuning!Tuned, Tuning!Values
  <2> QED  BY <1>1, <1>4, <2>1 DEF TuningInv
<1>6. q.alone => v5[u].alone /\ Reached(q, v2', v3')
  <2>1. v5[u].alone => Reached(v5[u], v2, v3)
    BY DEF TuningInv, RunsAlone
  <2> QED  BY <1>1, <1>3, <1>4, <1>5, <2>1, TuningParts DEF Reached
<1>7. /\ ReqsTyped' /\ RunsAlone' /\ v5'[u] = q
      /\ \A w \in TuningGiven.Users \ {u} : v5'[w] = v5[w]
  BY <1>1, <1>2, <1>3, <1>6, ReqMoves
<1>8. TuningKeeps
  BY <1>1, <1>3, <1>7 DEF TuningKeeps, Tuning!MapStep, Tuning!SaveStep, Tuning!TypedStep
<1> QED  BY <1>1, <1>5, <1>7, <1>8 DEF TuningInv, FormsTyped, RulesHeld, MapsTyped

LEMMA OutsideStep ==
  ASSUME TuningInv, NEW c \in Tuning!Parts, NEW value \in Tuning!Values, Tuning!Outside(c, value)
  PROVE  TuningInv' /\ TuningKeeps
<1> DEFINE m == Tuning!Patched(v2[c], value)
<1>1. /\ UNCHANGED <<v1, v3, v4>> /\ Tuning!Turn /\ v5' = Tuning!NotAlone
      /\ v2' = [v2 EXCEPT ![c] = m] /\ v2 \in [Tuning!Parts -> TuningMap]
  BY DEF Tuning!Outside, TuningInv, MapsTyped
<1>2. m \in TuningMap /\ m.own = v2[c].own
  <2>1. v2[c] \in TuningMap /\ v2[c].version + 1 \in Nat
    BY <1>1 DEF TuningMap
  <2> QED  BY <2>1 DEF TuningMap, Tuning!Values, Tuning!Patched
<1> HIDE DEF m
<1>3. MapsTyped' /\ \A d \in Tuning!Parts : v2'[d].own = v2[d].own
  BY <1>1, <1>2 DEF MapsTyped
<1>4. /\ ReqsTyped' /\ RunsAlone'
      /\ \A w \in TuningGiven.Users : v5'[w].step = v5[w].step
  BY <1>1, NobodyAlone DEF TuningInv, ReqsTyped, RunsAlone
<1>5. v6' \in TuningRules /\ RulesHeld'
  BY <1>1, TuningTurn
<1>6. TuningKeeps
  BY <1>1, <1>3, <1>4 DEF TuningKeeps, Tuning!MapStep, Tuning!SaveStep, Tuning!TypedStep
<1> QED  BY <1>1, <1>3, <1>4, <1>5, <1>6 DEF TuningInv, FormsTyped

(* Frame sampling: rules are taken down and posted again, one at a time.   *)
RuleGoes(q, r, s, todo, warned) ==
  /\ q \in TuningRules /\ q.saving = v6.saving /\ q.began = v6.began
  /\ q.todo = todo /\ q.warned = warned /\ q.live[r] = s
  /\ \A x \in TuningGiven.Rules \ {r} : q.live[x] = v6.live[x]

LEMMA RulesGo ==
  ASSUME TuningInv, NEW r \in TuningGiven.Rules, NEW s, NEW todo, NEW warned,
         RuleGoes(v6', r, s, todo, warned), v6.todo \subseteq todo \union {r},
         v6.warned \subseteq warned, s # "none" \/ r \in warned
  PROVE  v6' \in TuningRules /\ RulesHeld'
<1>1. v6.began \subseteq TuningGiven.Rules
  BY DEF TuningInv, TuningRules
<1> QED  BY <1>1 DEF RuleGoes, TuningInv, RulesHeld

LEMMA SamplingStep ==
  ASSUME TuningInv,
         \/ Tuning!Sample \/ Tuning!Sampled
         \/ \E r \in TuningGiven.Rules : Tuning!Delete(r) \/ Tuning!Post(r) \/ Tuning!Reseed(r)
  PROVE  TuningInv' /\ TuningKeeps
<1>1. UNCHANGED <<v1, v2, v3, v4, v5>>
  BY DEF Tuning!Sample, Tuning!Sampled, Tuning!Delete, Tuning!Post, Tuning!Reseed
<1>2. v6 \in TuningRules
  BY DEF TuningInv
<1>3. v6' \in TuningRules /\ RulesHeld'
  <2>1. CASE Tuning!Sample
    <3>1. /\ v6' = [v6 EXCEPT !.doc = "new", !.saving = TRUE, !.warned = {}, !.turns = @ + 1,
                              !.began = Tuning!Alive, !.todo = Tuning!Alive]
          /\ v6.turns + 1 \in 0 .. TuningGiven.MaxTurns
          /\ Tuning!Alive \in SUBSET TuningGiven.Rules
      BY <1>2, <2>1, TuningAssumption DEF Tuning!Sample, Tuning!Alive, TuningRules
    <3>2. v6' \in TuningRules /\ v6'.began = Tuning!Alive /\ v6'.todo = Tuning!Alive
      BY <1>2, <3>1 DEF TuningRules
    <3> QED  BY <3>2 DEF RulesHeld
  <2>2. CASE Tuning!Sampled
    <3>1. v6' \in TuningRules /\ ~v6'.saving
      BY <1>2, <2>2 DEF Tuning!Sampled, TuningRules
    <3> QED  BY <3>1 DEF RulesHeld
  <2>3. ASSUME NEW r \in TuningGiven.Rules, Tuning!Delete(r)
        PROVE  v6' \in TuningRules /\ RulesHeld'
    <3>1. PICK s \in {"gone", "there"} : v6' = [v6 EXCEPT !.live[r] = s]
      BY <2>3 DEF Tuning!Delete
    <3>2. RuleGoes(v6', r, s, v6.todo, v6.warned)
      BY <1>2, <3>1 DEF TuningRules, RuleGoes
    <3> QED  BY <3>2, RulesGo
  <2>4. ASSUME NEW r \in TuningGiven.Rules, Tuning!Post(r)
        PROVE  v6' \in TuningRules /\ RulesHeld'
    <3>1. ASSUME NEW s \in {"new", "old"}, v6' = [v6 EXCEPT !.live[r] = s, !.todo = @ \ {r}]
          PROVE  v6' \in TuningRules /\ RulesHeld'
      <4>1. RuleGoes(v6', r, s, v6.todo \ {r}, v6.warned)
        BY <1>2, <3>1 DEF TuningRules, RuleGoes
      <4> QED  BY <4>1, RulesGo
    <3>2. CASE v6' = Tuning!Lost(r)
      <4>1. RuleGoes(v6', r, "none", v6.todo \ {r}, v6.warned \union {r})
        BY <1>2, <3>2 DEF TuningRules, Tuning!Lost, RuleGoes
      <4> QED  BY <4>1, RulesGo
    <3> QED  BY <2>4, <3>1, <3>2 DEF Tuning!Post
  <2>5. ASSUME NEW r \in TuningGiven.Rules, Tuning!Reseed(r)
        PROVE  v6' \in TuningRules /\ RulesHeld'
    <3>1. v6.turns < TuningGiven.MaxTurns
      BY <2>5 DEF Tuning!Reseed
    <3>2. v6.turns + 1 \in 0 .. TuningGiven.MaxTurns
      BY <1>2, <3>1, TuningAssumption DEF TuningRules
    <3>3. PICK s \in {"there", "old"} : v6' = [v6 EXCEPT !.live[r] = s, !.turns = @ + 1]
      BY <2>5 DEF Tuning!Reseed
    <3>4. RuleGoes(v6', r, s, v6.todo, v6.warned)
      BY <1>2, <3>2, <3>3 DEF TuningRules, RuleGoes
    <3> QED  BY <3>4, RulesGo
  <2> QED  BY <2>1, <2>2, <2>3, <2>4, <2>5
<1>4. TuningKeeps
  BY <1>1 DEF TuningKeeps, Tuning!MapStep, Tuning!SaveStep, Tuning!TypedStep
<1> QED  BY <1>1, <1>3, <1>4 DEF TuningInv, MapsTyped, FormsTyped, ReqsTyped, RunsAlone

(* Every step keeps the invariant; components keep their own and reach     *)
(* what was saved, and what is typed stays.                                *)
LEMMA TuningStep ==
  ASSUME TuningInv, [Tuning!Next]_(Tuning!vars)
  PROVE  TuningInv' /\ (Tuning!Next => TuningKeeps)
<1>1. CASE UNCHANGED Tuning!vars /\ ~Tuning!Next
  <2>1. UNCHANGED <<v1, v2, v3, v4, v5, v6>>
    BY <1>1 DEF Tuning!vars
  <2> QED
    BY <1>1, <2>1 DEF TuningInv, MapsTyped, FormsTyped, ReqsTyped, RunsAlone, RulesHeld
<1>2. CASE Tuning!Next
  BY <1>2, FormsStep, ConfirmTuning, EndStep, ReadMapStep, WriteMapStep, RestartStep, OutsideStep,
     SamplingStep DEF Tuning!Next
<1> QED  BY <1>1, <1>2

--------------------------------------------------------------------------------
(* Diagnostics (camera-chain.ts, connectivity.ts and its panel, the tests): *)
(* v1 the view, v2 the chain as it stands, v3 the diagnosis, v4 the panel,  *)
(* v5 the tests, v6 the turns taken.                                       *)

Results == Nat \X {"pass", "fail"}
Clock   == 0 .. DoctorGiven.LongBudget
Fetches ==
  [id : Nat, hand : BOOLEAN, age : Clock,
   got : [Doctor!Backends -> [state : {"open", "ok", "slow"}, at : Clock]]]
Sights     == {Doctor!Found(p, c) : p \in Doctor!Probes, c \in DoctorGiven.Chains}
Recordings == {"unknown"} \union {c.recording : c \in DoctorGiven.Chains}
WalkTyped ==
  v3 \in [step : {"none", "probes", "report"}, got : SUBSET Doctor!Probes,
          lost : SUBSET Doctor!Probes, warnings : SUBSET Doctor!Probes, turned : BOOLEAN,
          seen : SUBSET Sights, recording : Recordings]
PanelTyped ==
  v4 \in [phase : {"idle", "loading", "ok", "error"}, data : Nat \union {-1},
          refreshing : SUBSET Nat, wire : SUBSET Fetches]
TestsTyped ==
  v5 \in [running : SUBSET (DoctorGiven.Tests \X Nat \X {"asked", "pass", "fail"}),
          record : UNION {[T -> Results] : T \in SUBSET DoctorGiven.Tests}, noted : SUBSET Nat]

(* What the diagnosis knows: the probes that failed are named, the others  *)
(* saw what is there unless that changed meanwhile.                        *)
WalkKnows ==
  /\ v3.lost \subseteq v3.got /\ v3.warnings = v3.lost
  /\ v3.step = "report" => v3.got = Doctor!Probes
  /\ v3.step # "none" /\ ~v3.turned =>
       /\ v3.seen = {Doctor!Found(p, v2) : p \in v3.got \ v3.lost}
       /\ v3.recording \in {"unknown", v2.recording}

(* What spins waits for a fetch, and a fetch ages while it waits.          *)
PanelWaits ==
  /\ v4.phase = "loading" => v4.wire # {}
  /\ v4.refreshing # {} => \E f \in v4.wire : f.hand
OneSlow(f) == f.got["playback"].state = "slow" => f.got["playback"].at = DoctorGiven.LongBudget
SlowIsLate == \A f \in v4.wire : OneSlow(f)

TestsNoted ==
  /\ \A r \in v5.running : r[3] # "asked" => r[2] \in v5.noted
  /\ Doctor!ResultsAreNoted

DoctorInv ==
  /\ v1 \in {"chain", "panel", "tests"} /\ v2 \in DoctorGiven.Chains
  /\ v6 \in 0 .. DoctorGiven.MaxMoves
  /\ WalkTyped /\ PanelTyped /\ TestsTyped /\ WalkKnows /\ PanelWaits /\ SlowIsLate /\ TestsNoted

(* The first link in some state, if there is one.                          *)
IsFirst(k, links, state) ==
  \/ k = 0 /\ \A i \in 1 .. Len(links) : links[i] # state
  \/ k \in 1 .. Len(links) /\ links[k] = state

LEMMA FirstLink ==
  ASSUME NEW links, Len(links) \in Nat, NEW state
  PROVE  IsFirst(Doctor!FirstIn(links, state), links, state)
<1> DEFINE I == {i \in 1 .. Len(links) : links[i] = state}
           k == Doctor!FirstIn(links, state)
<1>1. k = IF I # {} THEN CHOOSE x \in I : \A y \in I : x <= y ELSE 0
  BY DEF Doctor!FirstIn, Doctor!SelectInSeq, Doctor!Min
<1> HIDE DEF k
<1>2. I \in SUBSET Nat
  OBVIOUS
<1>3. CASE I = {}
  BY <1>1, <1>3 DEF IsFirst, k
<1>4. CASE I # {}
  <2>1. \E x \in I : \A y \in I : x <= y
    <3> HIDE DEF I
    <3> QED  BY <1>2, <1>4, HasLeast
  <2>2. k \in I
    BY <1>1, <1>4, <2>1
  <2> QED  BY <2>2 DEF IsFirst, k
<1> QED  BY <1>3, <1>4

(* What a probe that answered saw.                                         *)
LEMMA SawIt ==
  ASSUME DoctorInv, v3.step = "report", ~v3.turned, NEW p \in Doctor!Probes, NEW e
  PROVE  Doctor!Saw(p, e) = IF p \in v3.lost THEN e ELSE Doctor!Found(p, v2)[2]
<1>1. \A q \in Doctor!Probes : Doctor!Found(q, v2)[1] = q
  BY DEF Doctor!Found
<1>2. v3.seen = {Doctor!Found(q, v2) : q \in Doctor!Probes \ v3.lost}
  BY DEF DoctorInv, WalkKnows
<1>3. CASE p \in v3.lost
  <2>1. ~ \E s \in v3.seen : s[1] = p
    BY <1>1, <1>2, <1>3
  <2> QED  BY <1>3, <2>1 DEF Doctor!Saw
<1>4. CASE p \notin v3.lost
  <2>1. Doctor!Found(p, v2) \in v3.seen /\ Doctor!Found(p, v2)[1] = p
    BY <1>1, <1>2, <1>4
  <2>2. \A s \in v3.seen : s[1] = p => s = Doctor!Found(p, v2)
    BY <1>1, <1>2
  <2>3. (CHOOSE s \in v3.seen : s[1] = p) = Doctor!Found(p, v2)
    BY <2>1, <2>2
  <2> QED  BY <1>4, <2>1, <2>3 DEF Doctor!Saw
<1> QED  BY <1>3, <1>4

(* The verdict: the probes that answered are believed.                     *)
LEMMA ChainIsRead ==
  ASSUME DoctorInv, v3.step = "report", ~v3.turned
  PROVE  /\ Doctor!StoreOk <=> "storage" \notin v3.lost /\ v2.store
         /\ Doctor!Registered <=> "sensors" \notin v3.lost /\ v2.sensor
         /\ Doctor!Armed <=> "sensors" \notin v3.lost /\ v2.sensor /\ v2.stream
         /\ Doctor!Mine = IF "rules" \in v3.lost THEN <<>> ELSE v2.rules
<1>1. {"storage", "sensors", "rules"} \subseteq Doctor!Probes
  BY DEF Doctor!Probes
<1>2. /\ Doctor!Saw("storage", FALSE) = IF "storage" \in v3.lost THEN FALSE ELSE Doctor!Found("storage", v2)[2]
      /\ Doctor!Saw("sensors", <<FALSE, FALSE>>)
           = IF "sensors" \in v3.lost THEN <<FALSE, FALSE>> ELSE Doctor!Found("sensors", v2)[2]
      /\ Doctor!Saw("rules", <<>>) = IF "rules" \in v3.lost THEN <<>> ELSE Doctor!Found("rules", v2)[2]
  BY <1>1, SawIt
<1>3. /\ Doctor!Found("storage", v2)[2] = v2.store
      /\ Doctor!Found("sensors", v2)[2] = <<v2.sensor, v2.stream>>
      /\ Doctor!Found("rules", v2)[2] = v2.rules
  BY DEF Doctor!Found
<1>4. v2 \in DoctorGiven.Chains
  BY DEF DoctorInv
<1>5. v2.sensor \in BOOLEAN /\ v2.stream \in BOOLEAN /\ v2.store \in BOOLEAN
  BY <1>4, DoctorAssumption
<1>6. Doctor!Mine = IF "rules" \in v3.lost THEN <<>> ELSE v2.rules
  BY <1>2, <1>3 DEF Doctor!Mine
<1>7. Doctor!StoreOk <=> "storage" \notin v3.lost /\ v2.store
  BY <1>2, <1>3 DEF Doctor!StoreOk
<1>8. Doctor!Registered <=> "sensors" \notin v3.lost /\ v2.sensor
  BY <1>2, <1>3 DEF Doctor!Registered
<1>9. Doctor!Armed <=> Doctor!Registered /\ "sensors" \notin v3.lost /\ v2.stream
  BY <1>2, <1>3 DEF Doctor!Armed, Doctor!Registered
<1> QED  BY <1>6, <1>7, <1>8, <1>9

LEMMA LinkStates ==
  ASSUME DoctorInv
  PROVE  /\ Doctor!Links \in Seq({"ok", "fail", "warn", "blocked", "unknown"})
         /\ Len(Doctor!Links) = 6
         /\ Doctor!Links[1] = Doctor!SourceState /\ Doctor!Links[2] = Doctor!SensorState
         /\ Doctor!Links[3] = Doctor!StreamState /\ Doctor!Links[4] = Doctor!RecordingState
         /\ Doctor!Links[5] = Doctor!RuleState /\ Doctor!Links[6] = Doctor!ScenarioState
<1> DEFINE States == {"ok", "fail", "warn", "blocked", "unknown"}
<1>1. Doctor!SourceState \in States /\ Doctor!SensorState \in States /\ Doctor!StreamState \in States
  BY DEF Doctor!SourceState, Doctor!SensorState, Doctor!StreamState
<1>2. Doctor!RecordingState \in States
  BY DEF Doctor!RecordingState
<1>3. Doctor!RuleState \in States /\ Doctor!ScenarioState \in States
  BY DEF Doctor!RuleState, Doctor!ScenarioState
<1> QED  BY <1>1, <1>2, <1>3 DEF Doctor!Links

LEMMA BlameHolds == DoctorInv => Doctor!BlameIsExplained
<1> SUFFICES ASSUME DoctorInv, v3.step = "report", ~v3.turned
             PROVE  /\ Doctor!Sound(v2) /\ Doctor!Verdict > 0 => v3.warnings # {}
                    /\ Doctor!Verdict = 0 =>
                         /\ v2.source /\ v2.sensor /\ v2.stream /\ v2.store /\ v2.bound
                         /\ Len(v2.rules) = 1 /\ ("model" \in v3.lost \/ v2.rules = <<"served">>)
                         /\ v3.recording # "not-recording"
  BY DEF Doctor!BlameIsExplained
<1> DEFINE F == Doctor!FirstIn(Doctor!Links, "fail")
           W == Doctor!FirstIn(Doctor!Links, "warn")
<1>1. \/ F = 0 /\ \A i \in 1 .. 6 : Doctor!Links[i] # "fail"
      \/ F \in 1 .. 6 /\ Doctor!Links[F] = "fail"
  BY LinkStates, FirstLink DEF IsFirst
<1>2. \/ W = 0 /\ \A i \in 1 .. 6 : Doctor!Links[i] # "warn"
      \/ W \in 1 .. 6 /\ Doctor!Links[W] = "warn"
  BY LinkStates, FirstLink DEF IsFirst
<1>3. Doctor!Verdict = IF F > 0 THEN F ELSE W
  BY DEF Doctor!Verdict
<1> HIDE DEF F, W
<1>4. v3.lost = v3.warnings /\ v3.recording \in {"unknown", v2.recording}
  BY DEF DoctorInv, WalkKnows
<1>5. Doctor!Sound(v2) /\ Doctor!Verdict > 0 => v3.warnings # {}
  <2> SUFFICES ASSUME Doctor!Sound(v2), v3.lost = {} PROVE Doctor!Verdict = 0
    BY <1>1, <1>2, <1>3, <1>4
  <2>1. Doctor!StoreOk /\ Doctor!Registered /\ Doctor!Armed /\ Doctor!Mine = <<"served">>
    BY ChainIsRead DEF Doctor!Sound
  <2>2. Doctor!SourceState = "ok" /\ Doctor!SensorState = "ok" /\ Doctor!StreamState = "ok"
    <3>1. Doctor!SensorState = "ok"
      BY <2>1 DEF Doctor!SensorState
    <3>3. Doctor!StreamState = "ok"
      BY <2>1 DEF Doctor!StreamState
    <3>2. Doctor!SourceState = "ok"
      BY DEF Doctor!SourceState, Doctor!Sound
    <3> QED  BY <3>1, <3>2, <3>3
  <2>3. Doctor!RecordingState \in {"ok", "unknown"}
    BY <1>4, <2>1 DEF Doctor!RecordingState, Doctor!Sound
  <2>4. Doctor!RuleState = "ok" /\ Doctor!ScenarioState = "ok"
    BY <2>1 DEF Doctor!RuleState, Doctor!Drifted, Doctor!ScenarioState, Doctor!Sound
  <2>5. \A i \in 1 .. 6 : Doctor!Links[i] \in {"ok", "unknown"}
    BY <2>2, <2>3, <2>4, LinkStates
  <2> QED  BY <1>1, <1>2, <1>3, <2>5
<1>6. ASSUME Doctor!Verdict = 0
      PROVE  /\ v2.source /\ v2.sensor /\ v2.stream /\ v2.store /\ v2.bound
             /\ Len(v2.rules) = 1 /\ ("model" \in v3.lost \/ v2.rules = <<"served">>)
             /\ v3.recording # "not-recording"
  <2>1. \A i \in 1 .. 6 : Doctor!Links[i] # "fail" /\ Doctor!Links[i] # "warn"
    BY <1>1, <1>2, <1>3, <1>6
  <2>2. /\ Doctor!SourceState # "fail" /\ Doctor!SensorState # "fail" /\ Doctor!StreamState # "fail"
        /\ Doctor!RecordingState # "fail" /\ Doctor!RuleState \notin {"fail", "warn"}
        /\ Doctor!ScenarioState # "warn"
    BY <2>1, LinkStates
  <2>3. Doctor!Registered /\ Doctor!Armed /\ Doctor!StoreOk /\ v2.source /\ v2.bound
    BY <2>2 DEF Doctor!SourceState, Doctor!SensorState, Doctor!StreamState, Doctor!RecordingState,
                Doctor!ScenarioState
  <2>4. v3.recording # "not-recording"
    BY <2>2, <2>3 DEF Doctor!RecordingState
  <2>5. v2 \in DoctorGiven.Chains /\ IsList(v2.rules)
    BY DoctorAssumption DEF DoctorInv
  <2>6. Len(v2.rules) \in Nat /\ DOMAIN v2.rules = 1 .. Len(v2.rules)
    BY <2>5 DEF IsList
  <2>7. /\ Doctor!Mine # <<>> /\ ~(Len(Doctor!Mine) > 1)
        /\ \A i \in DOMAIN Doctor!Mine : ~Doctor!Drifted(Doctor!Mine[i])
    BY <2>2 DEF Doctor!RuleState
  <2>8. Doctor!Mine = v2.rules
    BY <2>7, ChainIsRead
  <2>9. Len(v2.rules) = 1
    <3>1. v2.rules # <<>> /\ ~(Len(v2.rules) > 1)
      BY <2>7, <2>8
    <3>2. Len(v2.rules) # 0
      BY <2>5, <3>1 DEF IsList
    <3> DEFINE n == Len(v2.rules)
    <3>3. n \in Nat /\ n # 0 /\ ~(n > 1)
      BY <2>6, <3>1, <3>2
    <3> HIDE DEF n
    <3>4. n = 1
      BY <3>3
    <3> QED  BY <3>4 DEF n
  <2>10. "model" \in v3.lost \/ v2.rules = <<"served">>
    <3>1. "model" \in v3.lost \/ v2.rules[1] = "served"
      BY <2>6, <2>7, <2>8, <2>9 DEF Doctor!Drifted
    <3> QED  BY <2>5, <2>9, <3>1 DEF IsList
  <2> QED  BY <2>3, <2>4, <2>9, <2>10, ChainIsRead
<1> QED  BY <1>5, <1>6

LEMMA DriftHolds == DoctorInv => Doctor!DriftIsBlamed
<1> SUFFICES ASSUME DoctorInv, v3.step = "report", ~v3.turned, v3.lost = {},
                    NEW i \in DOMAIN v2.rules, v2.rules[i] # "served"
             PROVE  Doctor!Verdict \in 1 .. 5 /\ Doctor!Links[Doctor!Verdict] = "fail"
  BY DEF Doctor!DriftIsBlamed
<1> DEFINE F == Doctor!FirstIn(Doctor!Links, "fail")
<1>1. \/ F = 0 /\ \A j \in 1 .. 6 : Doctor!Links[j] # "fail"
      \/ F \in 1 .. 6 /\ Doctor!Links[F] = "fail"
  BY LinkStates, FirstLink DEF IsFirst
<1>2. Doctor!Verdict = IF F > 0 THEN F ELSE Doctor!FirstIn(Doctor!Links, "warn")
  BY DEF Doctor!Verdict
<1> HIDE DEF F
<1>3. Doctor!Mine = v2.rules
  BY ChainIsRead
<1>4. Doctor!Mine # <<>> /\ Doctor!Drifted(Doctor!Mine[i])
  BY <1>3 DEF Doctor!Drifted
<1>5. Doctor!RuleState = "fail"
  BY <1>3, <1>4 DEF Doctor!RuleState
<1>6. Doctor!Links[5] = "fail" /\ Doctor!Links[6] # "fail"
  BY <1>5, LinkStates DEF Doctor!ScenarioState
<1> QED  BY <1>1, <1>2, <1>6

LEMMA DoctorPromise ==
  DoctorInv => /\ Doctor!TypeOK /\ Doctor!BudgetsHold /\ Doctor!SpinningEnds
               /\ Doctor!BlameIsExplained /\ Doctor!DriftIsBlamed /\ Doctor!ResultsAreNoted
<1> SUFFICES ASSUME DoctorInv
             PROVE  Doctor!TypeOK /\ Doctor!BudgetsHold /\ Doctor!SpinningEnds /\ Doctor!ResultsAreNoted
  BY BlameHolds, DriftHolds
<1>1. Doctor!TypeOK
  BY DEF DoctorInv, WalkTyped, WalkKnows, PanelTyped, Doctor!TypeOK
<1>2. Doctor!BudgetsHold
  BY DoctorAssumption DEF DoctorInv, PanelTyped, Fetches, Clock, SlowIsLate, OneSlow, Doctor!BudgetsHold
<1>3. Doctor!SpinningEnds /\ Doctor!ResultsAreNoted
  BY DEF DoctorInv, PanelWaits, TestsNoted, Doctor!SpinningEnds
<1> QED  BY <1>1, <1>2, <1>3

LEMMA DoctorStart == Doctor!Init => DoctorInv
<1> SUFFICES ASSUME Doctor!Init PROVE DoctorInv
  OBVIOUS
<1> USE DoctorAssumption DEF Doctor!Init
<1>1. WalkTyped /\ WalkKnows
  BY DEF WalkTyped, WalkKnows, Doctor!NoWalk, Recordings
<1>2. PanelTyped /\ PanelWaits /\ SlowIsLate
  <2>1. -1 \in Nat \union {-1}
    OBVIOUS
  <2> QED  BY <2>1 DEF PanelTyped, PanelWaits, SlowIsLate
<1>3. TestsTyped /\ TestsNoted
  <2>1. [t \in {} |-> "pass"] \in [{} -> Results] /\ {} \in SUBSET DoctorGiven.Tests
    OBVIOUS
  <2>2. DOMAIN v5.record = {}
    OBVIOUS
  <2> QED  BY <2>1, <2>2 DEF TestsTyped, TestsNoted, Doctor!ResultsAreNoted
<1> QED  BY <1>1, <1>2, <1>3 DEF DoctorInv

(* The walk along the chain: what it finds it finds now.                   *)
LEMMA WalkSteps ==
  ASSUME DoctorInv, Doctor!BeginWalk \/ Doctor!ProbeRecording \/ Doctor!Turn
                    \/ \E p \in Doctor!Probes : Doctor!Probe(p)
  PROVE  DoctorInv'
<1>0. WalkTyped /\ WalkKnows /\ v2 \in DoctorGiven.Chains
  BY DEF DoctorInv
<1>1. UNCHANGED <<v1, v4, v5>>
  BY DEF Doctor!BeginWalk, Doctor!ProbeRecording, Doctor!Turn, Doctor!Probe
<1>2. /\ v2' \in DoctorGiven.Chains
      /\ v6' = v6 \/ (v6 < DoctorGiven.MaxMoves /\ v6' = v6 + 1)
  BY <1>0 DEF Doctor!BeginWalk, Doctor!ProbeRecording, Doctor!Turn, Doctor!May, Doctor!Probe
<1>m. v6' \in 0 .. DoctorGiven.MaxMoves
  BY <1>2, DoctorAssumption DEF DoctorInv
<1>3. WalkTyped' /\ WalkKnows'
  <2>1. CASE Doctor!BeginWalk
    BY <1>0, <2>1 DEF Doctor!BeginWalk, Doctor!NoWalk, WalkTyped, WalkKnows, Recordings
  <2>2. CASE Doctor!ProbeRecording
    <3>1. PICK r \in {"unknown", v2.recording} :
             v3' = [v3 EXCEPT !.step = "report", !.recording = r] \/ v3' = [v3 EXCEPT !.step = "report"]
      BY <2>2 DEF Doctor!ProbeRecording
    <3>2. v2' = v2 /\ v3.step = "probes" /\ v3.got = Doctor!Probes /\ r \in Recordings
      BY <1>0, <2>2 DEF Doctor!ProbeRecording, Recordings
    <3>3. /\ WalkTyped' /\ v3'.step = "report" /\ v3'.recording \in {r, v3.recording}
          /\ v3'.got = v3.got /\ v3'.lost = v3.lost /\ v3'.warnings = v3.warnings
          /\ v3'.seen = v3.seen /\ v3'.turned = v3.turned
      BY <1>0, <3>1, <3>2 DEF WalkTyped
    <3> QED  BY <1>0, <3>2, <3>3 DEF WalkKnows
  <2>3. CASE Doctor!Turn
    <3>1. v3' = IF v3.step = "none" THEN v3 ELSE [v3 EXCEPT !.turned = TRUE]
      BY <2>3 DEF Doctor!Turn
    <3> QED  BY <1>0, <3>1 DEF WalkTyped, WalkKnows
  <2>4. ASSUME NEW p \in Doctor!Probes, Doctor!Probe(p) PROVE WalkTyped' /\ WalkKnows'
    <3>1. v2' = v2 /\ v3.step = "probes" /\ p \in Doctor!Probes \ v3.got
      BY <2>4 DEF Doctor!Probe
    <3>2. CASE v3' = [v3 EXCEPT !.got = @ \union {p}, !.seen = @ \union {Doctor!Found(p, v2)}]
      <4>1. WalkTyped'
        <5>1. Doctor!Found(p, v2) \in Sights
          BY <1>0 DEF Sights
        <5> QED  BY <1>0, <3>2, <5>1 DEF WalkTyped
      <4>2. v3'.got = v3.got \union {p} /\ v3'.seen = v3.seen \union {Doctor!Found(p, v2)}
            /\ v3'.lost = v3.lost /\ v3'.warnings = v3.warnings /\ v3'.step = v3.step
            /\ v3'.turned = v3.turned /\ v3'.recording = v3.recording
        BY <1>0, <3>2 DEF WalkTyped
      <4>3. v3'.got \ v3.lost = (v3.got \ v3.lost) \union {p}
        BY <1>0, <3>1, <4>2 DEF WalkKnows
      <4> QED  BY <1>0, <3>1, <4>1, <4>2, <4>3 DEF WalkKnows
    <3>3. CASE v3' = [v3 EXCEPT !.got = @ \union {p}, !.lost = @ \union {p},
                                !.warnings = Doctor!Warnings(p)]
      <4>1. WalkTyped'
        BY <1>0, <3>3 DEF WalkTyped, Doctor!Warnings
      <4>2. v3'.got = v3.got \union {p} /\ v3'.seen = v3.seen /\ v3'.lost = v3.lost \union {p}
            /\ v3'.warnings = v3.warnings \union {p} /\ v3'.step = v3.step
            /\ v3'.turned = v3.turned /\ v3'.recording = v3.recording
        BY <1>0, <3>3 DEF WalkTyped, Doctor!Warnings
      <4>3. v3'.got \ v3'.lost = v3.got \ v3.lost
        BY <3>1, <4>2
      <4> QED  BY <1>0, <3>1, <4>1, <4>2, <4>3 DEF WalkKnows
    <3> QED  BY <2>4, <3>2, <3>3 DEF Doctor!Probe
  <2> QED  BY <2>1, <2>2, <2>3, <2>4
<1> QED
  BY <1>1, <1>2, <1>m, <1>3
  DEF DoctorInv, PanelTyped, TestsTyped, PanelWaits, SlowIsLate, TestsNoted, Doctor!ResultsAreNoted

(* The panel: a fetch is sent, ages, is answered by each backend and ends. *)
LEMMA PollStep ==
  ASSUME DoctorInv, NEW hand \in BOOLEAN, Doctor!Poll(hand)
  PROVE  PanelTyped' /\ PanelWaits' /\ SlowIsLate'
<1> DEFINE f == Doctor!NewFetch(hand)
<1>1. f \in Fetches /\ f.hand = hand /\ OneSlow(f)
  <2>1. v6 \in Nat /\ 0 \in Clock
    BY DoctorAssumption DEF DoctorInv, Clock
  <2> QED  BY <2>1 DEF Fetches, OneSlow, Doctor!NewFetch, Doctor!Open, Doctor!Backends
<1>2. /\ hand => v4.phase # "loading" /\ v4.refreshing = {}
      /\ v4' = [v4 EXCEPT !.phase = IF @ = "ok" THEN "ok" ELSE "loading",
                          !.refreshing = IF hand THEN {v6} ELSE @, !.wire = @ \union {f}]
  BY DEF Doctor!Poll
<1>3. v6 \in Nat /\ PanelTyped
  BY DoctorAssumption DEF DoctorInv
<1> HIDE DEF f
<1>4. PanelTyped' /\ v4'.wire = v4.wire \union {f}
      /\ v4'.refreshing = IF hand THEN {v6} ELSE v4.refreshing
  BY <1>1, <1>2, <1>3 DEF PanelTyped
<1> QED  BY <1>1, <1>4 DEF DoctorInv, PanelWaits, SlowIsLate

(* A fetch becomes another: the rest waits as it did.                      *)
LEMMA FetchMoves ==
  ASSUME DoctorInv, NEW f \in v4.wire, NEW g \in Fetches, g.hand = f.hand, OneSlow(g),
         v4' = [v4 EXCEPT !.wire = (@ \ {f}) \union {g}]
  PROVE  PanelTyped' /\ PanelWaits' /\ SlowIsLate'
<1>1. PanelTyped' /\ v4'.wire = (v4.wire \ {f}) \union {g} /\ v4'.refreshing = v4.refreshing
  BY DEF DoctorInv, PanelTyped
<1> QED  BY <1>1 DEF DoctorInv, PanelWaits, SlowIsLate

LEMMA AnswerStep ==
  ASSUME DoctorInv, NEW f \in v4.wire, NEW b \in Doctor!Backends,
         Doctor!BackendAnswers(f, b) \/ Doctor!BackendTimesOut(f, b)
  PROVE  PanelTyped' /\ PanelWaits' /\ SlowIsLate'
<1> DEFINE g(state) == [f EXCEPT !.got[b] = [state |-> state, at |-> f.age]]
<1>1. f \in Fetches /\ OneSlow(f)
  BY DEF DoctorInv, PanelTyped, SlowIsLate
<1>2. \A state \in {"ok", "slow"} : g(state) \in Fetches /\ g(state).hand = f.hand
  BY <1>1 DEF Fetches
<1>3. \A state \in {"ok", "slow"} : g(state).got["playback"] = 
        IF b = "playback" THEN [state |-> state, at |-> f.age] ELSE f.got["playback"]
  BY <1>1 DEF Fetches, Doctor!Backends
<1> HIDE DEF g
<1>4. OneSlow(g("ok"))
  BY <1>1, <1>3 DEF OneSlow
<1>5. CASE Doctor!BackendAnswers(f, b)
  <2>1. v4' = [v4 EXCEPT !.wire = (@ \ {f}) \union {g("ok")}]
    BY <1>5 DEF Doctor!BackendAnswers, Doctor!Answered, g
  <2> QED  BY <1>2, <1>4, <2>1, FetchMoves
<1>6. CASE Doctor!BackendTimesOut(f, b)
  <2>1. v4' = [v4 EXCEPT !.wire = (@ \ {f}) \union {g("slow")}]
    BY <1>6 DEF Doctor!BackendTimesOut, Doctor!Answered, g
  <2>2. b = "playback" => f.age = DoctorGiven.LongBudget
    BY <1>6 DEF Doctor!BackendTimesOut, Doctor!Budget
  <2>3. OneSlow(g("slow"))
    BY <1>1, <1>3, <2>2 DEF OneSlow
  <2> QED  BY <1>2, <2>1, <2>3, FetchMoves
<1> QED  BY <1>5, <1>6

(* Time passes for those that wait, within the longest budget.             *)
LEMMA TickStep ==
  ASSUME DoctorInv, Doctor!Tick
  PROVE  PanelTyped' /\ PanelWaits' /\ SlowIsLate'
<1> DEFINE g(f) == IF Doctor!Pending(f) = {} THEN f ELSE [f EXCEPT !.age = @ + 1]
<1>1. v4' = [v4 EXCEPT !.wire = {g(f) : f \in v4.wire}]
      /\ \A f \in v4.wire : \A b \in Doctor!Pending(f) : f.age < Doctor!Budget(b)
  BY DEF DoctorInv, PanelTyped, Doctor!Tick
<1>2. ASSUME NEW f \in v4.wire
      PROVE  g(f) \in Fetches /\ g(f).hand = f.hand /\ OneSlow(g(f))
  <2>1. f \in Fetches /\ OneSlow(f)
    BY DEF DoctorInv, PanelTyped, SlowIsLate
  <2>2. CASE Doctor!Pending(f) = {}
    BY <2>1, <2>2
  <2>3. CASE Doctor!Pending(f) # {}
    <3>1. PICK b \in Doctor!Pending(f) : f.age < Doctor!Budget(b)
      BY <1>1, <2>3
    <3>2. f.age + 1 \in Clock
      BY <2>1, <3>1, DoctorAssumption DEF Fetches, Clock, Doctor!Budget
    <3>3. g(f) = [f EXCEPT !.age = f.age + 1]
      BY <2>3
    <3> QED  BY <2>1, <3>2, <3>3 DEF Fetches, OneSlow
  <2> QED  BY <2>2, <2>3
<1> HIDE DEF g
<1>3. PanelTyped' /\ v4'.wire = {g(f) : f \in v4.wire} /\ v4'.refreshing = v4.refreshing
      /\ v4'.phase = v4.phase
  BY <1>1, <1>2 DEF DoctorInv, PanelTyped
<1> QED  BY <1>2, <1>3 DEF DoctorInv, PanelWaits, SlowIsLate

LEMMA FetchEnds ==
  ASSUME DoctorInv, NEW f \in v4.wire, Doctor!Shows(f) \/ Doctor!FetchFails(f)
  PROVE  PanelTyped' /\ PanelWaits' /\ SlowIsLate'
<1>1. f \in Fetches /\ -1 \in Nat \union {-1} /\ PanelTyped
  BY DEF DoctorInv, PanelTyped
<1>2. f.id \in Nat
  BY <1>1 DEF Fetches
<1>3. PICK phase \in {"ok", "error"}, data \in Nat \union {-1} :
        v4' = [v4 EXCEPT !.phase = phase, !.data = data, !.wire = @ \ {f},
                         !.refreshing = Doctor!Finally(f)]
  BY <1>1, <1>2 DEF Doctor!Shows, Doctor!FetchFails
<1>4. Doctor!Finally(f) = IF f.hand THEN {} ELSE v4.refreshing
  BY DEF Doctor!Finally
<1>5. PanelTyped' /\ v4'.wire = v4.wire \ {f} /\ v4'.phase # "loading"
      /\ v4'.refreshing = IF f.hand THEN {} ELSE v4.refreshing
  BY <1>1, <1>3, <1>4 DEF PanelTyped
<1> QED  BY <1>5 DEF DoctorInv, PanelWaits, SlowIsLate

LEMMA PanelSteps ==
  ASSUME DoctorInv,
         \/ Doctor!Tick \/ \E hand \in BOOLEAN : Doctor!Poll(hand)
         \/ \E f \in v4.wire :
              \/ Doctor!Shows(f) \/ Doctor!FetchFails(f)
              \/ \E b \in Doctor!Backends : Doctor!BackendAnswers(f, b) \/ Doctor!BackendTimesOut(f, b)
  PROVE  DoctorInv'
<1>1. PanelTyped' /\ PanelWaits' /\ SlowIsLate'
  BY TickStep, PollStep, FetchEnds, AnswerStep
<1>2. UNCHANGED <<v1, v2, v3, v5>>
  BY DEF Doctor!Tick, Doctor!Poll, Doctor!Shows, Doctor!FetchFails, Doctor!BackendAnswers,
         Doctor!BackendTimesOut
<1>3. v6' = v6 \/ (v6 < DoctorGiven.MaxMoves /\ v6' = v6 + 1)
  BY DEF Doctor!Tick, Doctor!Poll, Doctor!Shows, Doctor!FetchFails, Doctor!BackendAnswers,
         Doctor!BackendTimesOut, Doctor!May
<1>4. v6' \in 0 .. DoctorGiven.MaxMoves
  BY <1>3, DoctorAssumption DEF DoctorInv
<1> QED
  BY <1>1, <1>2, <1>4 DEF DoctorInv, WalkTyped, WalkKnows, TestsTyped, TestsNoted, Doctor!ResultsAreNoted

(* The tests: a result is of a run that was noted.                         *)
LEMMA RunSteps ==
  ASSUME DoctorInv,
         \/ \E t \in DoctorGiven.Tests : Doctor!Run(t)
         \/ \E r \in v5.running : \/ Doctor!TestAnswers(r) \/ Doctor!TestIsLost(r)
                                  \/ \E exit \in {"pass", "fail"} : Doctor!RouteEnds(r, exit)
  PROVE  DoctorInv'
<1>1. UNCHANGED <<v1, v2, v3, v4>>
  BY DEF Doctor!Run, Doctor!TestAnswers, Doctor!TestIsLost, Doctor!RouteEnds
<1>2. v6' = v6 \/ (v6 < DoctorGiven.MaxMoves /\ v6' = v6 + 1)
  BY DEF Doctor!Run, Doctor!TestAnswers, Doctor!TestIsLost, Doctor!RouteEnds, Doctor!May
<1>3. v6 \in Nat /\ v6' \in 0 .. DoctorGiven.MaxMoves
  BY <1>2, DoctorAssumption DEF DoctorInv
<1>4. TestsTyped /\ TestsNoted
  BY DEF DoctorInv
<1>5. TestsTyped' /\ TestsNoted'
  <2>1. ASSUME NEW t \in DoctorGiven.Tests, Doctor!Run(t) PROVE TestsTyped' /\ TestsNoted'
    <3>1. v5' = [v5 EXCEPT !.running = @ \union {<<t, v6, "asked">>}]
      BY <2>1 DEF Doctor!Run
    <3> QED  BY <1>3, <1>4, <3>1 DEF TestsTyped, TestsNoted, Doctor!ResultsAreNoted
  <2>2. ASSUME NEW r \in v5.running, NEW exit \in {"pass", "fail"}, Doctor!RouteEnds(r, exit)
        PROVE  TestsTyped' /\ TestsNoted'
    <3>1. v5' = [v5 EXCEPT !.running = (@ \ {r}) \union {<<r[1], r[2], exit>>},
                           !.noted = @ \union {r[2]}]
      BY <1>4, <2>2 DEF Doctor!RouteEnds, Doctor!Noted, TestsTyped
    <3>2. r[1] \in DoctorGiven.Tests /\ r[2] \in Nat
      BY <1>4 DEF TestsTyped
    <3> DEFINE new == <<r[1], r[2], exit>>
    <3>3. new \in DoctorGiven.Tests \X Nat \X {"asked", "pass", "fail"} /\ new[2] = r[2]
      BY <3>2
    <3> HIDE DEF new
    <3>4. /\ TestsTyped' /\ v5'.running = (v5.running \ {r}) \union {new}
          /\ v5'.noted = v5.noted \union {r[2]} /\ v5'.record = v5.record
      BY <1>4, <3>1, <3>2, <3>3 DEF TestsTyped, new
    <3> QED  BY <1>4, <3>3, <3>4 DEF TestsNoted, Doctor!ResultsAreNoted
  <2>3. ASSUME NEW r \in v5.running, Doctor!TestAnswers(r) PROVE TestsTyped' /\ TestsNoted'
    <3> DEFINE new == [t \in DOMAIN v5.record \union {r[1]} |->
                         IF t = r[1] THEN <<r[2], r[3]>> ELSE v5.record[t]]
    <3>1. v5' = [v5 EXCEPT !.running = @ \ {r}, !.record = new] /\ r[3] # "asked"
      BY <1>4, <2>3 DEF Doctor!TestAnswers, TestsTyped
    <3>2. r[1] \in DoctorGiven.Tests /\ r[2] \in Nat /\ r[3] \in {"pass", "fail"}
      BY <1>4, <3>1 DEF TestsTyped
    <3>3. PICK T \in SUBSET DoctorGiven.Tests : v5.record \in [T -> Results]
      BY <1>4 DEF TestsTyped
    <3>4. new \in [T \union {r[1]} -> Results] /\ T \union {r[1]} \in SUBSET DoctorGiven.Tests
      BY <3>2, <3>3 DEF Results
    <3>5. TestsTyped'
      <4>1. new \in UNION {[S -> Results] : S \in SUBSET DoctorGiven.Tests}
        BY <3>4
      <4> HIDE DEF new
      <4> QED  BY <1>4, <3>1, <4>1 DEF TestsTyped
    <3>6. \A t \in DOMAIN new : new[t][1] = r[2] \/ (t \in DOMAIN v5.record /\ new[t] = v5.record[t])
      OBVIOUS
    <3> HIDE DEF new
    <3>7. v5'.running = v5.running \ {r} /\ v5'.record = new /\ v5'.noted = v5.noted
      BY <1>4, <3>1 DEF TestsTyped
    <3>8. r[2] \in v5.noted
      BY <1>4, <3>1 DEF TestsNoted
    <3> QED  BY <1>4, <3>5, <3>6, <3>7, <3>8 DEF TestsNoted, Doctor!ResultsAreNoted
  <2>4. ASSUME NEW r \in v5.running, Doctor!TestIsLost(r) PROVE TestsTyped' /\ TestsNoted'
    <3>1. v5' = [v5 EXCEPT !.running = @ \ {r}]
      BY <2>4 DEF Doctor!TestIsLost
    <3> QED  BY <1>4, <3>1 DEF TestsTyped, TestsNoted, Doctor!ResultsAreNoted
  <2> QED  BY <2>1, <2>2, <2>3, <2>4
<1> QED
  BY <1>1, <1>3, <1>5 DEF DoctorInv, WalkTyped, WalkKnows, PanelTyped, PanelWaits, SlowIsLate

LEMMA DoctorStep ==
  ASSUME DoctorInv, [Doctor!Next]_(Doctor!vars)
  PROVE  DoctorInv'
<1>1. CASE UNCHANGED Doctor!vars
  BY <1>1 DEF DoctorInv, Doctor!vars, WalkTyped, WalkKnows, PanelTyped, PanelWaits, SlowIsLate,
              TestsTyped, TestsNoted, Doctor!ResultsAreNoted
<1>2. CASE Doctor!Next
  BY <1>2, WalkSteps, PanelSteps, RunSteps DEF Doctor!Next
<1> QED  BY <1>1, <1>2

--------------------------------------------------------------------------------
(* Evidence and reports (lib/evidence.ts, lib/incident-report.ts and their *)
(* pages): v1 the view, v2 the bucket, v3 the evidence page, v4 the detail *)
(* of an incident, v5 the stored reports, v6 the requests, v7 the turns,   *)
(* v8 the faults.  Each view has requests of its own.                      *)

LockModes == {"GOVERNANCE", "COMPLIANCE"}
Versions  == [mode : LockModes \union {"none", "gone"}, until : Nat]
Rows      == [of : VaultGiven.Incidents, version : Nat, mode : LockModes \union {"none", "gone", "LOCKED"}]
Verdicts  == {"run", "deleted", "immutable", "inconclusive"} \X Nat \X {"", "forbidden", "lost"}
Cards     == UNION {[T -> Verdicts] : T \in SUBSET VaultGiven.Incidents}
Promises  == [of : VaultGiven.Incidents, version : Nat, until : Nat]
Remarks   == {"cache", "sparse", "fallback", "store"}
Shown     == VaultGiven.Incidents \union {VaultGiven.NoIncident}
VaultAsks ==
  [op : {"list", "reload", "seal", "verify"}, of : Shown, stage : {"asked", "answered"},
   version : Nat, days : Nat, mode : LockModes \union {""}, rows : SUBSET Rows, force : BOOLEAN,
   alive : BOOLEAN, answer : {"none", "ok", "error", "deleted", "immutable", "inconclusive"},
   why : {"", "forbidden", "lost"}, warnings : SUBSET Remarks]
ReportAsks ==
  [op : {"probe", "post"}, of : VaultGiven.Incidents, stage : {"asked", "writing", "saving", "answered"},
   version : Nat, days : Nat, mode : {"", "cached"}, rows : SUBSET Rows, force : BOOLEAN,
   alive : BOOLEAN, answer : {"none", "model", "fallback"}, why : {""}, warnings : SUBSET Remarks]

Buckets == [versions : [VaultGiven.Incidents -> Seq(Versions)], hidden : SUBSET VaultGiven.Incidents, now : Nat]
Forms   == [pick : Shown, days : Nat, mode : LockModes]
Pages   ==
  [form : Forms, items : SUBSET Rows, error : {"none", "seal", "list"}, sealing : BOOLEAN,
   crossed : BOOLEAN, verdicts : Cards, promised : SUBSET Promises]
Reported ==
  [phase : {"idle", "loading", "error", "ready"}, of : Shown, written : {"none", "model", "fallback"},
   cached : BOOLEAN, warnings : SUBSET Remarks, via : {"none", "probe", "post"}]
Dialogs == [open : Shown, report : Reported]

(* What a row, a promise and a verdict say of the bucket.                  *)
RowFits(r, vt) == r.version = 0 \/ r.version \in DOMAIN vt.versions[r.of]
Kept(i, version, until, vt) ==
  /\ version \in DOMAIN vt.versions[i]
  /\ vt.now < until => /\ vt.versions[i][version].mode \in LockModes
                       /\ vt.versions[i][version].until = until
Earned(i, answer, version, why, vt) ==
  version # 0 =>
    /\ version \in DOMAIN vt.versions[i]
    /\ answer = "immutable" /\ why # "forbidden" => vt.versions[i][version].mode # "gone"
    /\ answer = "deleted" => vt.versions[i][version].mode = "gone"
PageFits(vt, pg) ==
  /\ \A r \in pg.items : RowFits(r, vt)
  /\ \A p \in pg.promised : Kept(p.of, p.version, p.until, vt)
  /\ \A i \in DOMAIN pg.verdicts :
       Earned(i, pg.verdicts[i][1], pg.verdicts[i][2], pg.verdicts[i][3], vt)

(* What a request of the evidence page says of the bucket and the page.    *)
Sealing(w) == w.op \in {"seal", "reload"}
SealFits(w, vt) == w.stage = "answered" /\ w.answer = "ok" => Kept(w.of, w.version, w.days, vt)
VerifyFits(w, vt, pg) ==
  /\ w.of \in DOMAIN pg.verdicts /\ pg.verdicts[w.of][1] = "run" /\ RowFits(w, vt)
  /\ w.stage = "answered" => /\ w.answer \in {"deleted", "immutable", "inconclusive"}
                             /\ Earned(w.of, w.answer, w.version, w.why, vt)
AskFits(w, vt, pg) ==
  /\ w \in VaultAsks /\ \A r \in w.rows : RowFits(r, vt)
  /\ w.op \in {"list", "reload"} /\ w.stage = "answered" => w.answer \in {"ok", "error"}
  /\ w.op \in {"seal", "verify"} => w.of \in VaultGiven.Incidents
  /\ w.op = "seal" => w.mode \in LockModes /\ SealFits(w, vt)
  /\ w.op = "verify" => VerifyFits(w, vt, pg)
  /\ Sealing(w) => pg.sealing
TwoFit(w, x, pg) ==
  /\ w.op = "verify" /\ x.op = "verify" /\ w.of = x.of => w = x
  /\ Sealing(w) /\ Sealing(x) => w = x
  /\ w.op = "list" /\ Sealing(x) => pg.crossed
WireFits(ws, vt, pg) ==
  /\ \A w \in ws : AskFits(w, vt, pg)
  /\ \A w, x \in ws : TwoFit(w, x, pg)

(* Until a first verdict, a page that shows nothing while something is     *)
(* sealed has an error to show or waits for an answer.                     *)
Awaited(ws) == \E w \in ws : w.op = "list" \/ Sealing(w)
FoundNothing(w) == w.op \in {"list", "reload"} /\ w.stage = "answered" /\ w.answer = "ok" /\ w.rows = {}
Explained ==
  ~v3.crossed /\ DOMAIN v3.verdicts = {} =>
    /\ v3.items = {} => Vault!Present = {} \/ v3.error # "none" \/ Awaited(v6)
    /\ \A w \in v6 : FoundNothing(w) => Vault!Present = {}
VaultSide == v1 = "vault" => WireFits(v6, v2, v3) /\ Explained

(* What the detail shows, and what a request of it says of the detail and  *)
(* the stored reports.                                                     *)
Whole(written, warnings, i, db) ==
  /\ written = "fallback" <=> "fallback" \in warnings
  /\ "store" \notin warnings => db[i] # "none"
DetailFits(dg, db) ==
  dg.report.phase = "ready" =>
    /\ dg.report.of \in VaultGiven.Incidents
    /\ dg.report.of # dg.open /\ dg.open # VaultGiven.NoIncident => dg.report.via = "post"
    /\ ~dg.report.cached => Whole(dg.report.written, dg.report.warnings, dg.report.of, db)
PostFits(w, db) ==
  /\ w.stage = "asked" => w.mode = "" /\ w.warnings = {}
  /\ w.stage = "writing" => w.mode = "" /\ w.warnings \subseteq {"cache", "sparse"}
  /\ w.stage = "saving" => /\ w.mode = "" /\ "store" \notin w.warnings /\ w.answer # "none"
                           /\ w.answer = "fallback" <=> "fallback" \in w.warnings
  /\ w.stage = "answered" /\ w.mode # "cached" => Whole(w.answer, w.warnings, w.of, db)
RequestFits(w, dg, db, turns) ==
  /\ w \in ReportAsks
  /\ w.op = "probe" => (w.alive => w.of = dg.open)
  /\ w.op = "post" => w.version < turns /\ PostFits(w, db)
ReportSide == v1 = "report" =>
  /\ \A w \in v6 : RequestFits(w, v4, v5, v7)
  /\ \A w, x \in v6 : w.op = "post" /\ x.op = "post" /\ w.version = x.version => w = x

VaultInv ==
  /\ v1 \in {"vault", "report"} /\ v7 \in 0 .. VaultGiven.MaxTurns /\ v8 \in 0 .. VaultGiven.MaxFaults
  /\ v2 \in Buckets /\ v3 \in Pages /\ v4 \in Dialogs
  /\ v5 \in [VaultGiven.Incidents -> {"none", "model", "fallback"}]
  /\ PageFits(v2, v3) /\ DetailFits(v4, v5) /\ VaultSide /\ ReportSide

LEMMA VaultPromise ==
  VaultInv => /\ Vault!TypeOK /\ Vault!SealedStays /\ Vault!VerdictsAreEarned
              /\ Vault!EmptyIsExplained /\ Vault!ProbesNeverStray /\ Vault!WarningsAreWhole
<1> SUFFICES ASSUME VaultInv
             PROVE  /\ Vault!TypeOK /\ Vault!SealedStays /\ Vault!VerdictsAreEarned
                    /\ Vault!EmptyIsExplained /\ Vault!ProbesNeverStray /\ Vault!WarningsAreWhole
  OBVIOUS
<1>1. Vault!TypeOK
  BY DEF VaultInv, Buckets, Pages, Dialogs, Reported, Shown, Vault!TypeOK
<1>2. Vault!SealedStays
  BY DEF VaultInv, PageFits, Kept, LockModes, Vault!SealedStays
<1>3. Vault!VerdictsAreEarned
  BY DEF VaultInv, PageFits, Earned, Vault!VerdictsAreEarned
<1>4. Vault!EmptyIsExplained
  <2> SUFFICES ASSUME v1 = "vault", v6 = {}, v3.items = {}, ~v3.crossed,
                      \A i \in VaultGiven.Incidents : Vault!Verdict(i)[1] = "idle"
               PROVE  Vault!Present = {} \/ v3.error # "none"
    BY DEF Vault!EmptyIsExplained
  <2>1. PICK T \in SUBSET VaultGiven.Incidents : v3.verdicts \in [T -> Verdicts]
    BY DEF VaultInv, Pages, Cards
  <2>2. DOMAIN v3.verdicts = {}
    BY <2>1 DEF Vault!Verdict, Verdicts
  <2> QED  BY <2>2 DEF VaultInv, VaultSide, Explained, Awaited
<1>5. Vault!ProbesNeverStray /\ Vault!WarningsAreWhole
  BY DEF VaultInv, DetailFits, Whole, Vault!ProbesNeverStray, Vault!WarningsAreWhole
<1> QED  BY <1>1, <1>2, <1>3, <1>4, <1>5

LEMMA VaultStart == Vault!Init => VaultInv
<1> SUFFICES ASSUME Vault!Init PROVE VaultInv
  OBVIOUS
<1>0. v7 \in 0 .. VaultGiven.MaxTurns /\ v8 \in 0 .. VaultGiven.MaxFaults
  <2>1. v7 = 0 /\ v8 = 0
    BY DEF Vault!Init
  <2>2. VaultGiven.MaxTurns \in Nat /\ VaultGiven.MaxFaults \in Nat
    BY VaultAssumption
  <2> QED  BY <2>1, <2>2
<1>1. v1 \in {"vault", "report"} /\ v5 \in [VaultGiven.Incidents -> {"none", "model", "fallback"}]
  BY DEF Vault!Init
<1>2. v2 \in Buckets
  <2> DEFINE empty == [i \in VaultGiven.Incidents |-> <<>>]
  <2>1. empty \in [VaultGiven.Incidents -> Seq(Versions)]
    OBVIOUS
  <2>2. v2 = [versions |-> empty, hidden |-> {}, now |-> 0]
    BY DEF Vault!Init
  <2> HIDE DEF empty
  <2> QED  BY <2>1, <2>2 DEF Buckets
<1>3. v3 \in Pages /\ DOMAIN v3.verdicts = {}
  <2> DEFINE cards == [i \in {} |-> <<"idle", 0, "">>]
  <2>1. cards \in [{} -> Verdicts] /\ DOMAIN cards = {}
    OBVIOUS
  <2>2. cards \in Cards
    BY <2>1 DEF Cards
  <2> HIDE DEF cards
  <2>3. v3 = [form |-> [pick |-> VaultGiven.NoIncident, days |-> 2, mode |-> "COMPLIANCE"], items |-> {},
              error |-> "none", sealing |-> FALSE, crossed |-> FALSE, verdicts |-> cards, promised |-> {}]
    BY DEF cards, Vault!Init
  <2> DEFINE form == [pick |-> VaultGiven.NoIncident, days |-> 2, mode |-> "COMPLIANCE"]
  <2>4. form \in Forms
    BY DEF Forms, Shown, LockModes
  <2> HIDE DEF form
  <2>5. v3 = [form |-> form, items |-> {}, error |-> "none", sealing |-> FALSE,
              crossed |-> FALSE, verdicts |-> cards, promised |-> {}]
    BY <2>3 DEF form
  <2> QED  BY <2>1, <2>2, <2>4, <2>5 DEF Pages
<1>4. v4 \in Dialogs /\ DetailFits(v4, v5)
  BY DEF Dialogs, Reported, Shown, DetailFits, Vault!NoReport, Vault!Init
<1>5. PageFits(v2, v3)
  BY <1>3 DEF PageFits, Vault!Init
<1>6. VaultSide
  <2> SUFFICES ASSUME v1 = "vault" PROVE WireFits(v6, v2, v3) /\ Explained
    BY DEF VaultSide
  <2> DEFINE w == Vault!Asked("list", VaultGiven.NoIncident)
  <2>1. w \in VaultAsks /\ w.op = "list" /\ w.rows = {} /\ w.stage = "asked"
    BY DEF VaultAsks, Shown, Vault!Asked
  <2>2. v6 = {w}
    BY DEF Vault!Init
  <2> HIDE DEF w
  <2> QED  BY <2>1, <2>2 DEF WireFits, AskFits, TwoFit, Sealing, Explained, Awaited, FoundNothing
<1>7. ReportSide
  BY DEF ReportSide, Vault!Init
<1> QED  BY <1>0, <1>1, <1>2, <1>3, <1>4, <1>5, <1>6, <1>7 DEF VaultInv

(* The bucket goes on: versions are added, and of one clip some that no    *)
(* lock holds are deleted.                                                 *)
Lasts(vt, vs, of) ==
  /\ vs \in Buckets /\ vt.now <= vs.now
  /\ \A i \in VaultGiven.Incidents : \A v \in DOMAIN vt.versions[i] :
       /\ v \in DOMAIN vs.versions[i]
       /\ \/ vs.versions[i][v] = vt.versions[i][v]
          \/ /\ i = of /\ vs.versions[i][v].mode = "gone"
             /\ vt.versions[i][v].mode \in LockModes => vt.versions[i][v].until <= vt.now

LEMMA KeptLasts ==
  ASSUME NEW vt \in Buckets, NEW vs, NEW of, Lasts(vt, vs, of), NEW i \in VaultGiven.Incidents,
         NEW version, NEW until \in Nat, Kept(i, version, until, vt)
  PROVE  Kept(i, version, until, vs)
<1>1. vt.now \in Nat /\ vs.now \in Nat /\ vt.now <= vs.now
  BY DEF Lasts, Buckets
<1>2. version \in DOMAIN vs.versions[i]
  BY DEF Lasts, Kept
<1>3. CASE vs.now < until
  <2>1. vt.now < until
    BY <1>1, <1>3
  <2>2. vt.versions[i][version].mode \in LockModes /\ vt.versions[i][version].until = until
    BY <2>1 DEF Kept
  <2>3. vs.versions[i][version] = vt.versions[i][version]
    BY <1>1, <2>1, <2>2 DEF Lasts, Kept
  <2> QED  BY <1>2, <2>2, <2>3 DEF Kept
<1> QED  BY <1>2, <1>3 DEF Kept

LEMMA RowLasts ==
  ASSUME NEW vt, NEW vs, NEW of, Lasts(vt, vs, of), NEW r, r.of \in VaultGiven.Incidents, RowFits(r, vt)
  PROVE  RowFits(r, vs)
BY DEF RowFits, Lasts

LEMMA EarnedLasts ==
  ASSUME NEW vt, NEW vs, NEW of, Lasts(vt, vs, of), NEW i \in VaultGiven.Incidents,
         NEW answer, NEW version, NEW why, Earned(i, answer, version, why, vt), i # of \/ answer = "run"
  PROVE  Earned(i, answer, version, why, vs)
BY DEF Earned, Lasts

LEMMA PageLasts ==
  ASSUME NEW vt \in Buckets, NEW vs, NEW of, NEW pg \in Pages, Lasts(vt, vs, of), PageFits(vt, pg),
         \A i \in DOMAIN pg.verdicts : i # of \/ pg.verdicts[i][1] = "run"
  PROVE  PageFits(vs, pg)
<1>1. \A r \in pg.items : r.of \in VaultGiven.Incidents
  BY DEF Pages, Rows
<1>2. \A p \in pg.promised : p.of \in VaultGiven.Incidents /\ p.until \in Nat
  BY DEF Pages, Promises
<1>3. \A i \in DOMAIN pg.verdicts : i \in VaultGiven.Incidents
  BY DEF Pages, Cards
<1>4. \A r \in pg.items : RowFits(r, vs)
  BY <1>1, RowLasts DEF PageFits
<1>5. \A p \in pg.promised : Kept(p.of, p.version, p.until, vs)
  BY <1>2, KeptLasts DEF PageFits
<1>6. \A i \in DOMAIN pg.verdicts :
        Earned(i, pg.verdicts[i][1], pg.verdicts[i][2], pg.verdicts[i][3], vs)
  BY <1>3, EarnedLasts DEF PageFits
<1> QED  BY <1>4, <1>5, <1>6 DEF PageFits

(* The verdicts on the other clips stay.                                   *)
CardsLast(pg, qg, of) ==
  \A i \in DOMAIN pg.verdicts : i # of => i \in DOMAIN qg.verdicts /\ qg.verdicts[i] = pg.verdicts[i]

LEMMA AskLasts ==
  ASSUME NEW vt \in Buckets, NEW vs, NEW of, NEW pg, NEW qg, NEW w, AskFits(w, vt, pg),
         Lasts(vt, vs, of), CardsLast(pg, qg, of), w.op = "verify" => w.of # of,
         Sealing(w) => qg.sealing
  PROVE  AskFits(w, vs, qg)
<1>1. \A r \in w.rows : r.of \in VaultGiven.Incidents /\ RowFits(r, vt)
  BY DEF AskFits, VaultAsks, Rows
<1>2. \A r \in w.rows : RowFits(r, vs)
  BY <1>1, RowLasts
<1>3. w.op = "seal" => SealFits(w, vs)
  BY KeptLasts DEF AskFits, SealFits, VaultAsks
<1>4. w.op = "verify" => VerifyFits(w, vs, qg)
  <2> SUFFICES ASSUME w.op = "verify" PROVE VerifyFits(w, vs, qg)
    OBVIOUS
  <2>1. w.of \in VaultGiven.Incidents /\ w.of # of /\ VerifyFits(w, vt, pg)
    BY DEF AskFits
  <2>2. w.of \in DOMAIN qg.verdicts /\ qg.verdicts[w.of][1] = "run"
    BY <2>1 DEF VerifyFits, CardsLast
  <2>3. RowFits(w, vs)
    BY <2>1, RowLasts DEF VerifyFits
  <2>4. w.stage = "answered" => Earned(w.of, w.answer, w.version, w.why, vs)
    BY <2>1, EarnedLasts DEF VerifyFits
  <2> QED  BY <2>1, <2>2, <2>3, <2>4 DEF VerifyFits
<1> QED  BY <1>2, <1>3, <1>4 DEF AskFits

(* Some requests end, some begin, and the rest fit what is left.           *)
LEMMA WireGoes ==
  ASSUME NEW vt \in Buckets, NEW vs, NEW of, NEW pg, NEW qg, NEW ws, NEW old, NEW new,
         WireFits(ws, vt, pg), Lasts(vt, vs, of), CardsLast(pg, qg, of), pg.crossed => qg.crossed,
         \A w \in ws \ old : (w.op = "verify" => w.of # of) /\ (Sealing(w) => qg.sealing),
         \A x \in new : AskFits(x, vs, qg),
         \A x \in new : \A w \in (ws \ old) \union new : TwoFit(x, w, qg) /\ TwoFit(w, x, qg)
  PROVE  WireFits((ws \ old) \union new, vs, qg)
<1>1. \A w \in ws \ old : AskFits(w, vs, qg)
  BY AskLasts DEF WireFits
<1>2. \A w, x \in ws \ old : TwoFit(w, x, qg)
  BY DEF WireFits, TwoFit
<1> QED  BY <1>1, <1>2 DEF WireFits

LEMMA LastsItself ==
  ASSUME NEW vt \in Buckets, NEW of
  PROVE  Lasts(vt, vt, of)
<1>1. vt.now \in Nat
  BY DEF Buckets
<1> QED  BY <1>1 DEF Lasts

FaultCounted == v8' = v8 \/ (v8 < VaultGiven.MaxFaults /\ v8' = v8 + 1)

(* What is left of the invariant where the evidence page is in use.        *)
LEMMA PageMoves ==
  ASSUME VaultInv, v1 = "vault", UNCHANGED <<v1, v4, v5>>, v7' = v7 \/ (Vault!May /\ Vault!Turn),
         FaultCounted,
         v2' \in Buckets, v3' \in Pages, PageFits(v2', v3'), WireFits(v6', v2', v3'), Explained'
  PROVE  VaultInv' /\ (Vault!Next => Vault!ReuseStep)
<1>1. VaultGiven.MaxTurns \in Nat /\ VaultGiven.MaxFaults \in Nat
  BY VaultAssumption
<1>2. v7' \in 0 .. VaultGiven.MaxTurns
  BY <1>1 DEF VaultInv, Vault!May, Vault!Turn
<1>3. v8' \in 0 .. VaultGiven.MaxFaults
  BY <1>1 DEF VaultInv, FaultCounted
<1>4. Vault!ReuseStep
  BY DEF VaultInv, VaultSide, WireFits, AskFits, VaultAsks, Vault!ReuseStep
<1> QED
  BY <1>2, <1>3, <1>4 DEF VaultInv, DetailFits, VaultSide, ReportSide

LEMMA LocksTyped ==
  ASSUME NEW i \in VaultGiven.Incidents
  PROVE  /\ VaultGiven.Locks[i].days \in Nat /\ VaultGiven.Locks[i].mode \in {"", "GOVERNANCE", "COMPLIANCE"}
         /\ VaultGiven.NoIncident \notin VaultGiven.Incidents
BY VaultAssumption

LEMMA AskedTypes ==
  ASSUME NEW op \in {"list", "reload", "seal", "verify"}, NEW i \in Shown
  PROVE  LET w == Vault!Asked(op, i)
         IN /\ w \in VaultAsks /\ w.op = op /\ w.of = i /\ w.rows = {} /\ w.stage = "asked"
            /\ w.version = 0
BY DEF VaultAsks, Vault!Asked

(* The form.                                                               *)
LEMMA FormSteps ==
  ASSUME VaultInv, (\E i \in VaultGiven.Incidents : Vault!Pick(i)) \/ \E days \in {0, 1} : Vault!Types(days)
  PROVE  VaultInv' /\ (Vault!Next => Vault!ReuseStep)
<1>1. PICK form \in Forms : v3' = [v3 EXCEPT !.form = form]
  <2>1. v3.form \in Forms /\ v3 \in Pages
    BY DEF VaultInv, Pages
  <2>2. ASSUME NEW i \in VaultGiven.Incidents, Vault!Pick(i)
        PROVE  \E form \in Forms : v3' = [v3 EXCEPT !.form = form]
    <3>1. Vault!Prefilled(v3.form, i) \in Forms
      BY <2>1, LocksTyped DEF Forms, Shown, LockModes, Vault!Prefilled
    <3> QED  BY <2>2, <3>1 DEF Vault!Pick
  <2>3. ASSUME NEW days \in {0, 1}, Vault!Types(days)
        PROVE  \E form \in Forms : v3' = [v3 EXCEPT !.form = form]
    <3>1. [v3.form EXCEPT !.days = days] \in Forms
      BY <2>1 DEF Forms
    <3> QED  BY <2>1, <2>3, <3>1 DEF Vault!Types, Pages
  <2> QED  BY <2>2, <2>3
<1>2. v1 = "vault" /\ Vault!May /\ Vault!Turn /\ UNCHANGED <<v1, v2, v4, v5, v6, v8>>
  BY DEF Vault!Pick, Vault!Types
<1>3. /\ v3' \in Pages /\ v3'.items = v3.items /\ v3'.promised = v3.promised /\ v3'.error = v3.error
      /\ v3'.verdicts = v3.verdicts /\ v3'.sealing = v3.sealing /\ v3'.crossed = v3.crossed
  BY <1>1 DEF VaultInv, Pages
<1>4. v2' \in Buckets /\ PageFits(v2', v3')
  BY <1>2, <1>3 DEF VaultInv, PageFits
<1>5. WireFits(v6', v2', v3')
  BY <1>2, <1>3 DEF VaultInv, VaultSide, WireFits, AskFits, VerifyFits, TwoFit
<1>6. Explained'
  BY <1>2, <1>3 DEF VaultInv, VaultSide, Explained, Vault!Present
<1> QED  BY <1>2, <1>3, <1>4, <1>5, <1>6, PageMoves DEF FaultCounted

(* Sealing a clip: asked, put or failed, answered.                         *)
LEMMA SealStep ==
  ASSUME VaultInv, Vault!Seal
  PROVE  VaultInv' /\ (Vault!Next => Vault!ReuseStep)
<1> DEFINE x == [Vault!Asked("seal", v3.form.pick) EXCEPT !.days = v3.form.days, !.mode = v3.form.mode]
<1>1. /\ v1 = "vault" /\ Vault!May /\ Vault!Turn /\ UNCHANGED <<v1, v2, v4, v5, v8>>
      /\ v6' = v6 \union {x} /\ ~v3.sealing /\ v3.form.pick # VaultGiven.NoIncident
      /\ v3' = [v3 EXCEPT !.sealing = TRUE, !.error = "none",
                          !.crossed = @ \/ \E w \in v6 : w.op = "list"]
  BY DEF Vault!Seal, Vault!Sent
<1>2. v3.form \in Forms /\ v3 \in Pages /\ v2 \in Buckets
  BY DEF VaultInv, Pages
<1>3. /\ v3' \in Pages /\ v3'.items = v3.items /\ v3'.promised = v3.promised
      /\ v3'.verdicts = v3.verdicts /\ v3'.sealing = TRUE
      /\ v3'.crossed = (v3.crossed \/ \E w \in v6 : w.op = "list")
  BY <1>1, <1>2 DEF Pages
<1>4. /\ x \in VaultAsks /\ x.op = "seal" /\ x.stage = "asked" /\ x.mode \in LockModes
      /\ x.of \in VaultGiven.Incidents /\ x.rows = {}
  BY <1>1, <1>2 DEF Forms, Shown, VaultAsks, Vault!Asked, LockModes
<1> HIDE DEF x
<1>5. PageFits(v2', v3')
  BY <1>1, <1>3 DEF VaultInv, PageFits
<1>6. WireFits(v6', v2', v3')
  <2>1. WireFits(v6, v2, v3)
    BY <1>1 DEF VaultInv, VaultSide
  <2>2. \A w \in v6 : ~Sealing(w)
    BY <1>1, <2>1 DEF WireFits, AskFits
  <2>3. AskFits(x, v2, v3')
    BY <1>3, <1>4 DEF AskFits, SealFits, Sealing
  <2>4. \A w \in (v6 \ {}) \union {x} : TwoFit(x, w, v3') /\ TwoFit(w, x, v3')
    BY <1>3, <1>4, <2>2 DEF TwoFit, Sealing
  <2>5. CardsLast(v3, v3', VaultGiven.NoIncident) /\ Lasts(v2, v2, VaultGiven.NoIncident)
    BY <1>2, <1>3, LastsItself DEF CardsLast
  <2>6. \A w \in v6 : w.op = "verify" => w.of # VaultGiven.NoIncident
    BY <2>1, VaultAssumption DEF WireFits, AskFits
  <2>7. \A w \in v6 \ {} : (w.op = "verify" => w.of # VaultGiven.NoIncident)
                            /\ (Sealing(w) => v3'.sealing)
    BY <1>3, <2>6
  <2>8. \A y \in {x} : AskFits(y, v2, v3')
    BY <2>3
  <2>9. \A y \in {x} : \A w \in (v6 \ {}) \union {x} : TwoFit(y, w, v3') /\ TwoFit(w, y, v3')
    BY <2>4
  <2>10. WireFits((v6 \ {}) \union {x}, v2, v3')
    BY <1>2, <1>3, <2>1, <2>5, <2>7, <2>8, <2>9, WireGoes
  <2> QED  BY <1>1, <2>10
<1>7. Explained'
  <2>1. x \in v6' /\ Sealing(x) /\ ~FoundNothing(x)
    BY <1>1, <1>4 DEF Sealing, FoundNothing
  <2>2. Awaited(v6')
    BY <2>1 DEF Awaited
  <2>3. Vault!Present' = Vault!Present
    BY <1>1 DEF Vault!Present
  <2>4. ~v3'.crossed => ~v3.crossed
    BY <1>3
  <2> QED  BY <1>1, <1>3, <2>1, <2>2, <2>3, <2>4 DEF VaultInv, VaultSide, Explained
<1> QED  BY <1>1, <1>2, <1>3, <1>5, <1>6, <1>7, PageMoves DEF FaultCounted

(* A request of the evidence page is of that view.                         *)
LEMMA OfThePage ==
  ASSUME VaultInv, NEW w \in v6, w.op \in {"list", "reload", "seal", "verify"}
  PROVE  /\ v1 = "vault" /\ AskFits(w, v2, v3) /\ w \in VaultAsks /\ WireFits(v6, v2, v3) /\ Explained
         /\ v2 \in Buckets /\ v3 \in Pages /\ PageFits(v2, v3)
BY DEF VaultInv, VaultSide, ReportSide, RequestFits, ReportAsks, WireFits, AskFits

(* A request becomes another of the same kind, about a bucket that lasts.  *)
LEMMA AskMoves ==
  ASSUME VaultInv, NEW w \in v6, NEW x, w.op \in {"list", "reload", "seal", "verify"},
         x.op = w.op, x.of = w.of, NEW of, Lasts(v2, v2', of), AskFits(x, v2', v3),
         \A y \in v6 \ {w} : y.op = "verify" => y.of # of,
         \A i \in DOMAIN v3.verdicts : i # of \/ v3.verdicts[i][1] = "run",
         UNCHANGED <<v1, v3, v4, v5, v7>>, FaultCounted,
         v6' = (v6 \ {w}) \union {x},
         ~v3.crossed /\ DOMAIN v3.verdicts = {} => (FoundNothing(x) => Vault!Present' = {}),
         ~v3.crossed /\ DOMAIN v3.verdicts = {} /\ Vault!Present' # Vault!Present => x.op = "seal"
  PROVE  VaultInv' /\ (Vault!Next => Vault!ReuseStep)
<1>1. /\ v1 = "vault" /\ WireFits(v6, v2, v3) /\ Explained
      /\ v2 \in Buckets /\ v3 \in Pages /\ PageFits(v2, v3) /\ AskFits(w, v2, v3)
  BY OfThePage
<1>2. v2' \in Buckets /\ PageFits(v2', v3')
  <2>1. v2' \in Buckets
    BY DEF Lasts
  <2> QED  BY <1>1, <2>1, PageLasts
<1>3. \A y \in v6 \ {w} : TwoFit(w, y, v3) /\ TwoFit(y, w, v3) /\ TwoFit(w, w, v3)
  BY <1>1 DEF WireFits
<1>4. \A y \in (v6 \ {w}) \union {x} : TwoFit(x, y, v3) /\ TwoFit(y, x, v3)
  BY <1>3 DEF TwoFit, Sealing
<1>5. \A y \in v6 : Sealing(y) => v3.sealing
  BY <1>1 DEF WireFits, AskFits
<1>6. CardsLast(v3, v3, of)
  BY DEF CardsLast
<1>7. WireFits(v6', v2', v3')
  <2>2. \A y \in v6 \ {w} : (y.op = "verify" => y.of # of) /\ (Sealing(y) => v3.sealing)
    BY <1>5
  <2>3. \A y \in {x} : AskFits(y, v2', v3)
    OBVIOUS
  <2>4. \A y \in {x} : \A z \in (v6 \ {w}) \union {x} : TwoFit(y, z, v3) /\ TwoFit(z, y, v3)
    BY <1>4
  <2>1. WireFits((v6 \ {w}) \union {x}, v2', v3)
    BY <1>1, <1>6, <2>2, <2>3, <2>4, WireGoes
  <2> QED  BY <2>1
<1>8. Explained'
  <2> SUFFICES ASSUME ~v3.crossed, DOMAIN v3.verdicts = {}
               PROVE  /\ v3.items = {} => Vault!Present' = {} \/ v3.error # "none" \/ Awaited(v6')
                      /\ \A y \in v6' : FoundNothing(y) => Vault!Present' = {}
    BY DEF Explained
  <2>1. x \in v6' /\ w.op # "verify"
    BY <1>1 DEF AskFits, VerifyFits
  <2>2. Awaited(v6')
    BY <2>1 DEF Awaited, Sealing
  <2>3. ASSUME NEW y \in v6', FoundNothing(y) PROVE Vault!Present' = {}
    <3>1. CASE y = x
      BY <2>3, <3>1
    <3>2. CASE y # x /\ Vault!Present' = Vault!Present
      BY <1>1, <2>3, <3>2 DEF Explained
    <3>3. CASE y # x /\ x.op = "seal"
      <4>1. y \in v6 \ {w} /\ y.op \in {"list", "reload"}
        BY <2>3, <3>3 DEF FoundNothing
      <4>2. TwoFit(w, y, v3) /\ TwoFit(y, w, v3) /\ w.op = "seal"
        BY <1>3, <3>3, <4>1
      <4> QED  BY <4>1, <4>2 DEF TwoFit, Sealing
    <3> QED  BY <3>1, <3>2, <3>3
  <2> QED  BY <2>2, <2>3
<1>9. UNCHANGED <<v1, v4, v5>> /\ v7' = v7 /\ v3' \in Pages
  BY <1>1
<1>10. FaultCounted
  OBVIOUS
<1> QED  BY <1>1, <1>2, <1>7, <1>8, <1>9, <1>10, PageMoves

(* What the bucket still has of a clip: everything, before a first delete. *)
LEMMA SealPutsStep ==
  ASSUME VaultInv, NEW w \in v6, Vault!SealPuts(w)
  PROVE  VaultInv' /\ (Vault!Next => Vault!ReuseStep)
<1> DEFINE old  == v2.versions[w.of]
           lock == [mode |-> w.mode, until |-> v2.now + w.days]
           new  == Append(old, lock)
           last == Len(old) + 1
           day  == v2.now + w.days
           x    == [w EXCEPT !.stage = "answered", !.answer = "ok", !.version = last, !.days = day]
<1>1. /\ w.op = "seal" /\ w.stage = "asked" /\ w.days \in 1 .. 3650
      /\ UNCHANGED <<v1, v3, v4, v5, v7, v8>> /\ v6' = (v6 \ {w}) \union {x}
      /\ v2' = [v2 EXCEPT !.versions[w.of] = Append(@, lock), !.hidden = @ \ {w.of}]
  BY DEF Vault!SealPuts, Vault!Accepts, Vault!Locked, Vault!Becomes
<1>2. AskFits(w, v2, v3) /\ w \in VaultAsks /\ v2 \in Buckets
  BY <1>1, OfThePage
<1>3. w.of \in VaultGiven.Incidents /\ w.mode \in LockModes /\ v3.sealing
  BY <1>1, <1>2 DEF AskFits, Sealing
<1>4. old \in Seq(Versions) /\ v2.now \in Nat
  BY <1>2, <1>3 DEF Buckets
<1>d. w.days \in Nat /\ day \in Nat /\ last \in Nat
  <2>1. w.days \in Nat
    BY <1>2 DEF VaultAsks
  <2> HIDE DEF old
  <2> QED  BY <1>4, <2>1
<1>5. lock \in Versions
  BY <1>3, <1>d DEF Versions, LockModes
<1> HIDE DEF last, day
<1>6. /\ x \in VaultAsks /\ x.op = "seal" /\ x.of = w.of /\ x.stage = "answered" /\ x.mode = w.mode
      /\ x.rows = w.rows /\ x.version = last /\ x.days = day
  <2>1. w.op = "seal" /\ w \in VaultAsks /\ last \in Nat /\ day \in Nat
    BY <1>1, <1>2, <1>d
  <2> DEFINE y == [w EXCEPT !.stage = "answered", !.answer = "ok"]
  <2>2. /\ y \in VaultAsks /\ y.op = "seal" /\ y.of = w.of /\ y.stage = "answered"
        /\ y.mode = w.mode /\ y.rows = w.rows
    BY <2>1 DEF VaultAsks
  <2>3. x = [y EXCEPT !.version = last, !.days = day]
    OBVIOUS
  <2> HIDE DEF x, y
  <2> QED  BY <2>1, <2>2, <2>3 DEF VaultAsks
<1> HIDE DEF x, lock
<1>7. new \in Seq(Versions) /\ last \in DOMAIN new /\ new[last] = lock
      /\ \A v \in DOMAIN old : new[v] = old[v] /\ v \in DOMAIN new
  <2> HIDE DEF old
  <2> QED  BY <1>4, <1>5 DEF last
<1>v. v2' = [v2 EXCEPT !.versions = [v2.versions EXCEPT ![w.of] = new], !.hidden = v2.hidden \ {w.of}]
  BY <1>1, <1>2 DEF Buckets
<1> HIDE DEF new
<1>8. v2' \in Buckets /\ v2'.versions = [v2.versions EXCEPT ![w.of] = new]
      /\ v2'.now = v2.now
  <2>1. [v2.versions EXCEPT ![w.of] = new] \in [VaultGiven.Incidents -> Seq(Versions)]
    BY <1>2, <1>7 DEF Buckets
  <2> QED  BY <1>2, <1>v, <2>1 DEF Buckets
<1>9. /\ v2'.versions[w.of] = new
      /\ \A i \in VaultGiven.Incidents \ {w.of} : v2'.versions[i] = v2.versions[i]
  BY <1>2, <1>3, <1>8 DEF Buckets
<1>10. Lasts(v2, v2', VaultGiven.NoIncident)
  BY <1>4, <1>7, <1>8, <1>9 DEF Lasts
<1>11. Kept(x.of, x.version, x.days, v2')
  BY <1>3, <1>6, <1>7, <1>9 DEF Kept, lock, day
<1>12. AskFits(x, v2', v3)
  <2>1. \A r \in w.rows : RowFits(r, v2) /\ r.of \in VaultGiven.Incidents
    BY <1>2 DEF AskFits, VaultAsks, Rows
  <2>2. \A r \in x.rows : RowFits(r, v2')
    BY <1>6, <1>10, <2>1, RowLasts
  <2> QED  BY <1>3, <1>6, <1>11, <2>2 DEF AskFits, SealFits, Sealing
<1>n. VaultGiven.NoIncident \notin VaultGiven.Incidents
  BY VaultAssumption
<1>p. WireFits(v6, v2, v3) /\ v3 \in Pages
  BY <1>1, OfThePage
<1>13. \A y \in v6 \ {w} : y.op = "verify" => y.of # VaultGiven.NoIncident
  BY <1>n, <1>p DEF WireFits, AskFits
<1>14. \A i \in DOMAIN v3.verdicts : i # VaultGiven.NoIncident
  BY <1>n, <1>p DEF Pages, Cards
<1>15. FaultCounted /\ ~FoundNothing(x)
  BY <1>1, <1>6 DEF FaultCounted, FoundNothing
<1> QED  BY <1>1, <1>6, <1>10, <1>12, <1>13, <1>14, <1>15, AskMoves

(* The answers that leave the bucket as it is.                             *)
LEMMA AskAnswers ==
  ASSUME VaultInv, NEW w \in v6, NEW x, w.op \in {"list", "reload", "seal", "verify"},
         x.op = w.op, x.of = w.of, AskFits(x, v2, v3),
         UNCHANGED <<v1, v2, v3, v4, v5, v7>>, FaultCounted,
         v6' = (v6 \ {w}) \union {x}, FoundNothing(x) => Vault!Present = {}
  PROVE  VaultInv' /\ (Vault!Next => Vault!ReuseStep)
<1>1. v2 \in Buckets /\ WireFits(v6, v2, v3) /\ v3 \in Pages
  BY OfThePage
<1>2. \A y \in v6 \ {w} : y.op = "verify" => y.of # VaultGiven.NoIncident
  BY <1>1, VaultAssumption DEF WireFits, AskFits
<1>3. \A i \in DOMAIN v3.verdicts : i # VaultGiven.NoIncident
  BY <1>1, VaultAssumption DEF Pages, Cards
<1>4. v2' = v2 /\ Vault!Present' = Vault!Present
  BY DEF Vault!Present
<1>5. Lasts(v2, v2', VaultGiven.NoIncident) /\ AskFits(x, v2', v3)
  BY <1>1, <1>4, LastsItself
<1> QED  BY <1>2, <1>3, <1>4, <1>5, AskMoves

LEMMA AskFails ==
  ASSUME VaultInv, NEW w \in v6, Vault!SealFails(w) \/ Vault!ListFails(w)
  PROVE  VaultInv' /\ (Vault!Next => Vault!ReuseStep)
<1> DEFINE x == [w EXCEPT !.stage = "answered", !.answer = "error"]
<1>1. /\ w.op \in {"seal", "list", "reload"} /\ w.stage = "asked" /\ FaultCounted
      /\ UNCHANGED <<v1, v2, v3, v4, v5, v7>> /\ v6' = (v6 \ {w}) \union {x}
  BY DEF Vault!SealFails, Vault!ListFails, Vault!Lists, Vault!Becomes, FaultCounted, Vault!Fault
<1>2. AskFits(w, v2, v3) /\ w \in VaultAsks
  BY <1>1, OfThePage
<1>3. /\ x \in VaultAsks /\ x.op = w.op /\ x.of = w.of /\ x.stage = "answered" /\ x.mode = w.mode
      /\ x.rows = w.rows /\ x.answer = "error"
  BY <1>1, <1>2 DEF VaultAsks
<1> HIDE DEF x
<1>4. AskFits(x, v2, v3) /\ ~FoundNothing(x)
  BY <1>1, <1>2, <1>3 DEF AskFits, SealFits, Sealing, FoundNothing
<1> QED  BY <1>1, <1>3, <1>4, AskAnswers

(* The rows of a listing are there.                                        *)
LEMMA NewestIs ==
  ASSUME v2 \in Buckets, NEW i \in Vault!Present
  PROVE  Vault!Newest(i) \in DOMAIN v2.versions[i] /\ i \in VaultGiven.Incidents
<1> DEFINE S == {v \in DOMAIN v2.versions[i] : v2.versions[i][v].mode # "gone"}
<1>1. i \in VaultGiven.Incidents /\ S # {}
  BY DEF Vault!Present
<1>2. v2.versions[i] \in Seq(Versions)
  BY <1>1 DEF Buckets
<1>3. Len(v2.versions[i]) \in Nat /\ S \in SUBSET (0 .. Len(v2.versions[i]))
  BY <1>2
<1>4. PICK m \in S : \A k \in S : k <= m
  <2> HIDE DEF S
  <2> QED  BY <1>1, <1>3, HasGreatest
<1>5. m \in Nat /\ \A u \in DOMAIN v2.versions[i] : u \in Nat
  BY <1>2, <1>3
<1>6. \A u \in DOMAIN v2.versions[i] : u > m => v2.versions[i][u].mode = "gone"
  <2> SUFFICES ASSUME NEW u \in DOMAIN v2.versions[i], u > m, v2.versions[i][u].mode # "gone"
               PROVE  FALSE
    OBVIOUS
  <2>1. u \in S
    OBVIOUS
  <2>2. u <= m /\ u \in Nat
    BY <1>4, <1>5, <2>1
  <2> QED  BY <1>5, <2>2
<1> QED  BY <1>1, <1>4, <1>6 DEF Vault!Newest

LEMMA ListReadsStep ==
  ASSUME VaultInv, NEW w \in v6, NEW headless, Vault!ListReads(w, headless)
  PROVE  VaultInv' /\ (Vault!Next => Vault!ReuseStep)
<1> DEFINE rows == {Vault!Row(i, headless) : i \in Vault!Present}
           x    == [w EXCEPT !.stage = "answered", !.answer = "ok", !.rows = rows]
<1>1. /\ w.op \in {"list", "reload"} /\ w.stage = "asked" /\ FaultCounted
      /\ UNCHANGED <<v1, v2, v3, v4, v5, v7>> /\ v6' = (v6 \ {w}) \union {x}
  BY DEF Vault!ListReads, Vault!Lists, Vault!Becomes, FaultCounted, Vault!Fault
<1>2. AskFits(w, v2, v3) /\ w \in VaultAsks /\ v2 \in Buckets
  BY <1>1, OfThePage
<1>3. ASSUME NEW i \in Vault!Present
      PROVE  Vault!Row(i, headless) \in Rows /\ RowFits(Vault!Row(i, headless), v2)
  <2>1. Vault!Newest(i) \in DOMAIN v2.versions[i] /\ i \in VaultGiven.Incidents
    BY <1>2, NewestIs
  <2>2. v2.versions[i] \in Seq(Versions)
    BY <1>2, <2>1 DEF Buckets
  <2>3. Vault!Newest(i) \in Nat /\ v2.versions[i][Vault!Newest(i)] \in Versions
    BY <2>1, <2>2
  <2>4. v2.versions[i][Vault!Newest(i)].mode \in LockModes \union {"none", "gone"}
    BY <2>3 DEF Versions
  <2>5. Vault!Row(i, headless) \in Rows
    BY <2>1, <2>3, <2>4 DEF Rows, Vault!Row
  <2>6. Vault!Row(i, headless).of = i /\ Vault!Row(i, headless).version \in {0, Vault!Newest(i)}
    BY DEF Vault!Row
  <2> QED  BY <2>1, <2>5, <2>6 DEF RowFits
<1>4. rows \in SUBSET Rows /\ (\A r \in rows : RowFits(r, v2)) /\ (rows = {} => Vault!Present = {})
  BY <1>3
<1> HIDE DEF rows
<1>5. /\ x \in VaultAsks /\ x.op = w.op /\ x.of = w.of /\ x.stage = "answered"
      /\ x.rows = rows /\ x.answer = "ok"
  BY <1>1, <1>2, <1>4 DEF VaultAsks
<1> HIDE DEF x
<1>6. AskFits(x, v2, v3) /\ (FoundNothing(x) => Vault!Present = {})
  BY <1>1, <1>2, <1>4, <1>5 DEF AskFits, Sealing, FoundNothing
<1> QED  BY <1>1, <1>5, <1>6, AskAnswers

(* A delete leaves alone what a lock holds.                                *)
LEMMA DeleteLasts ==
  ASSUME v2 \in Buckets, NEW w \in VaultAsks, w.of \in VaultGiven.Incidents, RowFits(w, v2),
         NEW vs, vs = Vault!Delete(w)
  PROVE  /\ Lasts(v2, vs, w.of)
         /\ w.version # 0 /\ Vault!Held(w.of, w.version) =>
              vs.versions[w.of][w.version].mode # "gone" /\ w.version \in DOMAIN vs.versions[w.of]
         /\ w.version # 0 /\ ~Vault!Held(w.of, w.version) =>
              vs.versions[w.of][w.version].mode = "gone" /\ w.version \in DOMAIN vs.versions[w.of]
<1>1. CASE w.version = 0
  <2>1. vs = [v2 EXCEPT !.hidden = v2.hidden \union {w.of}]
    BY <1>1 DEF Vault!Delete
  <2>2. vs \in Buckets /\ vs.versions = v2.versions /\ vs.now = v2.now /\ v2.now \in Nat
    BY <2>1 DEF Buckets
  <2> QED  BY <1>1, <2>2 DEF Lasts
<1>2. CASE w.version # 0 /\ Vault!Held(w.of, w.version)
  <2>1. vs = v2
    BY <1>2 DEF Vault!Delete
  <2>2. w.version \in DOMAIN v2.versions[w.of]
    BY <1>2 DEF RowFits
  <2> QED  BY <1>2, <2>1, <2>2, LastsItself DEF Vault!Held
<1>3. CASE w.version # 0 /\ ~Vault!Held(w.of, w.version)
  <2> DEFINE list == v2.versions[w.of]
             gone == [mode |-> "gone", until |-> 0]
             new  == [list EXCEPT ![w.version] = gone]
  <2>1. vs = [v2 EXCEPT !.versions = [v2.versions EXCEPT ![w.of] = new]]
    BY <1>3 DEF Vault!Delete, Buckets
  <2>2. list \in Seq(Versions) /\ w.version \in DOMAIN list
    BY <1>3 DEF RowFits, Buckets
  <2>3. gone \in Versions /\ gone.mode = "gone"
    BY DEF Versions
  <2>4. new \in Seq(Versions) /\ DOMAIN new = DOMAIN list /\ new[w.version] = gone
        /\ \A v \in DOMAIN list : v # w.version => new[v] = list[v]
    <3> HIDE DEF list, gone
    <3> QED  BY <2>2, <2>3
  <2>5. list[w.version] \in Versions /\ v2.now \in Nat
    <3>1. list[w.version] \in Versions
      <4> HIDE DEF list
      <4> QED  BY <2>2
    <3> QED  BY <3>1 DEF Buckets
  <2>6. list[w.version].mode \in LockModes => list[w.version].until <= v2.now
    BY <1>3, <2>5 DEF Vault!Held, Versions, LockModes
  <2> HIDE DEF new, gone
  <2>t. [v2.versions EXCEPT ![w.of] = new] \in [VaultGiven.Incidents -> Seq(Versions)]
    BY <2>4 DEF Buckets
  <2>7. vs \in Buckets /\ vs.now = v2.now /\ vs.versions[w.of] = new
        /\ \A i \in VaultGiven.Incidents \ {w.of} : vs.versions[i] = v2.versions[i]
    BY <2>1, <2>t DEF Buckets
  <2> HIDE DEF list
  <2>8. Lasts(v2, vs, w.of)
    BY <2>3, <2>4, <2>5, <2>6, <2>7 DEF Lasts, list
  <2> QED  BY <1>3, <2>2, <2>3, <2>4, <2>7, <2>8
<1> QED  BY <1>1, <1>2, <1>3

(* What an attempt to delete comes to.                                     *)
DeleteTried(w, answer, why) ==
  /\ w.op = "verify" /\ w.stage = "asked" /\ FaultCounted
  /\ UNCHANGED <<v1, v3, v4, v5, v7>>
  /\ v6' = (v6 \ {w}) \union {[w EXCEPT !.stage = "answered", !.answer = answer, !.why = why]}
  /\ v2' = v2 \/ v2' = Vault!Delete(w)
  /\ answer = "immutable" /\ why # "forbidden" =>
       v2' = Vault!Delete(w) /\ w.version # 0 /\ Vault!Held(w.of, w.version)
  /\ answer = "deleted" =>
       v2' = Vault!Delete(w) /\ ~(w.version # 0 /\ Vault!Held(w.of, w.version))

LEMMA VerifyComesTo ==
  ASSUME VaultInv, NEW w \in v6,
         Vault!VerifyTries(w) \/ \E e \in {"forbidden", "lost"} : Vault!VerifyFails(w, e)
  PROVE  \E answer \in {"deleted", "immutable", "inconclusive"} :
           \E why \in {w.why, "forbidden", "lost"} : DeleteTried(w, answer, why)
<1>1. CASE Vault!VerifyTries(w)
  <2> DEFINE answer == IF w.version # 0 /\ Vault!Held(w.of, w.version)
                       THEN Vault!Outcome("lock") ELSE "deleted"
  <2>1. answer \in {"deleted", "immutable"}
        /\ (answer = "immutable" => w.version # 0 /\ Vault!Held(w.of, w.version))
        /\ (answer = "deleted" => ~(w.version # 0 /\ Vault!Held(w.of, w.version)))
    BY DEF Vault!Outcome, Vault!IsAccessDenied
  <2>2. /\ w.op = "verify" /\ w.stage = "asked" /\ UNCHANGED <<v1, v3, v4, v5, v7, v8>>
        /\ v2' = Vault!Delete(w)
        /\ v6' = (v6 \ {w}) \union {[w EXCEPT !.stage = "answered", !.answer = answer]}
    BY <1>1 DEF Vault!VerifyTries, Vault!Becomes
  <2>3. w \in VaultAsks
    BY <2>2, OfThePage
  <2> HIDE DEF answer
  <2>4. [w EXCEPT !.stage = "answered", !.answer = answer]
          = [w EXCEPT !.stage = "answered", !.answer = answer, !.why = w.why]
    BY <2>3 DEF VaultAsks
  <2>5. DeleteTried(w, answer, w.why)
    BY <2>1, <2>2, <2>4 DEF DeleteTried, FaultCounted
  <2> QED  BY <2>1, <2>5
<1>2. ASSUME NEW e \in {"forbidden", "lost"}, Vault!VerifyFails(w, e)
      PROVE  DeleteTried(w, Vault!Outcome(e), e) /\ Vault!Outcome(e) \in {"immutable", "inconclusive"}
  <2>1. Vault!Outcome(e) = IF e = "forbidden" THEN "immutable" ELSE "inconclusive"
    BY DEF Vault!Outcome, Vault!IsAccessDenied
  <2>2. /\ w.op = "verify" /\ w.stage = "asked" /\ UNCHANGED <<v1, v3, v4, v5, v7>>
        /\ v2' = v2 \/ v2' = Vault!Delete(w)
        /\ v6' = (v6 \ {w}) \union
                   {[w EXCEPT !.stage = "answered", !.answer = Vault!Outcome(e), !.why = e]}
        /\ FaultCounted
    BY <1>2 DEF Vault!VerifyFails, Vault!Becomes, FaultCounted, Vault!Fault
  <2> QED  BY <2>1, <2>2 DEF DeleteTried
<1> QED  BY <1>1, <1>2

(* An attempt is answered, and the bucket has what the answer says.        *)
LEMMA VerifyTried ==
  ASSUME VaultInv, NEW w \in v6,
         Vault!VerifyTries(w) \/ \E e \in {"forbidden", "lost"} : Vault!VerifyFails(w, e)
  PROVE  VaultInv' /\ (Vault!Next => Vault!ReuseStep)
<1>0. PICK answer \in {"deleted", "immutable", "inconclusive"}, why \in {w.why, "forbidden", "lost"} :
        DeleteTried(w, answer, why)
  BY VerifyComesTo
<1>1. /\ w.op = "verify" /\ w.stage = "asked" /\ FaultCounted
      /\ UNCHANGED <<v1, v3, v4, v5, v7>>
      /\ v6' = (v6 \ {w}) \union {[w EXCEPT !.stage = "answered", !.answer = answer, !.why = why]}
      /\ v2' = v2 \/ v2' = Vault!Delete(w)
      /\ answer = "immutable" /\ why # "forbidden" =>
           v2' = Vault!Delete(w) /\ w.version # 0 /\ Vault!Held(w.of, w.version)
      /\ answer = "deleted" =>
           v2' = Vault!Delete(w) /\ ~(w.version # 0 /\ Vault!Held(w.of, w.version))
  BY <1>0 DEF DeleteTried
<1> DEFINE x == [w EXCEPT !.stage = "answered", !.answer = answer, !.why = why]
<1>2. /\ AskFits(w, v2, v3) /\ w \in VaultAsks /\ v2 \in Buckets /\ v3 \in Pages /\ WireFits(v6, v2, v3)
      /\ PageFits(v2, v3)
  BY <1>1, OfThePage
<1>3. w.of \in VaultGiven.Incidents /\ VerifyFits(w, v2, v3)
  BY <1>1, <1>2 DEF AskFits
<1>4. why \in {"", "forbidden", "lost"}
  BY <1>2 DEF VaultAsks
<1>5. /\ x \in VaultAsks /\ x.op = w.op /\ x.of = w.of /\ x.stage = "answered" /\ x.version = w.version
      /\ x.rows = w.rows /\ x.answer = answer /\ x.why = why
  BY <1>2, <1>4 DEF VaultAsks
<1>6. v6' = (v6 \ {w}) \union {x}
  BY <1>1
<1> HIDE DEF x
<1>7. Lasts(v2, v2', w.of)
  BY <1>1, <1>2, <1>3, DeleteLasts, LastsItself DEF VerifyFits
<1>8. Earned(w.of, answer, w.version, why, v2')
  BY <1>1, <1>2, <1>3, <1>7, DeleteLasts DEF VerifyFits, RowFits, Earned, Lasts
<1>9. AskFits(x, v2', v3)
  <2>1. \A r \in x.rows : RowFits(r, v2')
    <3>1. \A r \in w.rows : RowFits(r, v2) /\ r.of \in VaultGiven.Incidents
      BY <1>2 DEF AskFits, VaultAsks, Rows
    <3> QED  BY <1>5, <1>7, <3>1, RowLasts
  <2>2. RowFits(x, v2')
    BY <1>3, <1>5, <1>7, RowLasts DEF VerifyFits, RowFits
  <2>3. VerifyFits(x, v2', v3)
    BY <1>1, <1>3, <1>5, <1>8, <2>2 DEF VerifyFits
  <2> QED  BY <1>1, <1>3, <1>5, <2>1, <2>3 DEF AskFits, Sealing
<1>10. \A y \in v6 \ {w} : y.op = "verify" => y.of # w.of
  BY <1>1, <1>2 DEF WireFits, TwoFit
<1>11. \A i \in DOMAIN v3.verdicts : i # w.of \/ v3.verdicts[i][1] = "run"
  BY <1>3 DEF VerifyFits
<1>12. DOMAIN v3.verdicts # {} /\ ~FoundNothing(x)
  BY <1>1, <1>3, <1>5 DEF VerifyFits, FoundNothing
<1>13. UNCHANGED <<v1, v3, v4, v5, v7>> /\ FaultCounted /\ w.op = "verify"
  BY <1>1
<1> QED  BY <1>5, <1>6, <1>7, <1>9, <1>10, <1>11, <1>12, <1>13, AskMoves

(* An answered seal has the page listed again, or shows the error.         *)
LEMMA SealArrivesStep ==
  ASSUME VaultInv, NEW w \in v6, Vault!SealArrives(w)
  PROVE  VaultInv' /\ (Vault!Next => Vault!ReuseStep)
<1>1. /\ w.op = "seal" /\ w.stage = "answered" /\ UNCHANGED <<v1, v2, v4, v5, v7, v8>>
  BY DEF Vault!SealArrives
<1>2. /\ AskFits(w, v2, v3) /\ w \in VaultAsks /\ v2 \in Buckets /\ v3 \in Pages
      /\ WireFits(v6, v2, v3) /\ PageFits(v2, v3) /\ v1 = "vault" /\ Explained
  BY <1>1, OfThePage
<1>3. w.of \in VaultGiven.Incidents /\ SealFits(w, v2) /\ v3.sealing
  BY <1>1, <1>2 DEF AskFits, Sealing
<1>4. Lasts(v2, v2, VaultGiven.NoIncident) /\ VaultGiven.NoIncident \notin VaultGiven.Incidents
  BY <1>2, LastsItself, VaultAssumption
<1>5. \A y \in v6 \ {w} : ~Sealing(y) /\ (y.op = "verify" => y.of # VaultGiven.NoIncident)
  BY <1>1, <1>2, <1>4 DEF WireFits, TwoFit, AskFits, Sealing
<1>6. UNCHANGED <<v1, v4, v5>> /\ v7' = v7 /\ FaultCounted /\ Vault!Present' = Vault!Present
  BY <1>1 DEF FaultCounted, Vault!Present
<1>7. CASE w.answer = "ok"
  <2> DEFINE x == Vault!Asked("reload", w.of)
             p == [of |-> w.of, version |-> w.version, until |-> w.days]
  <2>1. v6' = (v6 \ {w}) \union {x} /\ v3' = [v3 EXCEPT !.promised = @ \union {p}]
    BY <1>7 DEF Vault!SealArrives, Vault!Becomes
  <2>2. p \in Promises /\ p.of = w.of /\ p.version = w.version /\ p.until = w.days
    BY <1>2, <1>3 DEF Promises, VaultAsks
  <2>3. x \in VaultAsks /\ x.op = "reload" /\ x.of = w.of /\ x.rows = {} /\ x.stage = "asked"
    BY <1>3, AskedTypes DEF Shown
  <2> HIDE DEF x, p
  <2>4. /\ v3' \in Pages /\ v3'.items = v3.items /\ v3'.promised = v3.promised \union {p}
        /\ v3'.verdicts = v3.verdicts /\ v3'.sealing = v3.sealing /\ v3'.crossed = v3.crossed
        /\ v3'.error = v3.error
    BY <1>2, <2>1, <2>2 DEF Pages
  <2>5. Kept(p.of, p.version, p.until, v2)
    BY <1>1, <1>3, <1>7, <2>2 DEF SealFits
  <2>6. PageFits(v2', v3')
    BY <1>1, <1>2, <2>4, <2>5 DEF PageFits
  <2>7. AskFits(x, v2, v3')
    BY <1>3, <2>3, <2>4 DEF AskFits, Sealing
  <2>8. \A y \in (v6 \ {w}) \union {x} : TwoFit(x, y, v3') /\ TwoFit(y, x, v3')
    <3>1. \A y \in v6 \ {w} : y.op = "list" => v3.crossed
      BY <1>1, <1>2 DEF WireFits, TwoFit, Sealing
    <3> QED  BY <1>5, <2>3, <2>4, <3>1 DEF TwoFit, Sealing
  <2>9. \A y \in v6 \ {w} : (y.op = "verify" => y.of # VaultGiven.NoIncident)
                            /\ (Sealing(y) => v3'.sealing)
    BY <1>5
  <2>10. (\A y \in {x} : AskFits(y, v2, v3'))
         /\ \A y \in {x} : \A z \in (v6 \ {w}) \union {x} : TwoFit(y, z, v3') /\ TwoFit(z, y, v3')
    BY <2>7, <2>8
  <2>11. CardsLast(v3, v3', VaultGiven.NoIncident)
    BY <2>4 DEF CardsLast
  <2>12. WireFits((v6 \ {w}) \union {x}, v2, v3')
    BY <1>2, <1>4, <2>4, <2>9, <2>10, <2>11, WireGoes
  <2>13. Explained'
    <3>1. Awaited(v6') /\ ~FoundNothing(x)
      BY <2>1, <2>3 DEF Awaited, Sealing, FoundNothing
    <3> QED  BY <1>2, <1>6, <2>1, <2>4, <3>1 DEF Explained
  <2> QED  BY <1>1, <1>2, <1>6, <2>1, <2>4, <2>6, <2>12, <2>13, PageMoves
<1>8. CASE w.answer # "ok"
  <2>1. v6' = v6 \ {w} /\ v3' = [v3 EXCEPT !.error = "seal", !.sealing = FALSE]
    BY <1>8 DEF Vault!SealArrives, Vault!Done
  <2>2. /\ v3' \in Pages /\ v3'.items = v3.items /\ v3'.promised = v3.promised
        /\ v3'.verdicts = v3.verdicts /\ v3'.crossed = v3.crossed /\ v3'.error = "seal"
    BY <1>2, <2>1 DEF Pages
  <2>3. PageFits(v2', v3')
    BY <1>1, <1>2, <2>2 DEF PageFits
  <2>4. CardsLast(v3, v3', VaultGiven.NoIncident)
    BY <2>2 DEF CardsLast
  <2>5. \A y \in v6 \ {w} : (y.op = "verify" => y.of # VaultGiven.NoIncident)
                            /\ (Sealing(y) => v3'.sealing)
    BY <1>5
  <2>6. WireFits((v6 \ {w}) \union {}, v2, v3')
    BY <1>2, <1>4, <2>2, <2>4, <2>5, WireGoes
  <2>7. WireFits(v6', v2', v3')
    <3>1. v6' = (v6 \ {w}) \union {}
      BY <2>1
    <3> QED  BY <1>1, <2>6, <3>1
  <2>8. Explained'
    BY <1>2, <1>6, <2>1, <2>2 DEF Explained
  <2> QED  BY <1>1, <1>2, <1>6, <2>2, <2>3, <2>7, <2>8, PageMoves
<1> QED  BY <1>7, <1>8

(* A listing is shown, or its error.                                       *)
LEMMA ListArrivesStep ==
  ASSUME VaultInv, NEW w \in v6, Vault!ListArrives(w)
  PROVE  VaultInv' /\ (Vault!Next => Vault!ReuseStep)
<1> DEFINE error == Vault!ErrorAfter(w)
<1>1. /\ w.op \in {"list", "reload"} /\ w.stage = "answered" /\ UNCHANGED <<v1, v2, v4, v5, v7, v8>>
      /\ v6' = v6 \ {w}
      /\ v3' = [v3 EXCEPT !.items = w.rows, !.error = error, !.sealing = @ /\ w.op # "reload"]
  BY DEF Vault!ListArrives, Vault!Lists, Vault!Done
<1>2. /\ AskFits(w, v2, v3) /\ w \in VaultAsks /\ v2 \in Buckets /\ v3 \in Pages
      /\ WireFits(v6, v2, v3) /\ PageFits(v2, v3) /\ v1 = "vault" /\ Explained
  BY <1>1, OfThePage
<1>3. w.rows \in SUBSET Rows /\ (\A r \in w.rows : RowFits(r, v2)) /\ w.answer \in {"ok", "error"}
  BY <1>1, <1>2 DEF AskFits, VaultAsks
<1>4. error \in {"none", "seal", "list"} /\ (w.answer = "error" => error # "none")
  BY <1>2, <1>3 DEF Pages, Vault!ErrorAfter
<1> HIDE DEF error
<1>5. /\ v3' \in Pages /\ v3'.items = w.rows /\ v3'.promised = v3.promised /\ v3'.error = error
      /\ v3'.verdicts = v3.verdicts /\ v3'.crossed = v3.crossed
      /\ v3'.sealing = (v3.sealing /\ w.op # "reload")
  BY <1>1, <1>2, <1>3, <1>4 DEF Pages
<1>6. PageFits(v2', v3')
  BY <1>1, <1>2, <1>3, <1>5 DEF PageFits
<1>7. Lasts(v2, v2, VaultGiven.NoIncident) /\ VaultGiven.NoIncident \notin VaultGiven.Incidents
  BY <1>2, LastsItself, VaultAssumption
<1>8. \A y \in v6 \ {w} : (y.op = "verify" => y.of # VaultGiven.NoIncident)
                          /\ (Sealing(y) => v3'.sealing)
  <2>1. \A y \in v6 \ {w} : Sealing(y) => v3.sealing /\ w.op # "reload"
    BY <1>1, <1>2 DEF WireFits, TwoFit, AskFits, Sealing
  <2>2. \A y \in v6 \ {w} : y.op = "verify" => y.of # VaultGiven.NoIncident
    BY <1>2, <1>7 DEF WireFits, AskFits
  <2> QED  BY <1>5, <2>1, <2>2
<1>9. CardsLast(v3, v3', VaultGiven.NoIncident)
  BY <1>5 DEF CardsLast
<1>10. WireFits((v6 \ {w}) \union {}, v2, v3')
  BY <1>2, <1>5, <1>7, <1>8, <1>9, WireGoes
<1>11. WireFits(v6', v2', v3')
  <2>1. v6' = (v6 \ {w}) \union {}
    BY <1>1
  <2> QED  BY <1>1, <1>10, <2>1
<1>12. UNCHANGED <<v1, v4, v5>> /\ v7' = v7 /\ FaultCounted /\ Vault!Present' = Vault!Present
  BY <1>1 DEF FaultCounted, Vault!Present
<1>13. Explained'
  <2>1. w.rows = {} /\ w.answer = "ok" /\ ~v3.crossed /\ DOMAIN v3.verdicts = {} => Vault!Present = {}
    BY <1>1, <1>2 DEF Explained, FoundNothing
  <2> QED  BY <1>1, <1>2, <1>3, <1>4, <1>5, <1>12, <2>1 DEF Explained
<1> QED  BY <1>1, <1>2, <1>5, <1>6, <1>11, <1>12, <1>13, PageMoves

(* A verdict is put on the page, and the other ones stay.                  *)
LEMMA SaysIt ==
  ASSUME v3 \in Pages, NEW i \in VaultGiven.Incidents, NEW verdict \in Verdicts,
         NEW pg, pg = Vault!Says(i, verdict)
  PROVE  /\ pg \in Pages /\ pg.items = v3.items /\ pg.promised = v3.promised /\ pg.error = v3.error
         /\ pg.sealing = v3.sealing /\ pg.crossed = v3.crossed /\ CardsLast(v3, pg, i)
         /\ DOMAIN pg.verdicts = DOMAIN v3.verdicts \union {i} /\ pg.verdicts[i] = verdict
         /\ \A j \in DOMAIN v3.verdicts : j # i => pg.verdicts[j] = v3.verdicts[j]
<1> DEFINE T == DOMAIN v3.verdicts \union {i}
           cards == [j \in T |-> IF j = i THEN verdict ELSE v3.verdicts[j]]
<1>1. PICK S \in SUBSET VaultGiven.Incidents : v3.verdicts \in [S -> Verdicts]
  BY DEF Pages, Cards
<1>2. T \in SUBSET VaultGiven.Incidents /\ cards \in [T -> Verdicts]
  BY <1>1
<1>3. cards \in Cards
  BY <1>2 DEF Cards
<1>4. pg = [v3 EXCEPT !.verdicts = cards]
  BY DEF Pages, Vault!Says
<1>5. DOMAIN cards = T /\ cards[i] = verdict
      /\ \A j \in DOMAIN v3.verdicts : j # i => cards[j] = v3.verdicts[j]
  OBVIOUS
<1> HIDE DEF cards, T
<1>6. /\ pg \in Pages /\ pg.items = v3.items /\ pg.promised = v3.promised /\ pg.error = v3.error
      /\ pg.sealing = v3.sealing /\ pg.crossed = v3.crossed /\ pg.verdicts = cards
  BY <1>3, <1>4 DEF Pages
<1> QED  BY <1>5, <1>6 DEF CardsLast, T

(* The page after a verdict fits the bucket where the verdict does.        *)
LEMMA SaysFits ==
  ASSUME v3 \in Pages, PageFits(v2, v3), NEW i \in VaultGiven.Incidents, NEW verdict \in Verdicts,
         NEW pg, pg = Vault!Says(i, verdict), Earned(i, verdict[1], verdict[2], verdict[3], v2)
  PROVE  PageFits(v2, pg)
<1>1. /\ pg.items = v3.items /\ pg.promised = v3.promised
      /\ DOMAIN pg.verdicts = DOMAIN v3.verdicts \union {i} /\ pg.verdicts[i] = verdict
      /\ \A j \in DOMAIN v3.verdicts : j # i => pg.verdicts[j] = v3.verdicts[j]
  BY SaysIt
<1> QED  BY <1>1 DEF PageFits

LEMMA VerifyStep ==
  ASSUME VaultInv, NEW row \in v3.items, Vault!Verify(row)
  PROVE  VaultInv' /\ (Vault!Next => Vault!ReuseStep)
<1> DEFINE x == [Vault!Asked("verify", row.of) EXCEPT !.version = row.version]
           verdict == <<"run", row.version, "">>
<1>1. /\ v1 = "vault" /\ Vault!May /\ Vault!Turn /\ UNCHANGED <<v1, v2, v4, v5, v8>>
      /\ Vault!Verdict(row.of)[1] # "run" /\ v3' = Vault!Says(row.of, verdict)
      /\ v6' = (v6 \ {}) \union {x}
  BY DEF Vault!Verify, Vault!Sent
<1>2. /\ v2 \in Buckets /\ v3 \in Pages /\ WireFits(v6, v2, v3) /\ PageFits(v2, v3)
  BY <1>1 DEF VaultInv, VaultSide
<1>3. row \in Rows /\ row.of \in VaultGiven.Incidents /\ row.version \in Nat /\ RowFits(row, v2)
  BY <1>2 DEF Pages, Rows, PageFits
<1>4. verdict \in Verdicts /\ verdict[1] = "run" /\ verdict[2] = row.version
  BY <1>3 DEF Verdicts
<1>5. /\ x \in VaultAsks /\ x.op = "verify" /\ x.of = row.of /\ x.rows = {} /\ x.stage = "asked"
      /\ x.version = row.version
  BY <1>3 DEF Shown, VaultAsks, Vault!Asked
<1> HIDE DEF x
<1>6. Earned(row.of, verdict[1], verdict[2], verdict[3], v2)
  BY <1>3, <1>4 DEF Earned, RowFits
<1> HIDE DEF verdict
<1>7. /\ v3' \in Pages /\ v3'.sealing = v3.sealing /\ v3'.crossed = v3.crossed
      /\ CardsLast(v3, v3', row.of) /\ DOMAIN v3'.verdicts = DOMAIN v3.verdicts \union {row.of}
      /\ v3'.verdicts[row.of] = verdict
  BY <1>1, <1>2, <1>3, <1>4, SaysIt
<1>8. PageFits(v2', v3')
  BY <1>1, <1>2, <1>3, <1>4, <1>6, SaysFits
<1>9. \A y \in v6 : y.op = "verify" => y.of # row.of
  BY <1>1, <1>2 DEF WireFits, AskFits, VerifyFits, Vault!Verdict
<1>10. AskFits(x, v2, v3')
  BY <1>3, <1>4, <1>5, <1>7 DEF AskFits, VerifyFits, RowFits, Sealing
<1>11. \A y \in (v6 \ {}) \union {x} : TwoFit(x, y, v3') /\ TwoFit(y, x, v3')
  BY <1>5, <1>9 DEF TwoFit, Sealing
<1>12. \A y \in v6 \ {} : (y.op = "verify" => y.of # row.of) /\ (Sealing(y) => v3'.sealing)
  BY <1>2, <1>7, <1>9 DEF WireFits, AskFits
<1>13. (\A y \in {x} : AskFits(y, v2, v3'))
       /\ \A y \in {x} : \A z \in (v6 \ {}) \union {x} : TwoFit(y, z, v3') /\ TwoFit(z, y, v3')
  BY <1>10, <1>11
<1>14. Lasts(v2, v2, row.of)
  BY <1>2, LastsItself
<1>15. WireFits((v6 \ {}) \union {x}, v2, v3')
  BY <1>2, <1>7, <1>12, <1>13, <1>14, WireGoes
<1>16. Explained'
  BY <1>7 DEF Explained
<1> QED  BY <1>1, <1>2, <1>7, <1>8, <1>15, <1>16, PageMoves DEF FaultCounted

LEMMA VerifyArrivesStep ==
  ASSUME VaultInv, NEW w \in v6, Vault!VerifyArrives(w)
  PROVE  VaultInv' /\ (Vault!Next => Vault!ReuseStep)
<1> DEFINE verdict == <<w.answer, w.version, w.why>>
<1>1. /\ w.op = "verify" /\ w.stage = "answered" /\ UNCHANGED <<v1, v2, v4, v5, v7, v8>>
      /\ v6' = (v6 \ {w}) \union {} /\ v3' = Vault!Says(w.of, verdict)
  BY DEF Vault!VerifyArrives, Vault!Done
<1>2. /\ AskFits(w, v2, v3) /\ w \in VaultAsks /\ v2 \in Buckets /\ v3 \in Pages
      /\ WireFits(v6, v2, v3) /\ PageFits(v2, v3) /\ v1 = "vault"
  BY <1>1, OfThePage
<1>3. /\ w.of \in VaultGiven.Incidents /\ w.answer \in {"deleted", "immutable", "inconclusive"}
      /\ Earned(w.of, w.answer, w.version, w.why, v2)
  BY <1>1, <1>2 DEF AskFits, VerifyFits
<1>4. /\ verdict \in Verdicts /\ verdict[1] = w.answer /\ verdict[2] = w.version
      /\ verdict[3] = w.why
  BY <1>2, <1>3 DEF Verdicts, VaultAsks
<1> HIDE DEF verdict
<1>5. /\ v3' \in Pages /\ v3'.sealing = v3.sealing /\ v3'.crossed = v3.crossed
      /\ CardsLast(v3, v3', w.of) /\ DOMAIN v3'.verdicts = DOMAIN v3.verdicts \union {w.of}
  BY <1>1, <1>2, <1>3, <1>4, SaysIt
<1>6. Earned(w.of, verdict[1], verdict[2], verdict[3], v2)
  BY <1>3, <1>4
<1>7. PageFits(v2', v3')
  BY <1>1, <1>2, <1>3, <1>4, <1>6, SaysFits
<1>8. \A y \in v6 \ {w} : (y.op = "verify" => y.of # w.of) /\ (Sealing(y) => v3'.sealing)
  BY <1>1, <1>2, <1>5 DEF WireFits, AskFits, TwoFit
<1>9. Lasts(v2, v2, w.of)
  BY <1>2, LastsItself
<1>10. WireFits((v6 \ {w}) \union {}, v2, v3')
  BY <1>2, <1>5, <1>8, <1>9, WireGoes
<1>11. Explained'
  BY <1>5 DEF Explained
<1> QED  BY <1>1, <1>2, <1>5, <1>7, <1>10, <1>11, PageMoves DEF FaultCounted

(* A day goes by: what was locked until that day no longer is.             *)
LEMMA DayStep ==
  ASSUME VaultInv, Vault!Day
  PROVE  VaultInv' /\ (Vault!Next => Vault!ReuseStep)
<1>1. /\ v1 = "vault" /\ v2' = [v2 EXCEPT !.now = @ + 1] /\ UNCHANGED <<v1, v3, v4, v5, v6, v7, v8>>
  BY DEF Vault!Day
<1>2. v2 \in Buckets /\ v3 \in Pages /\ WireFits(v6, v2, v3) /\ PageFits(v2, v3) /\ Explained
  BY <1>1 DEF VaultInv, VaultSide
<1>3. /\ v2' \in Buckets /\ v2'.versions = v2.versions /\ v2'.hidden = v2.hidden
      /\ v2'.now = v2.now + 1 /\ v2.now \in Nat
  BY <1>1, <1>2 DEF Buckets
<1>4. Lasts(v2, v2', VaultGiven.NoIncident) /\ VaultGiven.NoIncident \notin VaultGiven.Incidents
  <2>1. v2.now <= v2'.now
    BY <1>3
  <2> QED  BY <1>3, <2>1, VaultAssumption DEF Lasts
<1>5. PageFits(v2', v3')
  <2>1. \A i \in DOMAIN v3.verdicts : i # VaultGiven.NoIncident
    BY <1>2, <1>4 DEF Pages, Cards
  <2> QED  BY <1>1, <1>2, <1>4, <2>1, PageLasts
<1>6. WireFits(v6', v2', v3')
  <2>1. \A y \in v6 \ {} : (y.op = "verify" => y.of # VaultGiven.NoIncident)
                           /\ (Sealing(y) => v3.sealing)
    BY <1>2, <1>4 DEF WireFits, AskFits
  <2>2. CardsLast(v3, v3, VaultGiven.NoIncident)
    BY DEF CardsLast
  <2>3. WireFits((v6 \ {}) \union {}, v2', v3)
    BY <1>2, <1>4, <2>1, <2>2, WireGoes
  <2> QED  BY <1>1, <2>3
<1>7. Explained'
  BY <1>1, <1>2, <1>3 DEF Explained, Vault!Present
<1> QED  BY <1>1, <1>2, <1>3, <1>5, <1>6, <1>7, PageMoves DEF FaultCounted

(* A request of the detail is of that view.                                *)
LEMMA OfTheDetail ==
  ASSUME VaultInv, NEW w \in v6, w.op \in {"probe", "post"} \/ v1 = "report"
  PROVE  /\ v1 = "report" /\ RequestFits(w, v4, v5, v7) /\ w \in ReportAsks /\ w.op \in {"probe", "post"}
         /\ v7 \in Nat /\ v8 \in Nat
<1>1. v1 = "report"
  BY DEF VaultInv, VaultSide, WireFits, AskFits, VaultAsks
<1>2. VaultGiven.MaxTurns \in Nat /\ VaultGiven.MaxFaults \in Nat
  BY VaultAssumption
<1>3. v7 \in Nat /\ v8 \in Nat
  BY <1>2 DEF VaultInv
<1> QED  BY <1>1, <1>3 DEF VaultInv, ReportSide, RequestFits, ReportAsks

(* What is left of the invariant where the detail is in use.               *)
LEMMA DetailMoves ==
  ASSUME VaultInv, v1 = "report", UNCHANGED <<v1, v2, v3>>, v7' = v7 \/ (Vault!May /\ Vault!Turn),
         FaultCounted, v4' \in Dialogs, v5' \in [VaultGiven.Incidents -> {"none", "model", "fallback"}],
         DetailFits(v4', v5'), \A w \in v6' : RequestFits(w, v4', v5', v7'),
         \A w, x \in v6' : w.op = "post" /\ x.op = "post" /\ w.version = x.version => w = x
  PROVE  VaultInv'
<1>1. VaultGiven.MaxTurns \in Nat /\ VaultGiven.MaxFaults \in Nat
  BY VaultAssumption
<1>2. v7' \in 0 .. VaultGiven.MaxTurns
  BY <1>1 DEF VaultInv, Vault!May, Vault!Turn
<1>3. v8' \in 0 .. VaultGiven.MaxFaults
  BY <1>1 DEF VaultInv, FaultCounted
<1>4. ReportSide'
  BY DEF ReportSide
<1> QED  BY <1>2, <1>3, <1>4 DEF VaultInv, VaultSide

(* Reports are stored, and stay.                                           *)
LEMMA RequestLasts ==
  ASSUME NEW w, NEW dg, NEW dh, NEW db, NEW dc, NEW t, NEW u \in {t, t + 1}, t \in Nat, w \in ReportAsks,
         RequestFits(w, dg, db, t), \A i \in VaultGiven.Incidents : db[i] # "none" => dc[i] # "none",
         w.op = "probe" /\ w.alive => w.of = dh.open
  PROVE  RequestFits(w, dh, dc, u)
<1>1. w.op = "post" => w.version < u
  <2>1. w.version \in Nat /\ (u = t \/ u = t + 1)
    BY DEF ReportAsks
  <2>2. w.op = "post" => w.version < t
    BY DEF RequestFits
  <2> QED  BY <2>1, <2>2
<1>2. w.op = "post" => PostFits(w, dc)
  BY DEF RequestFits, ReportAsks, PostFits, Whole
<1> QED  BY <1>1, <1>2 DEF RequestFits

(* A request for a report becomes another of its kind.                     *)
LEMMA PostMoves ==
  ASSUME VaultInv, NEW w \in v6, NEW x, w.op = "post", x.op = "post", x.version = w.version, x.of = w.of,
         x \in ReportAsks, PostFits(x, v5'), UNCHANGED <<v1, v2, v3, v4, v7>>, FaultCounted,
         v5' \in [VaultGiven.Incidents -> {"none", "model", "fallback"}],
         \A i \in VaultGiven.Incidents : v5[i] # "none" => v5'[i] # "none",
         v6' = (v6 \ {w}) \union {x},
         w.stage = "asked" /\ ~w.force /\ v5[w.of] # "none" /\ v8' = v8 => x.stage = "answered"
  PROVE  VaultInv' /\ (Vault!Next => Vault!ReuseStep)
<1>1. /\ v1 = "report" /\ v7 \in Nat /\ RequestFits(w, v4, v5, v7) /\ v4 \in Dialogs /\ DetailFits(v4, v5)
      /\ \A y \in v6 : RequestFits(y, v4, v5, v7) /\ y \in ReportAsks
      /\ \A y, z \in v6 : y.op = "post" /\ z.op = "post" /\ y.version = z.version => y = z
  BY OfTheDetail DEF VaultInv, ReportSide
<1>2. RequestFits(x, v4', v5', v7')
  BY <1>1 DEF RequestFits
<1>3. \A y \in v6 : RequestFits(y, v4', v5', v7')
  BY <1>1, RequestLasts DEF RequestFits
<1>4. DetailFits(v4', v5')
  BY <1>1 DEF DetailFits, Whole
<1>5. \A y, z \in v6' : y.op = "post" /\ z.op = "post" /\ y.version = z.version => y = z
  BY <1>1
<1>6. Vault!ReuseStep
  BY <1>1 DEF Vault!ReuseStep
<1>7. VaultInv'
  BY <1>1, <1>2, <1>3, <1>4, <1>5, DetailMoves
<1> QED  BY <1>6, <1>7

LEMMA LooksUpStep ==
  ASSUME VaultInv, NEW w \in v6, Vault!LooksUp(w)
  PROVE  VaultInv' /\ (Vault!Next => Vault!ReuseStep)
<1>1. PICK fails \in BOOLEAN :
        /\ Vault!Fault(fails) /\ (fails => ~w.force)
        /\ Vault!Becomes(w, IF fails THEN [w EXCEPT !.stage = "writing", !.warnings = {"cache"} \union Vault!Sparse(w.of)]
                            ELSE IF Vault!Reuses(w) THEN [w EXCEPT !.stage = "answered", !.answer = Vault!Stored(w.of), !.mode = "cached"]
                            ELSE [w EXCEPT !.stage = "writing", !.warnings = Vault!Sparse(w.of)])
  BY DEF Vault!LooksUp
<1>2. w.op = "post" /\ w.stage = "asked" /\ UNCHANGED <<v1, v2, v3, v4, v5, v7>>
  BY DEF Vault!LooksUp
<1>3. w \in ReportAsks /\ PostFits(w, v5) /\ v8 \in Nat
  BY <1>2, OfTheDetail DEF RequestFits
<1>4. v5 \in [VaultGiven.Incidents -> {"none", "model", "fallback"}] /\ w.of \in VaultGiven.Incidents
  BY <1>3 DEF VaultInv, ReportAsks
<1>5. FaultCounted /\ (fails => v8' # v8)
  BY <1>1, <1>3 DEF FaultCounted, Vault!Fault
<1>6. Vault!Sparse(w.of) \subseteq {"sparse"}
  BY DEF Vault!Sparse
<1>7. CASE fails
  <2> DEFINE warnings == {"cache"} \union Vault!Sparse(w.of)
             x == [w EXCEPT !.stage = "writing", !.warnings = warnings]
  <2>1. v6' = (v6 \ {w}) \union {x}
    BY <1>1, <1>7 DEF Vault!Becomes
  <2>2. warnings \subseteq {"cache", "sparse"}
    BY <1>6
  <2> HIDE DEF warnings
  <2>3. /\ x \in ReportAsks /\ x.op = "post" /\ x.of = w.of /\ x.version = w.version
        /\ x.stage = "writing" /\ x.mode = w.mode /\ x.warnings = warnings
    BY <1>2, <1>3, <2>2 DEF ReportAsks, Remarks
  <2> HIDE DEF x
  <2>4. PostFits(x, v5')
    BY <1>2, <1>3, <2>2, <2>3 DEF PostFits
  <2> QED  BY <1>2, <1>4, <1>5, <1>7, <2>1, <2>3, <2>4, PostMoves
<1>8. CASE ~fails /\ Vault!Reuses(w)
  <2> DEFINE answer == Vault!Stored(w.of)
             x == [w EXCEPT !.stage = "answered", !.answer = answer, !.mode = "cached"]
  <2>1. v6' = (v6 \ {w}) \union {x}
    BY <1>1, <1>8 DEF Vault!Becomes
  <2>2. answer \in {"none", "model", "fallback"}
    BY <1>4 DEF Vault!Stored
  <2> HIDE DEF answer
  <2>3. /\ x \in ReportAsks /\ x.op = "post" /\ x.of = w.of /\ x.version = w.version
        /\ x.stage = "answered" /\ x.mode = "cached"
    BY <1>2, <1>3, <2>2 DEF ReportAsks
  <2> HIDE DEF x
  <2>4. PostFits(x, v5')
    BY <2>3 DEF PostFits
  <2> QED  BY <1>2, <1>4, <1>5, <2>1, <2>3, <2>4, PostMoves
<1>9. CASE ~fails /\ ~Vault!Reuses(w)
  <2> DEFINE warnings == Vault!Sparse(w.of)
             x == [w EXCEPT !.stage = "writing", !.warnings = warnings]
  <2>1. v6' = (v6 \ {w}) \union {x}
    BY <1>1, <1>9 DEF Vault!Becomes
  <2>2. warnings \subseteq {"cache", "sparse"}
    BY <1>6
  <2> HIDE DEF warnings
  <2>3. /\ x \in ReportAsks /\ x.op = "post" /\ x.of = w.of /\ x.version = w.version
        /\ x.stage = "writing" /\ x.mode = w.mode /\ x.warnings = warnings
    BY <1>2, <1>3, <2>2 DEF ReportAsks, Remarks
  <2> HIDE DEF x
  <2>4. PostFits(x, v5')
    BY <1>2, <1>3, <2>2, <2>3 DEF PostFits
  <2>5. w.force \/ v5[w.of] = "none"
    BY <1>9 DEF Vault!Reuses, Vault!Stored
  <2> QED  BY <1>2, <1>4, <1>5, <2>1, <2>3, <2>4, <2>5, PostMoves
<1> QED  BY <1>7, <1>8, <1>9

LEMMA WritesStep ==
  ASSUME VaultInv, NEW w \in v6, Vault!Writes(w)
  PROVE  VaultInv' /\ (Vault!Next => Vault!ReuseStep)
<1>1. PICK fails \in BOOLEAN :
        /\ Vault!Fault(fails)
        /\ Vault!Becomes(w, [w EXCEPT !.stage = "saving", !.answer = Vault!Author(fails),
                                      !.warnings = IF fails THEN @ \union {"fallback"} ELSE @])
  BY DEF Vault!Writes
<1>2. w.op = "post" /\ w.stage = "writing" /\ UNCHANGED <<v1, v2, v3, v4, v5, v7>>
  BY DEF Vault!Writes
<1>3. w \in ReportAsks /\ PostFits(w, v5) /\ v8 \in Nat
  BY <1>2, OfTheDetail DEF RequestFits
<1>4. v5 \in [VaultGiven.Incidents -> {"none", "model", "fallback"}]
  BY DEF VaultInv
<1>5. FaultCounted
  BY <1>1 DEF FaultCounted, Vault!Fault
<1> DEFINE answer == Vault!Author(fails)
           warnings == IF fails THEN w.warnings \union {"fallback"} ELSE w.warnings
           x == [w EXCEPT !.stage = "saving", !.answer = answer, !.warnings = warnings]
<1>6. v6' = (v6 \ {w}) \union {x}
  BY <1>1 DEF Vault!Becomes
<1>7. /\ answer \in {"model", "fallback"} /\ warnings \subseteq Remarks /\ "store" \notin warnings
      /\ answer = "fallback" <=> "fallback" \in warnings
  BY <1>2, <1>3 DEF PostFits, Remarks, Vault!Author
<1> HIDE DEF answer, warnings
<1>8. /\ x \in ReportAsks /\ x.op = "post" /\ x.of = w.of /\ x.version = w.version
      /\ x.stage = "saving" /\ x.mode = w.mode /\ x.warnings = warnings /\ x.answer = answer
  BY <1>2, <1>3, <1>7 DEF ReportAsks
<1> HIDE DEF x
<1>9. PostFits(x, v5')
  BY <1>2, <1>3, <1>7, <1>8 DEF PostFits
<1> QED  BY <1>2, <1>4, <1>5, <1>6, <1>8, <1>9, PostMoves

LEMMA SavesStep ==
  ASSUME VaultInv, NEW w \in v6, Vault!Saves(w)
  PROVE  VaultInv' /\ (Vault!Next => Vault!ReuseStep)
<1>1. PICK fails \in BOOLEAN :
        /\ Vault!Fault(fails)
        /\ v5' = IF fails THEN v5 ELSE [v5 EXCEPT ![w.of] = w.answer]
        /\ Vault!Becomes(w, [w EXCEPT !.stage = "answered", !.warnings = Vault!Warned(w, fails)])
  BY DEF Vault!Saves
<1>2. w.op = "post" /\ w.stage = "saving" /\ UNCHANGED <<v1, v2, v3, v4, v7>>
  BY DEF Vault!Saves
<1>3. w \in ReportAsks /\ PostFits(w, v5) /\ v8 \in Nat
  BY <1>2, OfTheDetail DEF RequestFits
<1>4. /\ v5 \in [VaultGiven.Incidents -> {"none", "model", "fallback"}] /\ w.of \in VaultGiven.Incidents
      /\ w.answer \in {"model", "fallback"}
  BY <1>2, <1>3 DEF VaultInv, ReportAsks, PostFits
<1>5. FaultCounted
  BY <1>1 DEF FaultCounted, Vault!Fault
<1> DEFINE warnings == Vault!Warned(w, fails)
           x == [w EXCEPT !.stage = "answered", !.warnings = warnings]
<1>6. v6' = (v6 \ {w}) \union {x}
  BY <1>1 DEF Vault!Becomes
<1>7. /\ warnings \subseteq Remarks
      /\ warnings = IF fails THEN w.warnings \union {"store"} ELSE w.warnings
  BY <1>3 DEF ReportAsks, Remarks, Vault!Warned
<1> HIDE DEF warnings
<1>8. /\ x \in ReportAsks /\ x.op = "post" /\ x.of = w.of /\ x.version = w.version
      /\ x.stage = "answered" /\ x.mode = w.mode /\ x.warnings = warnings /\ x.answer = w.answer
  BY <1>2, <1>3, <1>7 DEF ReportAsks
<1> HIDE DEF x
<1>9. /\ v5' \in [VaultGiven.Incidents -> {"none", "model", "fallback"}]
      /\ \A i \in VaultGiven.Incidents : v5[i] # "none" => v5'[i] # "none"
      /\ ~fails => v5'[w.of] # "none"
  BY <1>1, <1>4
<1>10. /\ w.answer = "fallback" <=> "fallback" \in warnings
       /\ fails => "store" \in warnings
  BY <1>2, <1>3, <1>7 DEF PostFits
<1>11. PostFits(x, v5')
  BY <1>8, <1>9, <1>10 DEF PostFits, Whole
<1> QED  BY <1>2, <1>5, <1>6, <1>8, <1>9, <1>11, PostMoves

(* The steps of the detail that begin or end requests and store nothing.   *)
LEMMA DetailSteps ==
  ASSUME VaultInv, v1 = "report", UNCHANGED <<v1, v2, v3, v5>>,
         v7' = v7 \/ (Vault!May /\ Vault!Turn), FaultCounted, v4' \in Dialogs, DetailFits(v4', v5),
         \A w \in v6' : \/ RequestFits(w, v4', v5, v7')
                        \/ w \in v6 /\ (w.op = "probe" /\ w.alive => w.of = v4'.open),
         \A w, x \in v6' : w.op = "post" /\ x.op = "post" /\ w.version = x.version =>
                             w = x \/ (w \in v6 /\ x \in v6),
         \A x \in v6' \ v6 : x.op = "probe" \/ x.version = v7
  PROVE  VaultInv' /\ (Vault!Next => Vault!ReuseStep)
<1>1. /\ \A w \in v6 : w \in ReportAsks /\ RequestFits(w, v4, v5, v7)
      /\ \A w, x \in v6 : w.op = "post" /\ x.op = "post" /\ w.version = x.version => w = x
      /\ v5 \in [VaultGiven.Incidents -> {"none", "model", "fallback"}]
  BY DEF VaultInv, ReportSide, RequestFits
<1>2. v7 \in Nat /\ v7' \in {v7, v7 + 1}
  <2>1. VaultGiven.MaxTurns \in Nat
    BY VaultAssumption
  <2> QED  BY <2>1 DEF VaultInv, Vault!Turn
<1>3. ASSUME NEW w \in v6' PROVE RequestFits(w, v4', v5, v7')
  <2>1. CASE w \in v6 /\ (w.op = "probe" /\ w.alive => w.of = v4'.open)
    <3>1. w \in ReportAsks /\ RequestFits(w, v4, v5, v7)
      BY <1>1, <2>1
    <3>2. \A i \in VaultGiven.Incidents : v5[i] # "none" => v5[i] # "none"
      OBVIOUS
    <3> DEFINE u == v7'
               dh == v4'
    <3>4. u \in {v7, v7 + 1} /\ v7 \in Nat /\ (w.op = "probe" /\ w.alive => w.of = dh.open)
      BY <1>2, <2>1
    <3> HIDE DEF u, dh
    <3>5. RequestFits(w, dh, v5, u)
      BY <3>1, <3>2, <3>4, RequestLasts
    <3> QED  BY <3>5 DEF u, dh
  <2> QED  BY <2>1
<1>4. \A w, x \in v6' : w.op = "post" /\ x.op = "post" /\ w.version = x.version => w = x
  BY <1>1
<1>5. VaultInv'
  BY <1>1, <1>3, <1>4, DetailMoves
<1>6. Vault!ReuseStep
  <2> SUFFICES ASSUME NEW w \in v6, w.op = "post", NEW x \in v6' \ v6, x.op = "post",
                      x.version = w.version
               PROVE  FALSE
    BY DEF Vault!ReuseStep
  <2>1. w.version < v7 /\ w.version \in Nat
    BY <1>1 DEF RequestFits, ReportAsks
  <2> QED  BY <1>2, <2>1
<1> QED  BY <1>5, <1>6

LEMMA OpenSteps ==
  ASSUME VaultInv, Vault!Close \/ \E i \in VaultGiven.Incidents : Vault!Open(i)
  PROVE  VaultInv' /\ (Vault!Next => Vault!ReuseStep)
<1>1. v4 \in Dialogs /\ DetailFits(v4, v5) /\ VaultGiven.NoIncident \notin VaultGiven.Incidents
  BY VaultAssumption DEF VaultInv
<1>2. CASE Vault!Close
  <2>1. /\ v1 = "report" /\ v4' = [v4 EXCEPT !.open = VaultGiven.NoIncident] /\ v6' = Vault!Forgotten
        /\ UNCHANGED <<v1, v2, v3, v5, v7, v8>>
    BY <1>2 DEF Vault!Close
  <2>2. v4' \in Dialogs /\ v4'.open = VaultGiven.NoIncident /\ v4'.report = v4.report
    BY <1>1, <2>1 DEF Dialogs, Shown
  <2>3. DetailFits(v4', v5)
    BY <1>1, <2>2 DEF DetailFits
  <2>4. \A w \in v6 : w \in ReportAsks /\ RequestFits(w, v4, v5, v7)
    BY <2>1, OfTheDetail
  <2>5. \A x \in v6' : \/ x.op = "post" /\ x \in v6
                       \/ x.op = "probe" /\ RequestFits(x, v4', v5, v7')
    <3> SUFFICES ASSUME NEW w \in v6, NEW x,
                        x = IF w.op = "probe" THEN [w EXCEPT !.alive = FALSE] ELSE w
                 PROVE  \/ x.op = "post" /\ x \in v6
                        \/ x.op = "probe" /\ RequestFits(x, v4', v5, v7')
      BY <2>1 DEF Vault!Forgotten
    <3>1. CASE w.op = "probe"
      <4>1. x \in ReportAsks /\ x.op = "probe" /\ x.alive = FALSE
        BY <2>4, <3>1 DEF ReportAsks
      <4> QED  BY <4>1 DEF RequestFits
    <3>2. CASE w.op # "probe"
      BY <2>4, <3>2 DEF ReportAsks
    <3> QED  BY <3>1, <3>2
  <2>6. \A x \in v6' : RequestFits(x, v4', v5, v7') \/ (x \in v6 /\ (x.op = "probe" /\ x.alive => x.of = v4'.open))
    BY <2>5
  <2>7. /\ \A w, x \in v6' : w.op = "post" /\ x.op = "post" /\ w.version = x.version =>
                               w = x \/ (w \in v6 /\ x \in v6)
        /\ \A x \in v6' \ v6 : x.op = "probe" \/ x.version = v7
    BY <2>5
  <2>8. FaultCounted
    BY <2>1 DEF FaultCounted
  <2> QED  BY <2>1, <2>2, <2>3, <2>6, <2>7, <2>8, DetailSteps
<1>3. ASSUME NEW i \in VaultGiven.Incidents, Vault!Open(i)
      PROVE  VaultInv' /\ (Vault!Next => Vault!ReuseStep)
  <2> DEFINE x == [Vault!Asked("probe", i) EXCEPT !.version = v7]
  <2>1. /\ v1 = "report" /\ v4.open = VaultGiven.NoIncident /\ v4' = [open |-> i, report |-> Vault!NoReport]
        /\ v6' = v6 \union {x} /\ UNCHANGED <<v1, v2, v3, v5, v8>> /\ Vault!May /\ Vault!Turn
    BY <1>3 DEF Vault!Open, Vault!Sent
  <2>2. v4' \in Dialogs /\ v4'.open = i /\ DetailFits(v4', v5)
    BY <2>1 DEF Dialogs, Reported, Shown, DetailFits, Vault!NoReport
  <2>3. v7 \in Nat
    <3>1. VaultGiven.MaxTurns \in Nat
      BY VaultAssumption
    <3> QED  BY <3>1 DEF VaultInv
  <2>4. x \in ReportAsks /\ x.op = "probe" /\ x.of = i
    BY <2>3 DEF ReportAsks, Vault!Asked
  <2> HIDE DEF x
  <2>5. \A w \in v6 : w \in ReportAsks /\ RequestFits(w, v4, v5, v7)
    BY <2>1, OfTheDetail
  <2>6. RequestFits(x, v4', v5, v7')
    BY <2>2, <2>4 DEF RequestFits
  <2>7. \A w \in v6' : RequestFits(w, v4', v5, v7') \/ (w \in v6 /\ (w.op = "probe" /\ w.alive => w.of = v4'.open))
    <3>1. \A w \in v6 : w.op = "probe" => ~w.alive
      BY <1>1, <2>1, <2>5 DEF RequestFits, ReportAsks
    <3> QED  BY <2>1, <2>6, <3>1
  <2>8. /\ \A w, y \in v6' : w.op = "post" /\ y.op = "post" /\ w.version = y.version =>
                               w = y \/ (w \in v6 /\ y \in v6)
        /\ \A y \in v6' \ v6 : y.op = "probe" \/ y.version = v7
    BY <2>1, <2>4
  <2>9. FaultCounted
    BY <2>1 DEF FaultCounted
  <2> QED  BY <2>1, <2>2, <2>7, <2>8, <2>9, DetailSteps
<1> QED  BY <1>2, <1>3

LEMMA GenerateStep ==
  ASSUME VaultInv, Vault!Generate
  PROVE  VaultInv' /\ (Vault!Next => Vault!ReuseStep)
<1> DEFINE x == [Vault!Asked("post", v4.open) EXCEPT !.force = Vault!Forces, !.version = v7]
<1>1. /\ v1 = "report" /\ v4.open # VaultGiven.NoIncident
      /\ v4' = [v4 EXCEPT !.report = [Vault!NoReport EXCEPT !.phase = "loading"]]
      /\ v6' = v6 \union {x} /\ UNCHANGED <<v1, v2, v3, v5, v8>> /\ Vault!May /\ Vault!Turn
  BY DEF Vault!Generate, Vault!Sent
<1>2. v4 \in Dialogs /\ v4.open \in VaultGiven.Incidents
  BY <1>1 DEF VaultInv, Dialogs, Shown
<1>3. [Vault!NoReport EXCEPT !.phase = "loading"] \in Reported
      /\ [Vault!NoReport EXCEPT !.phase = "loading"].phase = "loading"
  BY DEF Reported, Shown, Vault!NoReport
<1>4. v4' \in Dialogs /\ v4'.open = v4.open /\ DetailFits(v4', v5)
  BY <1>1, <1>2, <1>3 DEF Dialogs, DetailFits
<1>5. v7 \in Nat /\ v7' = v7 + 1
  <2>1. VaultGiven.MaxTurns \in Nat
    BY VaultAssumption
  <2> QED  BY <1>1, <2>1 DEF VaultInv, Vault!Turn
<1>6. Vault!Forces \in BOOLEAN
  BY DEF Vault!Forces
<1>7. /\ x \in ReportAsks /\ x.op = "post" /\ x.version = v7 /\ x.stage = "asked"
      /\ x.mode = "" /\ x.warnings = {}
  BY <1>2, <1>5, <1>6 DEF ReportAsks, Vault!Asked
<1> HIDE DEF x
<1>8. \A w \in v6 : w \in ReportAsks /\ RequestFits(w, v4, v5, v7)
  BY <1>1, OfTheDetail
<1>9. RequestFits(x, v4', v5, v7')
  <2>1. x.version < v7'
    <3>1. v7 < v7'
      BY <1>5
    <3> QED  BY <1>7, <3>1
  <2> QED  BY <1>7, <2>1 DEF RequestFits, PostFits
<1>10. \A w \in v6' : RequestFits(w, v4', v5, v7') \/ (w \in v6 /\ (w.op = "probe" /\ w.alive => w.of = v4'.open))
  BY <1>1, <1>4, <1>8, <1>9 DEF RequestFits
<1>11. ASSUME NEW w \in v6, w.op = "post" PROVE w.version # v7
  <2>1. w.version < v7
    BY <1>8, <1>11 DEF RequestFits
  <2> QED  BY <1>5, <2>1
<1>12. /\ \A w, y \in v6' : w.op = "post" /\ y.op = "post" /\ w.version = y.version =>
                              w = y \/ (w \in v6 /\ y \in v6)
       /\ \A y \in v6' \ v6 : y.op = "probe" \/ y.version = v7
  BY <1>1, <1>7, <1>11
<1>13. FaultCounted
  BY <1>1 DEF FaultCounted
<1> QED  BY <1>1, <1>4, <1>10, <1>12, <1>13, DetailSteps

LEMMA ProbeReadsStep ==
  ASSUME VaultInv, NEW w \in v6, Vault!ProbeReads(w)
  PROVE  VaultInv' /\ (Vault!Next => Vault!ReuseStep)
<1>1. PICK fails \in BOOLEAN :
        /\ Vault!Fault(fails)
        /\ Vault!Becomes(w, [w EXCEPT !.stage = "answered",
                                      !.answer = IF fails THEN "none" ELSE Vault!Stored(w.of)])
  BY DEF Vault!ProbeReads
<1>2. w.op = "probe" /\ UNCHANGED <<v1, v2, v3, v4, v5, v7>>
  BY DEF Vault!ProbeReads
<1> DEFINE answer == IF fails THEN "none" ELSE Vault!Stored(w.of)
           x == [w EXCEPT !.stage = "answered", !.answer = answer]
<1>3. v1 = "report" /\ w \in ReportAsks /\ RequestFits(w, v4, v5, v7) /\ v8 \in Nat
  BY <1>2, OfTheDetail
<1>4. answer \in {"none", "model", "fallback"} /\ v4 \in Dialogs /\ DetailFits(v4, v5)
  BY <1>3 DEF VaultInv, ReportAsks, Vault!Stored
<1>5. v6' = (v6 \ {w}) \union {x} /\ FaultCounted
  BY <1>1 DEF Vault!Becomes, Vault!Fault, FaultCounted
<1> HIDE DEF answer
<1>6. x \in ReportAsks /\ x.op = "probe" /\ x.of = w.of /\ x.alive = w.alive
  BY <1>2, <1>3, <1>4 DEF ReportAsks
<1> HIDE DEF x
<1>7. RequestFits(x, v4', v5, v7')
  BY <1>2, <1>3, <1>6 DEF RequestFits
<1>8. \A y \in v6 : RequestFits(y, v4, v5, v7)
  BY <1>3, OfTheDetail
<1>9. \A y \in v6' : RequestFits(y, v4', v5, v7') \/ (y \in v6 /\ (y.op = "probe" /\ y.alive => y.of = v4'.open))
  BY <1>2, <1>5, <1>7, <1>8
<1>10. /\ \A z, y \in v6' : z.op = "post" /\ y.op = "post" /\ z.version = y.version =>
                              z = y \/ (z \in v6 /\ y \in v6)
       /\ \A y \in v6' \ v6 : y.op = "probe" \/ y.version = v7
  BY <1>5, <1>6
<1>11. v7' = v7 /\ v4' = v4 /\ UNCHANGED <<v1, v2, v3, v5>>
  BY <1>2
<1> QED  BY <1>3, <1>4, <1>5, <1>9, <1>10, <1>11, DetailSteps

(* The answers that are shown, or lost.                                    *)
LEMMA DetailAnswers ==
  ASSUME VaultInv, NEW w \in v6, Vault!ProbeArrives(w) \/ Vault!ReportArrives(w) \/ Vault!ReportIsLost(w)
  PROVE  VaultInv' /\ (Vault!Next => Vault!ReuseStep)
<1>1. /\ w.op \in {"probe", "post"} /\ UNCHANGED <<v1, v2, v3, v5, v7>> /\ FaultCounted
      /\ v6' = v6 \ {w}
  BY DEF Vault!ProbeArrives, Vault!ReportArrives, Vault!ReportIsLost, Vault!Done, Vault!Fault, FaultCounted
<1>2. v1 = "report" /\ w \in ReportAsks /\ RequestFits(w, v4, v5, v7) /\ v8 \in Nat
  BY <1>1, OfTheDetail
<1>3. v4 \in Dialogs /\ DetailFits(v4, v5)
  BY DEF VaultInv
<1>4. v4' \in Dialogs /\ v4'.open = v4.open /\ DetailFits(v4', v5)
  <2>1. CASE Vault!ProbeArrives(w)
    <3> DEFINE r == [phase |-> "ready", of |-> w.of, written |-> w.answer, cached |-> TRUE,
                     warnings |-> {}, via |-> "probe"]
    <3>1. v4' = v4 \/ (w.op = "probe" /\ w.alive /\ v4' = [v4 EXCEPT !.report = r])
      BY <2>1 DEF Vault!ProbeArrives
    <3>2. r \in Reported
      BY <1>2 DEF Reported, Shown, ReportAsks, Remarks
    <3>3. r.of = w.of /\ r.cached = TRUE /\ w.of \in VaultGiven.Incidents
      BY <1>2 DEF ReportAsks
    <3> HIDE DEF r
    <3>4. CASE w.op = "probe" /\ w.alive /\ v4' = [v4 EXCEPT !.report = r]
      <4>1. v4' \in Dialogs /\ v4'.open = v4.open /\ v4'.report = r
        BY <1>3, <3>2, <3>4 DEF Dialogs
      <4> QED  BY <1>2, <3>3, <3>4, <4>1 DEF DetailFits, RequestFits
    <3> QED  BY <1>3, <3>1, <3>4
  <2>2. CASE Vault!ReportArrives(w)
    <3> DEFINE r == [phase |-> "ready", of |-> w.of, written |-> w.answer, cached |-> w.mode = "cached",
                     warnings |-> w.warnings, via |-> "post"]
    <3>1. v4' = [v4 EXCEPT !.report = r] /\ w.op = "post" /\ w.stage = "answered"
      BY <2>2 DEF Vault!ReportArrives
    <3>2. r \in Reported
      BY <1>2 DEF Reported, Shown, ReportAsks
    <3>3. /\ r.of = w.of /\ r.cached = (w.mode = "cached") /\ w.of \in VaultGiven.Incidents
          /\ r.via = "post" /\ r.written = w.answer /\ r.warnings = w.warnings
      BY <1>2 DEF ReportAsks
    <3> HIDE DEF r
    <3>4. v4' \in Dialogs /\ v4'.open = v4.open /\ v4'.report = r
      BY <1>3, <3>1, <3>2 DEF Dialogs
    <3> QED  BY <1>2, <3>1, <3>3, <3>4 DEF DetailFits, RequestFits, PostFits
  <2>3. CASE Vault!ReportIsLost(w)
    <3> DEFINE r == [Vault!NoReport EXCEPT !.phase = "error"]
    <3>1. v4' = [v4 EXCEPT !.report = r]
      BY <2>3 DEF Vault!ReportIsLost
    <3>2. r \in Reported /\ r.phase = "error"
      BY DEF Reported, Shown, Vault!NoReport
    <3> HIDE DEF r
    <3>3. v4' \in Dialogs /\ v4'.open = v4.open /\ v4'.report = r
      BY <1>3, <3>1, <3>2 DEF Dialogs
    <3> QED  BY <3>2, <3>3 DEF DetailFits
  <2> QED  BY <2>1, <2>2, <2>3
<1>5. \A y \in v6 : RequestFits(y, v4, v5, v7)
  BY <1>2, OfTheDetail
<1>6. \A y \in v6' : RequestFits(y, v4', v5, v7') \/ (y \in v6 /\ (y.op = "probe" /\ y.alive => y.of = v4'.open))
  BY <1>1, <1>4, <1>5 DEF RequestFits
<1>7. /\ \A z, y \in v6' : z.op = "post" /\ y.op = "post" /\ z.version = y.version =>
                             z = y \/ (z \in v6 /\ y \in v6)
      /\ \A y \in v6' \ v6 : y.op = "probe" \/ y.version = v7
  BY <1>1
<1>8. v7' = v7 /\ UNCHANGED <<v1, v2, v3, v5>>
  BY <1>1
<1> QED  BY <1>1, <1>2, <1>4, <1>6, <1>7, <1>8, DetailSteps

(* Every step keeps the invariant, and a stored report is reused.          *)
LEMMA VaultStep ==
  ASSUME VaultInv, [Vault!Next]_(Vault!vars)
  PROVE  VaultInv' /\ (Vault!Next => Vault!ReuseStep)
<1>1. CASE UNCHANGED Vault!vars
  <2>1. UNCHANGED <<v1, v2, v3, v4, v5, v6, v7, v8>>
    BY <1>1 DEF Vault!vars
  <2>2. VaultSide' /\ ReportSide'
    BY <2>1 DEF VaultInv, VaultSide, ReportSide, Explained, Vault!Present
  <2>3. VaultInv'
    BY <2>1, <2>2 DEF VaultInv
  <2>4. Vault!ReuseStep
    BY <2>1 DEF Vault!ReuseStep
  <2> QED  BY <2>3, <2>4
<1>2. CASE Vault!Next
  <2>1. CASE Vault!Seal \/ Vault!Day \/ Vault!Close \/ Vault!Generate
    BY <2>1, SealStep, DayStep, OpenSteps, GenerateStep
  <2>2. CASE \E i \in VaultGiven.Incidents : Vault!Pick(i) \/ Vault!Open(i)
    BY <2>2, FormSteps, OpenSteps
  <2>3. CASE \E days \in {0, 1} : Vault!Types(days)
    BY <2>3, FormSteps
  <2>4. CASE \E row \in v3.items : Vault!Verify(row)
    BY <2>4, VerifyStep
  <2>5. ASSUME NEW w \in v6,
               \/ Vault!SealPuts(w) \/ Vault!SealFails(w) \/ Vault!SealArrives(w)
               \/ Vault!ListFails(w) \/ Vault!ListArrives(w)
               \/ \E headless \in SUBSET Vault!Present : Vault!ListReads(w, headless)
        PROVE  VaultInv' /\ (Vault!Next => Vault!ReuseStep)
    BY <2>5, SealPutsStep, AskFails, SealArrivesStep, ListArrivesStep, ListReadsStep
  <2>6. ASSUME NEW w \in v6,
               \/ Vault!VerifyTries(w) \/ Vault!VerifyArrives(w)
               \/ \E e \in {"forbidden", "lost"} : Vault!VerifyFails(w, e)
        PROVE  VaultInv' /\ (Vault!Next => Vault!ReuseStep)
    BY <2>6, VerifyTried, VerifyArrivesStep
  <2>7. ASSUME NEW w \in v6,
               \/ Vault!ProbeReads(w) \/ Vault!ProbeArrives(w) \/ Vault!LooksUp(w) \/ Vault!Writes(w)
               \/ Vault!Saves(w) \/ Vault!ReportArrives(w) \/ Vault!ReportIsLost(w)
        PROVE  VaultInv' /\ (Vault!Next => Vault!ReuseStep)
    BY <2>7, ProbeReadsStep, DetailAnswers, LooksUpStep, WritesStep, SavesStep
  <2> QED  BY <1>2, <2>1, <2>2, <2>3, <2>4, <2>5, <2>6, <2>7 DEF Vault!Next
<1> QED  BY <1>1, <1>2

--------------------------------------------------------------------------------
(* The two stores and the copies between them (lib/config-store): v1 the   *)
(* view, v2 the settings, v3 the pod's, v4 the document in Firestore, v5   *)
(* the one in the file, v6 the store last written, v7 the replacements,    *)
(* v8 the migration, v9 the export, v10 the saved copy, v11 the health,    *)
(* v12 the turns, v13 the faults.                                          *)

Settings  == [store : {"", "file", "firestore", "bad"}, project : BOOLEAN]
Entries   == [Transfer!Lists -> SUBSET TransferGiven.Names]
ActiveIds == TransferGiven.Names \union {""}
Documents == [lists : Entries, active : ActiveIds, legacy : BOOLEAN]
DocParts  == {"cameras", "scenarios", "promptSets", "prompt", "zactive"} \X ActiveIds
CopyJobs  ==
  [step : {"none", "look", "write", "done"}, force : BOOLEAN, src : Documents, todo : SUBSET DocParts,
   answer : {"none", "unread", "refused", "dry run", "failed", "verified", "differs"}, touched : BOOLEAN]
Writers   ==
  [want : SUBSET TransferGiven.Names, step : {"read", "write", "done"}, drop : SUBSET TransferGiven.Names,
   put : SUBSET TransferGiven.Names, alone : BOOLEAN, n : Nat]
Readings  ==
  [on : BOOLEAN, lists : Entries, got : SUBSET (Transfer!Lists \union {"active"}), active : ActiveIds,
   empty : SUBSET Transfer!Lists]
SavedOnes == [saved : BOOLEAN, lists : Entries, active : ActiveIds, empty : SUBSET Transfer!Lists]

(* The store that was written while none was set is the one used then.     *)
SettingsFit(config, pod, wrote) ==
  /\ config \in Settings /\ pod \in Settings /\ config.project = pod.project
  /\ wrote \in {"none", IF pod.project THEN "firestore" ELSE "file"}
(* A replacement that is alone deletes what is there and not wanted, and   *)
(* sets what is wanted and not there.                                      *)
WriterFits(w, ws, cloud) ==
  /\ w \in Writers
  /\ w.alone => /\ ws = {w}
                /\ w.step = "read" => w.put = w.want
                /\ w.step = "write" => /\ w.drop = cloud.lists["scenarios"] \ w.want
                                       /\ w.want \subseteq cloud.lists["scenarios"] \union w.put
                                       /\ w.put \subseteq w.want
                /\ w.step = "done" => cloud.lists["scenarios"] = w.want
(* What the migration no longer has to write is in the file.               *)
Copied(job, file) ==
  /\ \A l \in {"cameras", "scenarios"} : <<l, "">> \notin job.todo => file.lists[l] = job.src.lists[l]
  /\ \A n \in job.src.lists["promptSets"] :
       <<"promptSets", n>> \notin job.todo => n \in file.lists["promptSets"]
CopyJobFits(job, file) ==
  /\ job \in CopyJobs
  /\ job.todo # {} => job.step \in {"write", "done"}
  /\ \A p \in job.todo : p[1] = "promptSets" => p[2] \in TransferGiven.Names
  /\ job.answer = "verified" => job.step = "done"
  /\ ~job.touched => /\ job.answer = "verified" => file.lists = job.src.lists
                     /\ job.step = "write" => Copied(job, file)
ReadingFits(r) ==
  /\ r \in Readings
  /\ \A l \in Transfer!Lists : l \in r.got /\ r.lists[l] = {} => l \in r.empty
SavedFits(c) ==
  /\ c \in SavedOnes
  /\ c.saved => \A l \in Transfer!Lists : c.lists[l] = {} => l \in c.empty

TransferInv ==
  /\ v1 \in {"replace", "migrate", "copy", "about"} /\ SettingsFit(v2, v3, v6)
  /\ v4 \in Documents /\ v5 \in Documents
  /\ (\A w \in v7 : WriterFits(w, v7, v4)) /\ (v7 # {} => v3.project)
  /\ CopyJobFits(v8, v5) /\ ReadingFits(v9) /\ SavedFits(v10)
  /\ v11.status \in {"none", "ok", "unconfigured", "error"}
  /\ v12 \in 0 .. TransferGiven.MaxTurns /\ v13 \in 0 .. TransferGiven.MaxFaults

LEMMA TransferCounts == \A S : Transfer!Cardinality(S) = Cardinality(S)
BY DEF Transfer!Cardinality, Cardinality

LEMMA TransferPromise ==
  TransferInv => /\ Transfer!TypeOK /\ Transfer!UpgradesKeepTheStore /\ Transfer!VerifiedMeansCopied
                 /\ Transfer!EmptyCopyWasEmpty /\ Transfer!ReplacesWhole
<1> SUFFICES ASSUME TransferInv
             PROVE  /\ Transfer!TypeOK /\ Transfer!UpgradesKeepTheStore /\ Transfer!VerifiedMeansCopied
                    /\ Transfer!EmptyCopyWasEmpty /\ Transfer!ReplacesWhole
  OBVIOUS
<1>1. Transfer!TypeOK
  <2>1. \A d \in {v4, v5} : \A l \in Transfer!Lists : d.lists[l] \subseteq TransferGiven.Names
    BY DEF TransferInv, Documents, Entries
  <2>2. v8.step \in {"none", "look", "write", "done"} /\ (v8.todo # {} => v8.step \in {"write", "done"})
    BY DEF TransferInv, CopyJobFits, CopyJobs
  <2>3. v9.got \subseteq Transfer!Lists \union {"active"}
    BY DEF TransferInv, ReadingFits, Readings
  <2>4. v2.store \in {"", "file", "firestore", "bad"}
    BY DEF TransferInv, SettingsFit, Settings
  <2> QED  BY <2>1, <2>2, <2>3, <2>4 DEF TransferInv, Transfer!TypeOK
<1>2. Transfer!UpgradesKeepTheStore
  BY DEF TransferInv, SettingsFit, Transfer!UpgradesKeepTheStore, Transfer!Kind
<1>3. Transfer!VerifiedMeansCopied
  BY DEF TransferInv, CopyJobFits, Transfer!VerifiedMeansCopied
<1>4. Transfer!EmptyCopyWasEmpty
  BY DEF TransferInv, SavedFits, Transfer!EmptyCopyWasEmpty
<1>5. Transfer!ReplacesWhole
  BY DEF TransferInv, WriterFits, Transfer!ReplacesWhole
<1> QED  BY <1>1, <1>2, <1>3, <1>4, <1>5

LEMMA Nothings ==
  /\ Transfer!Nothing \in Entries /\ Transfer!Empty \in Documents
  /\ CopyJobFits(Transfer!NoJob, v5) /\ CopyJobFits(Transfer!NoJob, v5')
  /\ ReadingFits(Transfer!NoRead) /\ SavedFits(Transfer!Unsaved)
<1>1. Transfer!Nothing \in Entries
  BY DEF Transfer!Nothing, Entries
<1>2. Transfer!Empty \in Documents
  BY <1>1 DEF Transfer!Empty, Transfer!Doc, Documents, ActiveIds
<1>3. ASSUME NEW file PROVE CopyJobFits(Transfer!NoJob, file)
  BY <1>2 DEF Transfer!NoJob, CopyJobFits, CopyJobs
<1>4. ReadingFits(Transfer!NoRead)
  BY <1>1 DEF Transfer!NoRead, ReadingFits, Readings, ActiveIds
<1>5. SavedFits(Transfer!Unsaved)
  BY <1>1 DEF Transfer!Unsaved, SavedFits, SavedOnes, ActiveIds
<1> QED  BY <1>1, <1>2, <1>3, <1>4, <1>5

LEMMA TransferStart == Transfer!Init => TransferInv
<1> SUFFICES ASSUME Transfer!Init PROVE TransferInv
  OBVIOUS
<1>1. PICK p \in TransferGiven.Projects : v2 = [store |-> "", project |-> p]
  BY DEF Transfer!Init
<1>2. p \in BOOLEAN /\ TransferGiven.MaxTurns \in Nat /\ TransferGiven.MaxFaults \in Nat
  BY TransferAssumption
<1>3. SettingsFit(v2, v3, v6)
  BY <1>1, <1>2 DEF SettingsFit, Settings, Transfer!Init
<1>4. v4 \in Documents
  <2>1. PICK x \in TransferGiven.Names :
          v4 = IF v2.project THEN Transfer!Doc([l \in Transfer!Lists |-> {x}], IF x = "a" THEN x ELSE "", x # "a")
               ELSE Transfer!Empty
    BY DEF Transfer!Init
  <2>2. [l \in Transfer!Lists |-> {x}] \in Entries
    BY DEF Entries
  <2> QED  BY <2>1, <2>2, Nothings DEF Documents, ActiveIds, Transfer!Doc
<1>5. v5 = Transfer!Empty /\ v7 = {} /\ v8 = Transfer!NoJob /\ v9 = Transfer!NoRead /\ v10 = Transfer!Unsaved
  BY DEF Transfer!Init
<1>6. v12 \in 0 .. TransferGiven.MaxTurns /\ v13 \in 0 .. TransferGiven.MaxFaults
  <2>1. v12 = 0 /\ v13 = 0
    BY DEF Transfer!Init
  <2> QED  BY <1>2, <2>1
<1>7. /\ v1 \in {"replace", "migrate", "copy", "about"}
      /\ v11.status \in {"none", "ok", "unconfigured", "error"}
  BY DEF Transfer!Init
<1> QED  BY <1>3, <1>4, <1>5, <1>6, <1>7, Nothings DEF TransferInv

(* What each step does to the turns and the faults.                        *)
TransferCounted ==
  /\ v12' = v12 \/ (Transfer!May /\ Transfer!Turn)
  /\ v13' = v13 \/ (v13 < TransferGiven.MaxFaults /\ v13' = v13 + 1)

LEMMA TransferMoves ==
  ASSUME TransferInv, TransferCounted, UNCHANGED v1, SettingsFit(v2', v3', v6'), v4' \in Documents, v5' \in Documents,
         \A w \in v7' : WriterFits(w, v7', v4'), v7' # {} => v3'.project, CopyJobFits(v8', v5'), ReadingFits(v9'), SavedFits(v10'),
         v11'.status \in {"none", "ok", "unconfigured", "error"}
  PROVE  TransferInv'
<1>1. TransferGiven.MaxTurns \in Nat /\ TransferGiven.MaxFaults \in Nat
  BY TransferAssumption
<1>2. v12' \in 0 .. TransferGiven.MaxTurns
  BY <1>1 DEF TransferInv, TransferCounted, Transfer!May, Transfer!Turn
<1>3. v13' \in 0 .. TransferGiven.MaxFaults
  BY <1>1 DEF TransferInv, TransferCounted
<1> QED  BY <1>2, <1>3 DEF TransferInv

(* The settings, and the page that shows the store.                        *)
LEMMA SettingSteps ==
  ASSUME TransferInv, Transfer!Restart \/ Transfer!About
                      \/ \E s \in {"", "file", "firestore", "bad"} : Transfer!SetStore(s)
  PROVE  TransferInv'
<1>1. CASE Transfer!Restart
  <2>1. /\ v3' = v2 /\ v7' = {} /\ v8' = Transfer!NoJob /\ v9' = Transfer!NoRead
        /\ v11' = [kind |-> "none", status |-> "none"]
        /\ UNCHANGED <<v1, v2, v4, v5, v6, v10, v13>> /\ Transfer!May /\ Transfer!Turn
    BY <1>1 DEF Transfer!Restart
  <2>2. SettingsFit(v2', v3', v6')
    BY <2>1 DEF TransferInv, SettingsFit
  <2> QED  BY <2>1, <2>2, Nothings, TransferMoves DEF TransferInv, TransferCounted
<1>2. CASE Transfer!About
  <2>1. UNCHANGED <<v1, v2, v3, v4, v5, v6, v7, v8, v9, v10, v12>> /\ TransferCounted
    BY <1>2 DEF Transfer!About, TransferCounted, Transfer!Fault
  <2>2. v11'.status \in {"none", "ok", "unconfigured", "error"}
    <3>1. PICK fails \in BOOLEAN :
            v11' = [kind |-> IF Transfer!Kind(v3) = "none" THEN "file" ELSE Transfer!Kind(v3),
                    status |-> Transfer!Probed(fails)]
      BY <1>2 DEF Transfer!About
    <3>2. Transfer!FirestoreProbed(fails) \in {"ok", "unconfigured", "error"}
      BY DEF Transfer!FirestoreProbed
    <3>3. Transfer!FileProbed(fails) \in {"ok", "error"}
      BY DEF Transfer!FileProbed
    <3>4. Transfer!Probed(fails) \in {"ok", "unconfigured", "error"}
      BY <3>2, <3>3 DEF Transfer!Probed
    <3> QED  BY <3>1, <3>4
  <2> QED  BY <2>1, <2>2, TransferMoves DEF TransferInv
<1>3. ASSUME NEW s \in {"", "file", "firestore", "bad"}, Transfer!SetStore(s) PROVE TransferInv'
  <2>1. /\ v2' = [v2 EXCEPT !.store = s] /\ Transfer!May /\ Transfer!Turn
        /\ UNCHANGED <<v1, v3, v4, v5, v6, v7, v8, v9, v10, v11, v13>>
    BY <1>3 DEF Transfer!SetStore
  <2>2. SettingsFit(v2', v3', v6')
    BY <2>1 DEF TransferInv, SettingsFit, Settings
  <2> QED  BY <2>1, <2>2, TransferMoves DEF TransferInv, TransferCounted
<1> QED  BY <1>1, <1>2, <1>3

(* An edit of a document that leaves the scenarios of Firestore alone.     *)
LEMMA KindIs ==
  ASSUME TransferInv
  PROVE  /\ Transfer!Current \in Documents
         /\ Transfer!Kind(v3) = "firestore" => Transfer!Current = v4
         /\ Transfer!Kind(v3) = "file" => Transfer!Current = v5
BY DEF TransferInv, Transfer!Current

LEMMA JobTouched ==
  ASSUME NEW job, NEW file, NEW other, CopyJobFits(job, file)
  PROVE  CopyJobFits([job EXCEPT !.touched = TRUE], other)
<1> DEFINE j == [job EXCEPT !.touched = TRUE]
<1>1. /\ j \in CopyJobs /\ j.touched = TRUE /\ j.todo = job.todo /\ j.step = job.step
      /\ j.answer = job.answer
  BY DEF CopyJobFits, CopyJobs
<1> HIDE DEF j
<1>2. CopyJobFits(j, other)
  BY <1>1 DEF CopyJobFits
<1> QED  BY <1>2 DEF j

LEMMA PutStep ==
  ASSUME TransferInv, NEW doc \in Documents, Transfer!Put(doc),
         Transfer!Kind(v3) = "firestore" => doc.lists["scenarios"] = v4.lists["scenarios"],
         UNCHANGED <<v1, v2, v3, v7, v9, v10, v11, v13>>, Transfer!May, Transfer!Turn
  PROVE  TransferInv'
<1>1. SettingsFit(v2', v3', v6')
  <2>1. v2' = v2 /\ v3' = v3
    OBVIOUS
  <2>2. v3 \in Settings
    BY DEF TransferInv, SettingsFit
  <2>3. v6' = v6 \/ (v3.store = "" /\ v6' = Transfer!Kind(v3))
    BY DEF Transfer!Put, Transfer!Wrote
  <2>4. v3.store = "" => Transfer!Kind(v3) = IF v3.project THEN "firestore" ELSE "file"
    BY DEF Transfer!Kind
  <2> QED  BY <2>1, <2>2, <2>3, <2>4 DEF TransferInv, SettingsFit
<1>2. Transfer!Kind(v3) \in {"file", "firestore"}
  BY DEF Transfer!Put, Transfer!Opens
<1>3. CASE Transfer!Kind(v3) = "firestore"
  <2>1. v4' = doc /\ v5' = v5
    BY <1>3 DEF Transfer!Put
  <2>2. v8 \in CopyJobs
    BY DEF TransferInv, CopyJobFits
  <2>3. v8' = v8
    BY <1>3, <2>2 DEF Transfer!Put, CopyJobs
  <2>4. \A w \in v7' : WriterFits(w, v7', v4')
    BY <1>3, <2>1 DEF TransferInv, WriterFits
  <2>5. CopyJobFits(v8', v5')
    BY <2>1, <2>3 DEF TransferInv
  <2> QED  BY <1>1, <2>1, <2>4, <2>5, TransferMoves DEF TransferInv, TransferCounted
<1>4. CASE Transfer!Kind(v3) = "file"
  <2>1. v4' = v4 /\ v5' = doc /\ v8' = [v8 EXCEPT !.touched = @ \/ TRUE]
    BY <1>4 DEF Transfer!Put
  <2>2. v8' = [v8 EXCEPT !.touched = TRUE]
    BY <2>1
  <2>3. CopyJobFits(v8', v5')
    BY <2>2, JobTouched DEF TransferInv
  <2> QED  BY <1>1, <2>1, <2>3, TransferMoves DEF TransferInv, TransferCounted
<1> QED  BY <1>2, <1>3, <1>4

LEMMA EditSteps ==
  ASSUME TransferInv, NEW n \in TransferGiven.Names,
         Transfer!Activate(n) \/ \E l \in Transfer!Lists : Transfer!Edit(l, n)
  PROVE  TransferInv'
<1> DEFINE doc == Transfer!Current
<1>1. doc \in Documents /\ (Transfer!Kind(v3) = "firestore" => doc = v4)
  BY KindIs
<1> HIDE DEF doc
<1>2. UNCHANGED <<v1, v2, v3, v7, v9, v10, v11, v13>> /\ Transfer!May /\ Transfer!Turn
  BY DEF Transfer!Activate, Transfer!Edit
<1>3. CASE Transfer!Activate(n)
  <2>1. Transfer!Put([doc EXCEPT !.active = n])
    BY <1>3 DEF Transfer!Activate, doc
  <2>2. [doc EXCEPT !.active = n] \in Documents /\ [doc EXCEPT !.active = n].lists = doc.lists
    BY <1>1 DEF Documents, ActiveIds
  <2> QED  BY <1>1, <1>2, <2>1, <2>2, PutStep
<1>4. ASSUME NEW l \in Transfer!Lists, Transfer!Edit(l, n) PROVE TransferInv'
  <2>1. PICK list \in SUBSET TransferGiven.Names : Transfer!Put([doc EXCEPT !.lists[l] = list])
    <3>1. doc.lists[l] \in SUBSET TransferGiven.Names
      BY <1>1 DEF Documents, Entries
    <3>2. \/ Transfer!Put([doc EXCEPT !.lists[l] = @ \union {n}])
          \/ Transfer!Put([doc EXCEPT !.lists[l] = @ \ {n}])
      BY <1>4 DEF Transfer!Edit, doc
    <3>3. /\ [doc EXCEPT !.lists[l] = @ \union {n}] = [doc EXCEPT !.lists[l] = doc.lists[l] \union {n}]
          /\ [doc EXCEPT !.lists[l] = @ \ {n}] = [doc EXCEPT !.lists[l] = doc.lists[l] \ {n}]
      BY <1>1, <1>4 DEF Documents, Entries
    <3> QED  BY <3>1, <3>2, <3>3
  <2>2. [doc.lists EXCEPT ![l] = list] \in Entries
        /\ (l # "scenarios" => [doc.lists EXCEPT ![l] = list]["scenarios"] = doc.lists["scenarios"])
    BY <1>1 DEF Documents, Entries, Transfer!Lists
  <2>3. [doc EXCEPT !.lists[l] = list] = [doc EXCEPT !.lists = [doc.lists EXCEPT ![l] = list]]
    BY <1>1 DEF Documents
  <2>4. [doc EXCEPT !.lists = [doc.lists EXCEPT ![l] = list]] \in Documents
        /\ [doc EXCEPT !.lists = [doc.lists EXCEPT ![l] = list]].lists = [doc.lists EXCEPT ![l] = list]
    BY <1>1, <2>2 DEF Documents
  <2>5. l # "scenarios"
    BY <1>4 DEF Transfer!Edit
  <2> QED  BY <1>1, <1>2, <2>1, <2>2, <2>3, <2>4, <2>5, PutStep
<1> QED  BY <1>3, <1>4

(* The replacements of the scenarios.                                      *)
LEMMA SaveStoreStep ==
  ASSUME TransferInv, NEW want \in SUBSET TransferGiven.Names, Transfer!Save(want)
  PROVE  TransferInv'
<1>1. UNCHANGED <<v1, v2, v3, v9, v10, v11, v13>> /\ Transfer!May /\ Transfer!Turn /\ want # {}
  BY DEF Transfer!Save
<1>2. CASE Transfer!Kind(v3) = "file"
  <2> DEFINE lists == [v5.lists EXCEPT !["scenarios"] = want]
             doc == [v5 EXCEPT !.lists = lists]
  <2>1. v5 \in Documents
    BY DEF TransferInv
  <2>2. Transfer!Put([v5 EXCEPT !.lists["scenarios"] = want]) /\ UNCHANGED v7
    BY <1>2 DEF Transfer!Save
  <2>3. lists \in Entries
    BY <2>1 DEF Documents, Entries, Transfer!Lists
  <2>4. [v5 EXCEPT !.lists["scenarios"] = want] = doc
    BY <2>1 DEF Documents
  <2> HIDE DEF lists
  <2>5. doc \in Documents
    BY <2>1, <2>3 DEF Documents
  <2> QED  BY <1>1, <1>2, <2>2, <2>4, <2>5, PutStep
<1>3. CASE Transfer!Kind(v3) # "file"
  <2> DEFINE x == [want |-> want, step |-> "read", drop |-> {}, put |-> want, alone |-> v7 = {}, n |-> v12]
             alike == {[w EXCEPT !.alone = FALSE] : w \in v7}
  <2>1. v7' = alike \union {x} /\ UNCHANGED <<v4, v5, v6, v8>>
    BY <1>3 DEF Transfer!Save
  <2>2. v12 \in Nat
    <3>1. TransferGiven.MaxTurns \in Nat
      BY TransferAssumption
    <3> QED  BY <3>1 DEF TransferInv
  <2>3. /\ x \in Writers /\ x.alone = (v7 = {}) /\ x.step = "read" /\ x.put = want /\ x.want = want
    BY <2>2 DEF Writers
  <2> HIDE DEF x
  <2>4. \A w \in v7 : w \in Writers
    BY DEF TransferInv, WriterFits
  <2>5. \A y \in alike : y \in Writers /\ ~y.alone
    BY <2>4 DEF Writers
  <2>6. v7 = {} => alike = {}
    OBVIOUS
  <2> HIDE DEF alike
  <2>7. \A y \in v7' : WriterFits(y, v7', v4')
    BY <2>1, <2>3, <2>5, <2>6 DEF WriterFits
  <2>8. v3'.project
    BY <1>1, <1>3 DEF Transfer!Save, Transfer!Opens
  <2> QED  BY <1>1, <2>1, <2>7, <2>8, TransferMoves DEF TransferInv, TransferCounted
<1> QED  BY <1>2, <1>3

(* One replacement goes on while the others stay.                          *)
LEMMA WriterMoves ==
  ASSUME TransferInv, NEW w \in v7, NEW x \in Writers, v7' = (v7 \ {w}) \union {x},
         UNCHANGED <<v1, v2, v3, v5, v8, v9, v10, v11, v12, v13>>, v4' \in Documents,
         x.alone = w.alone, x.alone => WriterFits(x, {x}, v4'), SettingsFit(v2', v3', v6')
  PROVE  TransferInv'
<1>1. \A y \in v7 : WriterFits(y, v7, v4)
  BY DEF TransferInv
<1>2. \A y \in v7 : y.alone => v7 = {y}
  BY <1>1 DEF WriterFits
<1>3. x.alone => v7' = {x}
  BY <1>2
<1>4. \A y \in v7 \ {w} : ~y.alone /\ y \in Writers
  BY <1>1, <1>2 DEF WriterFits
<1>5. \A y \in v7' : WriterFits(y, v7', v4')
  BY <1>3, <1>4 DEF WriterFits
<1>6. v3'.project
  BY DEF TransferInv
<1> QED  BY <1>5, <1>6, TransferMoves DEF TransferInv, TransferCounted

LEMMA WriterSteps ==
  ASSUME TransferInv, NEW w \in v7,
         Transfer!ReadsExisting(w) \/ Transfer!WritesOne(w) \/ Transfer!Answered(w)
  PROVE  TransferInv'
<1>1. WriterFits(w, v7, v4) /\ w \in Writers /\ v4 \in Documents /\ SettingsFit(v2, v3, v6)
  BY DEF TransferInv, WriterFits
<1>2. v4.lists["scenarios"] \in SUBSET TransferGiven.Names
  BY <1>1 DEF Documents, Entries, Transfer!Lists
<1>3. CASE Transfer!ReadsExisting(w)
  <2> DEFINE drop == v4.lists["scenarios"] \ w.want
             x == [w EXCEPT !.step = "write", !.drop = drop]
  <2>1. /\ w.step = "read" /\ v7' = (v7 \ {w}) \union {x}
        /\ UNCHANGED <<v1, v2, v3, v4, v5, v6, v8, v9, v10, v11, v12, v13>>
    BY <1>3 DEF Transfer!ReadsExisting, Transfer!Unwanted
  <2>2. drop \in SUBSET TransferGiven.Names
    BY <1>2
  <2>3. drop = v4.lists["scenarios"] \ w.want
    OBVIOUS
  <2> HIDE DEF drop
  <2>4. /\ x \in Writers /\ x.alone = w.alone /\ x.drop = drop /\ x.put = w.put
        /\ x.want = w.want /\ x.step = "write"
    BY <1>1, <2>2 DEF Writers
  <2> HIDE DEF x
  <2>5. x.alone => WriterFits(x, {x}, v4')
    BY <1>1, <2>1, <2>3, <2>4 DEF WriterFits
  <2> QED  BY <1>1, <2>1, <2>4, <2>5, WriterMoves
<1>4. CASE Transfer!WritesOne(w)
  <2>1. w.step = "write" /\ UNCHANGED <<v1, v2, v3, v5, v8, v9, v10, v11, v12, v13>>
    BY <1>4 DEF Transfer!WritesOne
  <2>2. SettingsFit(v2', v3', v6')
    <3>1. v2' = v2 /\ v3' = v3 /\ (v6' = v6 \/ (v6' = "firestore" /\ v3.store = ""))
      BY <1>4, <2>1 DEF Transfer!WritesOne, Transfer!Wrote
    <3>2. v3.project
      BY DEF TransferInv
    <3> QED  BY <1>1, <3>1, <3>2 DEF SettingsFit
  <2>3. ASSUME NEW n \in w.drop, v4' = [v4 EXCEPT !.lists["scenarios"] = @ \ {n}],
               v7' = (v7 \ {w}) \union {[w EXCEPT !.drop = @ \ {n}]}
        PROVE  TransferInv'
    <3> DEFINE drop == w.drop \ {n}
               x == [w EXCEPT !.drop = drop]
    <3>1. v7' = (v7 \ {w}) \union {x} /\ drop \in SUBSET TransferGiven.Names
      BY <1>1, <2>3 DEF Writers
    <3>2. drop = w.drop \ {n}
      OBVIOUS
    <3> HIDE DEF drop
    <3>3. /\ x \in Writers /\ x.alone = w.alone /\ x.drop = drop /\ x.put = w.put
          /\ x.want = w.want /\ x.step = "write"
      BY <1>1, <2>1, <3>1 DEF Writers
    <3> HIDE DEF x
    <3>4. v4' \in Documents /\ v4'.lists["scenarios"] = v4.lists["scenarios"] \ {n}
      BY <1>1, <2>3 DEF Documents, Entries, Transfer!Lists
    <3>5. x.alone => WriterFits(x, {x}, v4')
      BY <1>1, <2>1, <3>2, <3>3, <3>4 DEF WriterFits
    <3> QED  BY <2>1, <2>2, <3>1, <3>3, <3>4, <3>5, WriterMoves
  <2>4. ASSUME NEW n \in w.put, w.drop = {}, v4' = [v4 EXCEPT !.lists["scenarios"] = @ \union {n}],
               v7' = (v7 \ {w}) \union
                       {[w EXCEPT !.put = @ \ {n}, !.step = IF w.put = {n} THEN "done" ELSE "write"]}
        PROVE  TransferInv'
    <3> DEFINE put == w.put \ {n}
               step == IF w.put = {n} THEN "done" ELSE "write"
               x == [w EXCEPT !.put = put, !.step = step]
    <3>1. /\ v7' = (v7 \ {w}) \union {x} /\ put \in SUBSET TransferGiven.Names
          /\ n \in TransferGiven.Names
      BY <1>1, <2>4 DEF Writers
    <3>2. put = w.put \ {n} /\ step \in {"done", "write"} /\ (step = "done" => put = {})
      OBVIOUS
    <3> HIDE DEF put, step
    <3>3. /\ x \in Writers /\ x.alone = w.alone /\ x.drop = w.drop /\ x.put = put
          /\ x.want = w.want /\ x.step = step
      BY <1>1, <3>1, <3>2 DEF Writers
    <3> HIDE DEF x
    <3>4. v4' \in Documents /\ v4'.lists["scenarios"] = v4.lists["scenarios"] \union {n}
      BY <1>1, <2>4, <3>1 DEF Documents, Entries, Transfer!Lists
    <3>5. x.alone => WriterFits(x, {x}, v4')
      BY <1>1, <2>1, <2>4, <3>2, <3>3, <3>4 DEF WriterFits
    <3> QED  BY <2>1, <2>2, <3>1, <3>3, <3>4, <3>5, WriterMoves
  <2> QED  BY <1>4, <2>3, <2>4 DEF Transfer!WritesOne
<1>5. CASE Transfer!Answered(w)
  <2>1. /\ v7' = v7 \ {w}
        /\ UNCHANGED <<v1, v2, v3, v4, v5, v6, v8, v9, v10, v11, v12, v13>>
    BY <1>5 DEF Transfer!Answered
  <2>2. \A y \in v7' : WriterFits(y, v7', v4')
    BY <2>1 DEF TransferInv, WriterFits
  <2> QED  BY <2>1, <2>2, TransferMoves DEF TransferInv, TransferCounted
<1> QED  BY <1>3, <1>4, <1>5

(* The migration, beside which the rest stays as it is.                    *)
JobMoves == UNCHANGED <<v1, v2, v3, v4, v6, v7, v9, v10, v11>>

LEMMA JobStep ==
  ASSUME TransferInv, JobMoves, TransferCounted, v5' \in Documents, CopyJobFits(v8', v5')
  PROVE  TransferInv'
BY TransferMoves DEF TransferInv, JobMoves

LEMMA MigrateStep ==
  ASSUME TransferInv, NEW force \in BOOLEAN, Transfer!Migrate(force)
  PROVE  TransferInv'
<1>1. PICK fails \in BOOLEAN :
        /\ Transfer!Fault(fails)
        /\ v8' = IF fails THEN [Transfer!NoJob EXCEPT !.step = "done", !.answer = "unread"]
                 ELSE [Transfer!NoJob EXCEPT !.step = "look", !.force = force,
                                             !.src = [v4 EXCEPT !.legacy = @ /\ v4.active = ""]]
  BY DEF Transfer!Migrate
<1>2. JobMoves /\ v5' = v5 /\ TransferCounted
  BY <1>1 DEF Transfer!Migrate, JobMoves, TransferCounted, Transfer!Fault
<1>3. v4 \in Documents /\ v5 \in Documents /\ Transfer!NoJob \in CopyJobs /\ Transfer!NoJob.todo = {}
  BY Nothings DEF TransferInv, CopyJobFits, Transfer!NoJob
<1>4. CASE fails
  <2> DEFINE x == [Transfer!NoJob EXCEPT !.step = "done", !.answer = "unread"]
  <2>1. x \in CopyJobs /\ x.todo = {} /\ x.step = "done" /\ x.answer = "unread"
    BY <1>3 DEF CopyJobs
  <2> HIDE DEF x
  <2>2. CopyJobFits(x, v5)
    BY <2>1 DEF CopyJobFits
  <2>3. v8' = x
    BY <1>1, <1>4 DEF x
  <2> QED  BY <1>2, <1>3, <2>2, <2>3, JobStep
<1>5. CASE ~fails
  <2> DEFINE legacy == v4.legacy /\ v4.active = ""
             src == [v4 EXCEPT !.legacy = legacy]
             x == [Transfer!NoJob EXCEPT !.step = "look", !.force = force, !.src = src]
  <2>1. legacy \in BOOLEAN /\ [v4 EXCEPT !.legacy = @ /\ v4.active = ""] = src
    BY <1>3 DEF Documents
  <2> HIDE DEF legacy
  <2>2. src \in Documents
    BY <1>3, <2>1 DEF Documents
  <2>3. v8' = x
    BY <1>1, <1>5, <2>1
  <2> HIDE DEF src
  <2>4. x \in CopyJobs /\ x.todo = {} /\ x.step = "look" /\ x.answer = Transfer!NoJob.answer
    BY <1>3, <2>2 DEF CopyJobs
  <2>5. Transfer!NoJob.answer = "none"
    BY DEF Transfer!NoJob
  <2> HIDE DEF x
  <2>6. CopyJobFits(x, v5)
    BY <2>4, <2>5 DEF CopyJobFits
  <2> QED  BY <1>2, <1>3, <2>3, <2>6, JobStep
<1> QED  BY <1>4, <1>5

LEMMA PartsAre ==
  ASSUME NEW src \in Documents
  PROVE  /\ Transfer!Parts(src) \in SUBSET DocParts
         /\ \A p \in Transfer!Parts(src) : p[1] = "promptSets" => p[2] \in TransferGiven.Names
         /\ <<"cameras", "">> \in Transfer!Parts(src) /\ <<"scenarios", "">> \in Transfer!Parts(src)
         /\ \A n \in src.lists["promptSets"] : <<"promptSets", n>> \in Transfer!Parts(src)
<1>1. src.lists["promptSets"] \in SUBSET TransferGiven.Names /\ src.active \in ActiveIds
  BY DEF Documents, Entries, Transfer!Lists
<1>2. ASSUME NEW p \in Transfer!Parts(src)
      PROVE  p \in DocParts /\ (p[1] = "promptSets" => p[2] \in TransferGiven.Names)
  <2>1. ASSUME NEW a \in {"cameras", "scenarios", "prompt"}, p = <<a, "">>
        PROVE  p \in DocParts /\ (p[1] = "promptSets" => p[2] \in TransferGiven.Names)
    <3>1. p[1] = a
      BY <2>1
    <3>2. <<a, "">> \in DocParts
      BY DEF DocParts, ActiveIds
    <3> QED  BY <2>1, <3>1, <3>2
  <2>2. ASSUME NEW n \in src.lists["promptSets"], p = <<"promptSets", n>>
        PROVE  p \in DocParts /\ (p[1] = "promptSets" => p[2] \in TransferGiven.Names)
    <3>1. p[2] = n /\ n \in TransferGiven.Names
      BY <1>1, <2>2
    <3>2. <<"promptSets", n>> \in DocParts
      BY <3>1 DEF DocParts, ActiveIds
    <3> QED  BY <2>2, <3>1, <3>2
  <2>3. ASSUME p = <<"zactive", src.active>>
        PROVE  p \in DocParts /\ (p[1] = "promptSets" => p[2] \in TransferGiven.Names)
    <3>1. p[1] = "zactive"
      BY <2>3
    <3>2. <<"zactive", src.active>> \in DocParts
      BY <1>1 DEF DocParts
    <3> QED  BY <2>3, <3>1, <3>2
  <2>4. \/ \E a \in {"cameras", "scenarios", "prompt"} : p = <<a, "">>
        \/ \E n \in src.lists["promptSets"] : p = <<"promptSets", n>>
        \/ p = <<"zactive", src.active>>
    BY DEF Transfer!Parts
  <2> QED  BY <2>1, <2>2, <2>3, <2>4
<1>3. /\ <<"cameras", "">> \in Transfer!Parts(src) /\ <<"scenarios", "">> \in Transfer!Parts(src)
      /\ \A n \in src.lists["promptSets"] : <<"promptSets", n>> \in Transfer!Parts(src)
  BY DEF Transfer!Parts
<1> QED  BY <1>2, <1>3

LEMMA LookStep ==
  ASSUME TransferInv, NEW apply \in BOOLEAN, Transfer!Look(apply)
  PROVE  TransferInv'
<1>1. /\ v8.step = "look" /\ JobMoves /\ v5' = v5 /\ TransferCounted
      /\ \/ v8' = [v8 EXCEPT !.step = "done", !.answer = "refused"]
         \/ v8' = [v8 EXCEPT !.step = "done", !.answer = "dry run"]
         \/ v8' = [v8 EXCEPT !.step = "write", !.todo = Transfer!Parts(v8.src), !.touched = FALSE]
  BY DEF Transfer!Look, JobMoves, TransferCounted
<1>2. v5 \in Documents /\ CopyJobFits(v8, v5) /\ v8 \in CopyJobs /\ v8.todo = {} /\ v8.answer # "verified"
  BY <1>1 DEF TransferInv, CopyJobFits
<1>3. ASSUME NEW answer \in {"refused", "dry run"}, v8' = [v8 EXCEPT !.step = "done", !.answer = answer]
      PROVE  CopyJobFits(v8', v5)
  <2>1. v8' \in CopyJobs /\ v8'.todo = {} /\ v8'.step = "done" /\ v8'.answer = answer
    BY <1>2, <1>3 DEF CopyJobs
  <2> QED  BY <2>1 DEF CopyJobFits
<1>4. ASSUME v8' = [v8 EXCEPT !.step = "write", !.todo = Transfer!Parts(v8.src), !.touched = FALSE]
      PROVE  CopyJobFits(v8', v5)
  <2> DEFINE todo == Transfer!Parts(v8.src)
  <2>1. v8.src \in Documents
    BY <1>2 DEF CopyJobs
  <2>2. /\ todo \in SUBSET DocParts /\ \A p \in todo : p[1] = "promptSets" => p[2] \in TransferGiven.Names
        /\ <<"cameras", "">> \in todo /\ <<"scenarios", "">> \in todo
        /\ \A n \in v8.src.lists["promptSets"] : <<"promptSets", n>> \in todo
    BY <2>1, PartsAre
  <2> HIDE DEF todo
  <2>3. v8' = [v8 EXCEPT !.step = "write", !.todo = todo, !.touched = FALSE]
    BY <1>4 DEF todo
  <2>4. /\ v8' \in CopyJobs /\ v8'.todo = todo /\ v8'.step = "write" /\ v8'.answer = v8.answer
        /\ v8'.src = v8.src
    BY <1>2, <2>2, <2>3 DEF CopyJobs
  <2>5. Copied(v8', v5)
    BY <2>2, <2>4 DEF Copied
  <2> QED  BY <1>2, <2>2, <2>4, <2>5 DEF CopyJobFits
<1> QED  BY <1>1, <1>2, <1>3, <1>4, JobStep

(* A part that is written is in the file.                                  *)
LEMMA PartIsWritten ==
  ASSUME v5 \in Documents, v8 \in CopyJobs, NEW p \in v8.todo,
         p[1] = "promptSets" => p[2] \in TransferGiven.Names
  PROVE  LET doc == Transfer!With(p)
         IN /\ doc \in Documents
            /\ \A l \in {"cameras", "scenarios"} :
                 doc.lists[l] = IF p[1] = l THEN v8.src.lists[l] ELSE v5.lists[l]
            /\ doc.lists["promptSets"] =
                 IF p[1] = "promptSets" THEN v5.lists["promptSets"] \union {p[2]} ELSE v5.lists["promptSets"]
<1>1. p \in DocParts /\ p[1] \in {"cameras", "scenarios", "promptSets", "prompt", "zactive"} /\ p[2] \in ActiveIds
  BY DEF CopyJobs, DocParts
<1>2. v8.src \in Documents
  BY DEF CopyJobs
<1>3. CASE p[1] \in {"cameras", "scenarios"}
  <2> DEFINE lists == [v5.lists EXCEPT ![p[1]] = v8.src.lists[p[1]]]
  <2>1. Transfer!With(p) = [v5 EXCEPT !.lists = lists]
    BY <1>3 DEF Transfer!With, Documents
  <2>2. lists \in Entries /\ lists[p[1]] = v8.src.lists[p[1]]
        /\ \A l \in Transfer!Lists \ {p[1]} : lists[l] = v5.lists[l]
    BY <1>2, <1>3 DEF Documents, Entries, Transfer!Lists
  <2> HIDE DEF lists
  <2>3. Transfer!With(p) \in Documents /\ Transfer!With(p).lists = lists
    BY <2>1, <2>2 DEF Documents
  <2> QED  BY <1>3, <2>2, <2>3 DEF Transfer!Lists
<1>4. CASE p[1] = "promptSets"
  <2> DEFINE lists == [v5.lists EXCEPT !["promptSets"] = v5.lists["promptSets"] \union {p[2]}]
  <2>1. Transfer!With(p) = [v5 EXCEPT !.lists = lists]
    BY <1>4 DEF Transfer!With, Documents
  <2>2. lists \in Entries /\ lists["promptSets"] = v5.lists["promptSets"] \union {p[2]}
        /\ \A l \in Transfer!Lists \ {"promptSets"} : lists[l] = v5.lists[l]
    BY <1>4 DEF Documents, Entries, Transfer!Lists
  <2> HIDE DEF lists
  <2>3. Transfer!With(p) \in Documents /\ Transfer!With(p).lists = lists
    BY <2>1, <2>2 DEF Documents
  <2> QED  BY <1>4, <2>2, <2>3 DEF Transfer!Lists
<1>5. CASE p[1] = "prompt"
  <2>1. Transfer!With(p) = [v5 EXCEPT !.legacy = TRUE]
    BY <1>5 DEF Transfer!With
  <2>2. Transfer!With(p) \in Documents /\ Transfer!With(p).lists = v5.lists
    BY <2>1 DEF Documents
  <2> QED  BY <1>5, <2>2
<1>6. CASE p[1] = "zactive"
  <2>1. Transfer!With(p) = [v5 EXCEPT !.active = p[2]]
    BY <1>6 DEF Transfer!With
  <2>2. Transfer!With(p) \in Documents /\ Transfer!With(p).lists = v5.lists
    BY <1>1, <2>1 DEF Documents
  <2> QED  BY <1>6, <2>2
<1> QED  BY <1>1, <1>3, <1>4, <1>5, <1>6

LEMMA WritesPartStep ==
  ASSUME TransferInv, Transfer!WritesPart
  PROVE  TransferInv'
<1>1. PICK p \in v8.todo, fails \in BOOLEAN :
        /\ Transfer!Fault(fails)
        /\ v5' = IF fails THEN v5 ELSE Transfer!With(p)
        /\ v8' = IF fails THEN [v8 EXCEPT !.step = "done", !.answer = "failed"]
                          ELSE [v8 EXCEPT !.todo = @ \ {p}]
  BY DEF Transfer!WritesPart
<1>2. v8.step = "write" /\ JobMoves /\ TransferCounted
  BY <1>1 DEF Transfer!WritesPart, JobMoves, TransferCounted, Transfer!Fault
<1>3. v5 \in Documents /\ CopyJobFits(v8, v5) /\ v8 \in CopyJobs /\ v8.answer # "verified"
  BY <1>2 DEF TransferInv, CopyJobFits
<1>4. CASE fails
  <2>1. v5' = v5 /\ v8' = [v8 EXCEPT !.step = "done", !.answer = "failed"]
    BY <1>1, <1>4
  <2>2. v8' \in CopyJobs /\ v8'.todo = v8.todo /\ v8'.step = "done" /\ v8'.answer = "failed"
    BY <1>3, <2>1 DEF CopyJobs
  <2>3. CopyJobFits(v8', v5')
    BY <1>3, <2>2 DEF CopyJobFits
  <2> QED  BY <1>2, <1>3, <2>1, <2>3, JobStep
<1>5. CASE ~fails
  <2> DEFINE todo == v8.todo \ {p}
  <2>1. v5' = Transfer!With(p) /\ v8' = [v8 EXCEPT !.todo = todo]
    BY <1>1, <1>5
  <2>2. todo \in SUBSET DocParts
    BY <1>3 DEF CopyJobs
  <2>t. todo = v8.todo \ {p}
    OBVIOUS
  <2> HIDE DEF todo
  <2>3. /\ v8' \in CopyJobs /\ v8'.todo = todo /\ v8'.step = v8.step /\ v8'.answer = v8.answer
        /\ v8'.src = v8.src /\ v8'.touched = v8.touched
    BY <1>3, <2>1, <2>2 DEF CopyJobs
  <2>4. p[1] = "promptSets" => p[2] \in TransferGiven.Names
    BY <1>3 DEF CopyJobFits
  <2>5. /\ v5' \in Documents
        /\ \A l \in {"cameras", "scenarios"} :
             v5'.lists[l] = IF p[1] = l THEN v8.src.lists[l] ELSE v5.lists[l]
        /\ v5'.lists["promptSets"] =
             IF p[1] = "promptSets" THEN v5.lists["promptSets"] \union {p[2]} ELSE v5.lists["promptSets"]
    BY <1>3, <2>1, <2>4, PartIsWritten
  <2>6. ~v8.touched => Copied(v8', v5')
    <3> SUFFICES ASSUME Copied(v8, v5) PROVE Copied(v8', v5')
      BY <1>2, <1>3 DEF CopyJobFits
    <3>1. ASSUME NEW l \in {"cameras", "scenarios"}, <<l, "">> \notin todo
          PROVE  v5'.lists[l] = v8.src.lists[l]
      <4>1. CASE <<l, "">> \notin v8.todo
        <5>1. v5.lists[l] = v8.src.lists[l]
          BY <4>1 DEF Copied
        <5>2. v5'.lists[l] = IF p[1] = l THEN v8.src.lists[l] ELSE v5.lists[l]
          BY <2>5
        <5> QED  BY <5>1, <5>2
      <4>2. CASE <<l, "">> = p
        <5>1. p[1] = l
          BY <4>2
        <5>2. v5'.lists[l] = IF p[1] = l THEN v8.src.lists[l] ELSE v5.lists[l]
          BY <2>5
        <5> QED  BY <5>1, <5>2
      <4> QED  BY <2>t, <3>1, <4>1, <4>2
    <3>2. ASSUME NEW n \in v8.src.lists["promptSets"], <<"promptSets", n>> \notin todo
          PROVE  n \in v5'.lists["promptSets"]
      <4>1. CASE <<"promptSets", n>> \notin v8.todo
        BY <2>5, <4>1 DEF Copied
      <4>2. CASE <<"promptSets", n>> = p
        <5>1. p[1] = "promptSets" /\ p[2] = n
          BY <4>2
        <5> QED  BY <2>5, <5>1
      <4> QED  BY <2>t, <3>2, <4>1, <4>2
    <3> QED  BY <2>3, <3>1, <3>2 DEF Copied
  <2>7. CopyJobFits(v8', v5')
    BY <1>2, <1>3, <2>t, <2>3, <2>6 DEF CopyJobFits
  <2> QED  BY <1>2, <2>5, <2>7, JobStep
<1> QED  BY <1>4, <1>5

(* As many sets as were read, and each that was read: the same sets.       *)
LEMMA VerifiesStep ==
  ASSUME TransferInv, Transfer!Verifies
  PROVE  TransferInv'
<1> DEFINE answer == IF Transfer!ReadsBack(v8.src) THEN "verified" ELSE "differs"
<1>1. /\ v8.step = "write" /\ v8.todo = {} /\ JobMoves /\ TransferCounted /\ v5' = v5
      /\ v8' = [v8 EXCEPT !.step = "done", !.answer = answer]
  BY DEF Transfer!Verifies, JobMoves, TransferCounted
<1>2. v5 \in Documents /\ CopyJobFits(v8, v5) /\ v8 \in CopyJobs /\ v8.src \in Documents
  BY DEF TransferInv, CopyJobFits, CopyJobs
<1>3. answer \in {"verified", "differs"} /\ (answer = "verified" => Transfer!ReadsBack(v8.src))
  OBVIOUS
<1> HIDE DEF answer
<1>4. /\ v8' \in CopyJobs /\ v8'.todo = {} /\ v8'.step = "done" /\ v8'.answer = answer
      /\ v8'.src = v8.src /\ v8'.touched = v8.touched
  BY <1>1, <1>2, <1>3 DEF CopyJobs
<1>5. ASSUME Copied(v8, v5), Transfer!ReadsBack(v8.src) PROVE v5.lists = v8.src.lists
  <2> DEFINE A == v8.src.lists["promptSets"]
             B == v5.lists["promptSets"]
  <2>1. v5.lists \in Entries /\ v8.src.lists \in Entries /\ A \in SUBSET TransferGiven.Names
        /\ B \in SUBSET TransferGiven.Names
    BY <1>2 DEF Documents, Entries, Transfer!Lists
  <2>2. A \subseteq B
    BY <1>1, <1>5 DEF Copied
  <2>3. IsFiniteSet(B) /\ Cardinality(A) = Cardinality(B)
    <3>1. IsFiniteSet(TransferGiven.Names)
      BY TransferAssumption
    <3>2. IsFiniteSet(B)
      BY <2>1, <3>1, FS_Subset
    <3> QED  BY <1>5, <3>2, TransferCounts DEF Transfer!ReadsBack, Transfer!Lists
  <2>4. A = B
    BY <2>2, <2>3, FS_Subset
  <2>5. \A l \in Transfer!Lists : v5.lists[l] = v8.src.lists[l]
    BY <1>1, <1>5, <2>4 DEF Copied, Transfer!Lists
  <2> QED  BY <2>1, <2>5 DEF Entries
<1>6. ~v8.touched /\ answer = "verified" => v5.lists = v8.src.lists
  BY <1>1, <1>2, <1>3, <1>5 DEF CopyJobFits
<1>7. CopyJobFits(v8', v5')
  BY <1>1, <1>4, <1>6 DEF CopyJobFits
<1> QED  BY <1>1, <1>2, <1>7, JobStep

LEMMA MigrateEndsStep ==
  ASSUME TransferInv, Transfer!MigrateEnds
  PROVE  TransferInv'
<1>1. v8' = Transfer!NoJob /\ v5' = v5 /\ JobMoves /\ TransferCounted
  BY DEF Transfer!MigrateEnds, JobMoves, TransferCounted
<1>2. v5 \in Documents
  BY DEF TransferInv
<1> QED  BY <1>1, <1>2, Nothings, JobStep

(* The export, which reads part by part, and the restore.                  *)
LEMMA ReadingMoves ==
  ASSUME TransferInv, UNCHANGED <<v1, v2, v3, v4, v5, v6, v7, v8, v11, v12>>, TransferCounted,
         ReadingFits(v9'), SavedFits(v10')
  PROVE  TransferInv'
BY TransferMoves DEF TransferInv

LEMMA ExportSteps ==
  ASSUME TransferInv,
         \/ Transfer!Export \/ Transfer!ReadsActive \/ Transfer!Exported
         \/ \E l \in Transfer!Lists : Transfer!ReadsList(l) \/ Transfer!ReadFails(l)
  PROVE  TransferInv'
<1>1. v9 \in Readings /\ ReadingFits(v9) /\ SavedFits(v10)
  BY DEF TransferInv, ReadingFits
<1>2. Transfer!Current \in Documents
  BY KindIs
<1>3. CASE Transfer!Export
  <2>1. /\ v9' = [Transfer!NoRead EXCEPT !.on = TRUE] /\ TransferCounted
        /\ UNCHANGED <<v1, v2, v3, v4, v5, v6, v7, v8, v10, v11, v12>>
    BY <1>3 DEF Transfer!Export, TransferCounted
  <2>2. Transfer!NoRead \in Readings /\ Transfer!NoRead.got = {}
    BY Nothings DEF ReadingFits, Transfer!NoRead
  <2>3. v9' \in Readings /\ v9'.got = {}
    BY <2>1, <2>2 DEF Readings
  <2>4. ReadingFits(v9')
    BY <2>3 DEF ReadingFits
  <2> QED  BY <1>1, <2>1, <2>4, ReadingMoves
<1>4. CASE Transfer!ReadsActive
  <2> DEFINE got == v9.got \union {"active"}
             active == Transfer!Current.active
  <2>1. /\ v9' = [v9 EXCEPT !.got = got, !.active = active] /\ TransferCounted
        /\ UNCHANGED <<v1, v2, v3, v4, v5, v6, v7, v8, v10, v11, v12>>
    BY <1>4 DEF Transfer!ReadsActive, TransferCounted
  <2>2. got \in SUBSET (Transfer!Lists \union {"active"}) /\ active \in ActiveIds
    BY <1>1, <1>2 DEF Readings, Documents
  <2>3. \A l \in Transfer!Lists : l \in got => l \in v9.got
    BY DEF Transfer!Lists
  <2> HIDE DEF got, active
  <2>4. v9' \in Readings /\ v9'.got = got /\ v9'.lists = v9.lists /\ v9'.empty = v9.empty
    BY <1>1, <2>1, <2>2 DEF Readings
  <2>5. ReadingFits(v9')
    BY <1>1, <2>3, <2>4 DEF ReadingFits
  <2> QED  BY <1>1, <2>1, <2>5, ReadingMoves
<1>5. ASSUME NEW l \in Transfer!Lists, Transfer!ReadsList(l) PROVE TransferInv'
  <2> DEFINE list == Transfer!Current.lists[l]
             lists == [v9.lists EXCEPT ![l] = list]
             got == v9.got \union {l}
             empty == IF list = {} THEN v9.empty \union {l} ELSE v9.empty
  <2>1. /\ v9' = [v9 EXCEPT !.got = @ \union {l}, !.lists[l] = list,
                            !.empty = IF list = {} THEN @ \union {l} ELSE @]
        /\ UNCHANGED <<v1, v2, v3, v4, v5, v6, v7, v8, v10, v11, v12>> /\ TransferCounted
    BY <1>5 DEF Transfer!ReadsList, TransferCounted
  <2>2. list \in SUBSET TransferGiven.Names
    BY <1>2 DEF Documents, Entries
  <2> HIDE DEF list
  <2>3. v9' = [v9 EXCEPT !.got = got, !.lists = lists, !.empty = empty]
    BY <1>1, <2>1 DEF Readings
  <2>4. /\ got \in SUBSET (Transfer!Lists \union {"active"}) /\ empty \in SUBSET Transfer!Lists
        /\ lists \in Entries
    BY <1>1, <2>2 DEF Readings, Entries
  <2>5. /\ lists[l] = list /\ (\A k \in Transfer!Lists \ {l} : lists[k] = v9.lists[k])
        /\ (\A k \in Transfer!Lists : k \in got => k = l \/ k \in v9.got)
        /\ (list = {} => l \in empty) /\ v9.empty \subseteq empty
    BY <1>1 DEF Readings, Entries
  <2> HIDE DEF lists, got, empty
  <2>6. v9' \in Readings /\ v9'.got = got /\ v9'.lists = lists /\ v9'.empty = empty
    BY <1>1, <2>3, <2>4 DEF Readings
  <2>7. ReadingFits(v9')
    BY <1>1, <2>5, <2>6 DEF ReadingFits
  <2> QED  BY <1>1, <2>1, <2>7, ReadingMoves
<1>6. ASSUME NEW l \in Transfer!Lists, Transfer!ReadFails(l) PROVE TransferInv'
  <2>1. /\ v9' = Transfer!NoRead /\ TransferCounted
        /\ UNCHANGED <<v1, v2, v3, v4, v5, v6, v7, v8, v10, v11, v12>>
    BY <1>6 DEF Transfer!ReadFails, Transfer!Unreadable, Transfer!Fault, TransferCounted
  <2> QED  BY <1>1, <2>1, Nothings, ReadingMoves
<1>7. CASE Transfer!Exported
  <2>1. /\ v10' = [saved |-> TRUE, lists |-> v9.lists, active |-> v9.active, empty |-> v9.empty]
        /\ v9' = Transfer!NoRead /\ v9.got = Transfer!Lists \union {"active"} /\ TransferCounted
        /\ UNCHANGED <<v1, v2, v3, v4, v5, v6, v7, v8, v11, v12>>
    BY <1>7 DEF Transfer!Exported, TransferCounted
  <2>2. v10' \in SavedOnes /\ v10'.lists = v9.lists /\ v10'.empty = v9.empty
    BY <1>1, <2>1 DEF SavedOnes, Readings
  <2>3. SavedFits(v10')
    BY <1>1, <2>1, <2>2 DEF SavedFits, ReadingFits
  <2> QED  BY <2>1, <2>3, Nothings, ReadingMoves
<1> QED  BY <1>3, <1>4, <1>5, <1>6, <1>7

(* The file is filled, or was emptied.                                     *)
LEMMA FillSteps ==
  ASSUME TransferInv, Transfer!Restore \/ Transfer!Emptied
  PROVE  TransferInv'
<1>1. v5 \in Documents /\ v10 \in SavedOnes /\ CopyJobFits(v8, v5)
  BY DEF TransferInv, SavedFits
<1>2. /\ v8' = [v8 EXCEPT !.touched = TRUE] /\ TransferCounted
      /\ UNCHANGED <<v1, v2, v3, v4, v6, v7, v9, v10, v11>>
  BY DEF Transfer!Restore, Transfer!Emptied, TransferCounted
<1>3. v5' \in Documents
  <2>1. CASE Transfer!Restore
    <3> DEFINE lists == [l \in Transfer!Lists |-> IF l \in Transfer!Fillable(v5, v10) THEN v10.lists[l]
                                                  ELSE v5.lists[l]]
               active == Transfer!FilledActive(v5, v10)
    <3>1. v5' = [v5 EXCEPT !.lists = lists, !.active = active]
      BY <2>1 DEF Transfer!Restore, Transfer!FilledFrom
    <3>2. lists \in Entries
      BY <1>1 DEF Documents, SavedOnes, Entries
    <3>3. active \in ActiveIds
      BY <1>1 DEF Documents, SavedOnes, Transfer!FilledActive
    <3> HIDE DEF lists, active
    <3> QED  BY <1>1, <3>1, <3>2, <3>3 DEF Documents
  <2>2. CASE Transfer!Emptied
    <3> DEFINE lists == [[v5.lists EXCEPT !["cameras"] = {}] EXCEPT !["scenarios"] = {}]
    <3>1. v5' = [v5 EXCEPT !.lists = lists]
      BY <1>1, <2>2 DEF Transfer!Emptied, Documents
    <3>2. lists \in Entries
      BY <1>1 DEF Documents, Entries, Transfer!Lists
    <3> HIDE DEF lists
    <3> QED  BY <1>1, <3>1, <3>2 DEF Documents
  <2> QED  BY <2>1, <2>2
<1>4. CopyJobFits(v8', v5')
  BY <1>1, <1>2, JobTouched
<1> QED  BY <1>2, <1>3, <1>4, TransferMoves DEF TransferInv

LEMMA FillHolds ==
  ASSUME TransferInv
  PROVE  Transfer!FillStep
<1> SUFFICES ASSUME Transfer!Restore
             PROVE  /\ \A l \in Transfer!Lists : v5.lists[l] # {} => v5'.lists[l] = v5.lists[l]
                    /\ v5'.active # v5.active => v5'.active \in v5'.lists["promptSets"]
  BY DEF Transfer!FillStep
<1> DEFINE lists == [l \in Transfer!Lists |-> IF l \in Transfer!Fillable(v5, v10) THEN v10.lists[l]
                                              ELSE v5.lists[l]]
           active == Transfer!FilledActive(v5, v10)
<1>1. v5 \in Documents
  BY DEF TransferInv
<1>2. v5' = [v5 EXCEPT !.lists = lists, !.active = active]
  BY DEF Transfer!Restore, Transfer!FilledFrom
<1>3. v5'.lists = lists /\ v5'.active = active
  BY <1>1, <1>2 DEF Documents
<1>4. \A l \in Transfer!Lists : v5.lists[l] # {} => lists[l] = v5.lists[l]
  BY DEF Transfer!Fillable
<1>5. active # v5.active => active \in lists["promptSets"]
  BY DEF Transfer!FilledActive, Transfer!Lists
<1> QED  BY <1>3, <1>4, <1>5

(* Every step keeps the invariant, and a restore takes nothing.            *)
LEMMA TransferStep ==
  ASSUME TransferInv, [Transfer!Next]_(Transfer!vars)
  PROVE  TransferInv' /\ Transfer!FillStep
<1>1. CASE UNCHANGED Transfer!vars
  <2>1. UNCHANGED <<v1, v2, v3, v4, v5, v6, v7, v8, v9, v10, v11, v12, v13>>
    BY <1>1 DEF Transfer!vars
  <2> QED  BY <2>1, FillHolds DEF TransferInv
<1>2. CASE Transfer!Next
  <2>1. CASE Transfer!Restart \/ Transfer!About
             \/ \E s \in {"", "file", "firestore", "bad"} : Transfer!SetStore(s)
    BY <2>1, FillHolds, SettingSteps
  <2>2. CASE \E n \in TransferGiven.Names : \/ Transfer!Activate(n)
                                            \/ \E l \in Transfer!Lists : Transfer!Edit(l, n)
    BY <2>2, FillHolds, EditSteps
  <2>3. CASE \E want \in SUBSET TransferGiven.Names : Transfer!Save(want)
    BY <2>3, FillHolds, SaveStoreStep
  <2>4. CASE \E w \in v7 : Transfer!ReadsExisting(w) \/ Transfer!WritesOne(w) \/ Transfer!Answered(w)
    BY <2>4, FillHolds, WriterSteps
  <2>5. CASE \E b \in BOOLEAN : Transfer!Migrate(b) \/ Transfer!Look(b)
    BY <2>5, FillHolds, MigrateStep, LookStep
  <2>6. CASE Transfer!WritesPart \/ Transfer!Verifies \/ Transfer!MigrateEnds
    BY <2>6, FillHolds, WritesPartStep, VerifiesStep, MigrateEndsStep
  <2>7. CASE Transfer!Export \/ Transfer!ReadsActive \/ Transfer!Exported
             \/ \E l \in Transfer!Lists : Transfer!ReadsList(l) \/ Transfer!ReadFails(l)
    BY <2>7, FillHolds, ExportSteps
  <2>8. CASE Transfer!Restore \/ Transfer!Emptied
    BY <2>8, FillHolds, FillSteps
  <2> QED
    BY <1>2, <2>1, <2>2, <2>3, <2>4, <2>5, <2>6, <2>7, <2>8, FillHolds DEF Transfer!Next
<1> QED  BY <1>1, <1>2
================================================================================

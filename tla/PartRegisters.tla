-------------------------------- MODULE PartRegisters --------------------------
(***************************************************************************)
(* What the services and pages, composed, share: a behaviour is one of one *)
(* part, "part" says of which, and v1, v2, ... hold the part's variables.  *)
(***************************************************************************)

EXTENDS Sequences

VARIABLES part, v1, v2, v3, v4, v5, v6, v7, v8, v9, v10, v11, v12, v13

registers == <<v1, v2, v3, v4, v5, v6, v7, v8, v9, v10, v11, v12, v13>>

Own(p) == part = p

(* A sequence, whatever stands in it.                                     *)
IsList(l) == l \in Seq({l[i] : i \in DOMAIN l})

(* The variables a part has no use for.                                    *)
From13 == v13 = "unused"
From12 == v12 = "unused" /\ From13
From11 == v11 = "unused" /\ From12
From10 == v10 = "unused" /\ From11
From9 == v9 = "unused" /\ From10
From8 == v8 = "unused" /\ From9
From7 == v7 = "unused" /\ From8
From6 == v6 = "unused" /\ From7
From5 == v5 = "unused" /\ From6
From4 == v4 = "unused" /\ From5
From3 == v3 = "unused" /\ From4
From2 == v2 = "unused" /\ From3
From1 == v1 = "unused" /\ From2

Keeps3 == UNCHANGED <<v3, v4, v5, v6, v7, v8, v9, v10, v11, v12, v13>>
Keeps4 == UNCHANGED <<v4, v5, v6, v7, v8, v9, v10, v11, v12, v13>>
Keeps5 == UNCHANGED <<v5, v6, v7, v8, v9, v10, v11, v12, v13>>
Keeps6 == UNCHANGED <<v6, v7, v8, v9, v10, v11, v12, v13>>
Keeps7 == UNCHANGED <<v7, v8, v9, v10, v11, v12, v13>>
Keeps8 == UNCHANGED <<v8, v9, v10, v11, v12, v13>>
Keeps9 == UNCHANGED <<v9, v10, v11, v12, v13>>
================================================================================

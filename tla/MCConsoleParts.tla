----------------------------- MODULE MCConsoleParts ----------------------------
(* Two writers that ask for the mode, four ffmpeg jobs for two places, one   *)
(* reconcile loop beside one request for the scenarios, and two requests     *)
(* that start and stop footage runs beside one live camera; two sensors, one *)
(* of which never records.                                                   *)
EXTENDS ConsoleParts

CONSTANTS w1, w2, j1, j2, j3, j4, rulesA, rulesB, r1, l1, c1, run1, run2

MCWriters   == {w1, w2}
MCJobs      == {j1, j2, j3, j4}
MCRules     == {rulesA, rulesB}
MCCooldowns == {0, 1}
MCRequests  == {r1}
MCLoops     == {l1}
MCCams      == {c1}
MCRuns      == {run1, run2}
MCRecovery  == [Sensors |-> {"s1", "s2"}, Dead |-> {"s1"}, Threshold |-> 1, Cooldown |-> 1,
                MaxAttempts |-> 2, MaxPerCycle |-> 1, MinStalled |-> 1, EscCooldown |-> 1,
                MaxRestarts |-> 1, MaxFaults |-> 1]
================================================================================

----------------------------- MODULE MCServiceParts -----------------------------
(* Small instances of the services and pages, one record for each.           *)
EXTENDS ServiceParts, Sequences, TLC

CONSTANTS s1, s2, Unanswered, NoNews, Null

MCSensors == {s1, s2}
MCDead    == {s1}

MCStreams == [Conns |-> {"c1", "c2"}, MaxConsumers |-> 1]

(* Two severe incidents share a key; one is severe by its anomaly flag.      *)
I(n, key, category, anomaly) == [id |-> n, key |-> key, category |-> category, anomaly |-> anomaly]
MCFeed == [Incidents |-> {I(1, "k", "theft", FALSE), I(2, "k", "unlisted", TRUE),
                          I(3, "l", "restock", TRUE)},
           Window |-> 2, MaxAttempts |-> 1, MaxBanners |-> 1, MaxVisits |-> 2,
           NoAnswer |-> Unanswered, NoIncident |-> NoNews]

Pod(ph, ready) == [phase |-> ph, ready |-> ready]
PodKinds == {Pod("Running", TRUE), Pod("Running", FALSE), Pod("Failed", FALSE), Pod("Unknown", FALSE)}
MCPipeline == [PodLists |-> UNION {[1 .. n -> PodKinds] : n \in 0 .. 3}, MaxOdd |-> 2,
               MaxMoves |-> 2, MaxTime |-> 2, NoFigure |-> Null]

S(name, st) == [name |-> name, state |-> st]
MCGraph == [SensorLists |-> {<<>>, <<S("a", "offline"), S("b", "online")>>,
                             <<S("b", "offline"), S("b", "offline"), S("a", "online"),
                               S("c", "online"), S("d", "online")>>},
            Added |-> {S("a", "online")}, MaxAttempts |-> 1, MaxTurns |-> 1]

(* Sensor a was removed and registered again: two sensors have its name.     *)
V(name, st, timeline) == [name |-> name, state |-> st, timeline |-> timeline]
MCFootage == [Clips |-> {[sensor |-> "a", ts |-> 0, end |-> 0], [sensor |-> "b", ts |-> 10, end |-> 100]},
              VstLists |-> {<<V("a", "offline", TRUE), V("b", "online", FALSE), V("a", "online", TRUE)>>},
              Jobs |-> {"j1", "j2"}, Ttl |-> 1, MaxBytes |-> 3, MaxMishaps |-> 1, MaxRequests |-> 2]

M(form, path) == [form |-> form, path |-> path]
Seg(a, b) == [start |-> a, stop |-> b]
Segs == {<<>>, <<Seg(8, 11)>>, <<Seg(0, 1), Seg(6, 9)>>}
Clip == <<"vst", "storage", "mp4">>
MCMedia == [Statuses |-> {"pending", "none", "ready", "failed"},
            Sources |-> {M("path", Clip), M("path", <<"api", "media">> \o Clip),
                         M("own", <<"api", "media">> \o Clip), M("own", <<"vst", "storage", "png">>),
                         M("foreign", Clip), M("no scheme", Clip), M("path", <<"vst", "..", "mp4">>),
                         M("path", <<"vst", "storage", "txt">>)},
            Timelines |-> {[s1 |-> a, s2 |-> b] : a, b \in Segs},
            ProbedAt |-> 12, MaxRetries |-> 3, Ttl |-> 1]

P(ns, name, ph, gpus, ready) ==
  [ns |-> ns, name |-> name, phase |-> ph, gpus |-> gpus, ready |-> ready, restarts |-> 0]
N(gpu, mig, strategy, replicas, count) ==
  [gpu |-> gpu, mig |-> mig, strategy |-> strategy, replicas |-> replicas, count |-> count]
D(gpu, pod, used, free, util) == [gpu |-> gpu, pod |-> pod, used |-> used, free |-> free, util |-> util]
MCGpu == [Namespaces |-> <<"vss", "sim">>,
          PodSets |-> {{P("vss", "vlm", "Running", 1, TRUE), P("sim", "vlm", "Pending", 1, FALSE)},
                       {P("vss", "vlm", "Running", 2, FALSE), P("sim", "web", "Running", 0, TRUE),
                        P("sim", "x", "Running", 1, TRUE)}},
          NodeLists |-> {<<>>, <<N(2, FALSE, "none", 0, 2)>>,
                         <<N(4, FALSE, "mps", 2, 2), N(0, TRUE, "none", 0, 1)>>,
                         <<N(2, FALSE, "none", 0, 1), N(1, FALSE, "none", 0, 1)>>},
          Series |-> {<<>>, <<D(0, "none", 7, 90, 0), D(1, "vlm", 70, 0, 92)>>,
                      <<D(0, "vlm", 0, 0, 5), D(0, "x", 4, 0, 5)>>},
          Ttl |-> 2, MaxTurns |-> 1, Unknown |-> Null]

MCStorage == [Buckets |-> {"r", "e"}, Recordings |-> "r", Keys |-> {1, 2},
              Contents |-> {[b \in {"r", "e"} |-> IF b = "r" THEN {1} ELSE {}]},
              PageLimit |-> 1, FreshFor |-> 1, Backoff |-> 1, MaxChanges |-> 2]

R(reclaimable, relocate, retry, paused, bytes, passes) ==
  [reclaimable |-> reclaimable, relocate |-> relocate, retry |-> retry, paused |-> paused,
   bytes |-> bytes, passes |-> passes]
H(day, hour) == [day |-> day, hour |-> hour]
C(id, removed, hours, there) == [id |-> id, removed |-> removed, hours |-> hours, there |-> there]
MCGuards == [Readings |-> {R(0, 0, 0, 0, 1, 1), R(1, 0, 1, 0, 0, 0)},
             SensorSets |-> {{}, {C(1, FALSE, {H(1, 9), H(1, 10), H(1, 8)}, TRUE)},
                             {C(1, TRUE, {H(2, 1)}, TRUE), C(2, FALSE, {H(1, 23), H(2, 0)}, TRUE)},
                             {C(1, FALSE, {H(1, 9)}, FALSE), C(2, FALSE, {}, TRUE)}},
             PreflightTtl |-> 1, RulesTtl |-> 2, RingSize |-> 2, MaxChanges |-> 2]

Two == {"u1", "u2"}
MCTuning  == [Users |-> Two, Rules |-> {"r1", "r2"}, MaxTurns |-> 3]
MCChat    == [MaxTurns |-> 2, MaxClears |-> 1]
MCAgent   == [Users |-> Two, MaxTurns |-> 3]
MCSecrets == [Users |-> Two, MaxTurns |-> 3]

K(ns, name, ph, ready) == [ns |-> ns, name |-> name, phase |-> ph, ready |-> ready]
L(name, status) == [name |-> name, status |-> status]
W(pods, depth, temps, sensors, rules, totals) ==
  [pods |-> pods, depth |-> depth, temps |-> temps, sensors |-> sensors, rules |-> rules, totals |-> totals]
MCHome == [Worlds |->
             {W({K("vss", "vlm", "Running", TRUE), K("vss", "job", "Succeeded", FALSE),
                 K("sim", "a", "Running", TRUE)}, 5, {60},
                <<L("a", "removed"), L("a", "online"), L("b", "online")>>, {"a", "x"}, "complete"),
              W({K("vss", "vlm", "Running", FALSE), K("sim", "a", "Failed", FALSE)}, 0, {60, 90},
                <<L("a", "offline"), L("b", "online"), L("b", "offline")>>, {"b"}, "truncated")},
           MaxMoves |-> 1, MaxFaults |-> 1, MaxReveals |-> 1]

Q(source, sensor, stream, recording, rules, bound, store) ==
  [source |-> source, sensor |-> sensor, stream |-> stream, recording |-> recording,
   rules |-> rules, bound |-> bound, store |-> store]
MCDoctor == [Chains |->
               {Q(TRUE, TRUE, TRUE, "recording", <<"served">>, TRUE, TRUE),
                Q(TRUE, TRUE, TRUE, "not-recording", <<"served", "old">>, TRUE, TRUE),
                Q(TRUE, TRUE, TRUE, "recording", <<"served", "old">>, TRUE, TRUE),
                Q(TRUE, FALSE, FALSE, "not-recording", <<"served", "served">>, FALSE, TRUE),
                Q(FALSE, TRUE, FALSE, "not-recording", <<>>, TRUE, TRUE),
                Q(TRUE, TRUE, TRUE, "recording", <<"served">>, FALSE, TRUE),
                Q(TRUE, TRUE, TRUE, "not-recording", <<"served">>, TRUE, FALSE)},
             Tests |-> {"t1", "t2"}, LongBudget |-> 2, MaxMoves |-> 2, MaxFaults |-> 1]

MCVault == [Incidents |-> {"a", "b"},
            Locks |-> [i \in {"a", "b"} |-> IF i = "a" THEN [on |-> TRUE, days |-> 1, mode |-> "GOVERNANCE"]
                                            ELSE [on |-> FALSE, days |-> 2, mode |-> ""]],
            Spoken |-> {"a"}, NoIncident |-> "nobody", MaxDays |-> 1, MaxTurns |-> 4, MaxFaults |-> 1]
MCTransfer == [Names |-> {"a", "b"}, Projects |-> BOOLEAN, MaxTurns |-> 3, MaxFaults |-> 1]

(* Two pods of one Deployment, one of the same name in another namespace, and *)
(* one of a StatefulSet.                                                     *)
B(ns, pod, base) == [ns |-> ns, pod |-> pod, base |-> base, name |-> "main"]
MCReports == [Containers |-> {B("vss", "vlm-7f9x2", "vlm"), B("vss", "vlm-4kq8d", "vlm"),
                              B("sim", "vlm-9c1zt", "vlm"), B("sim", "kafka-0", "kafka-0")},
              Namespaces |-> <<"vss", "sim">>, Errors |-> {"timeout"}, Window |-> 4, Interval |-> 3,
              MaxRestarts |-> 2, MaxEvents |-> 2]

(* A deleted registration of a is listed before the one that took its place. *)
Vs(name, url) == [name |-> name, url |-> url]
Kept(id, url, extra) == [id |-> id, url |-> url, extra |-> extra]
MCCopies == [Users |-> Two, SensorLists |-> {<<Vs("a", 1)>>, <<Vs("a", 1), Vs("b", 1), Vs("a", 2)>>},
             Copies |-> {<<>>, <<Kept("a", 1, 1), Kept("b", 1, 2)>>}, MaxFaults |-> 1, MaxTurns |-> 3]

MCRace == [Races |-> {1, 2}, Pause |-> 2, Offload |-> 1, MaxFaults |-> 1]
================================================================================

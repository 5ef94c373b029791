------------------------- MODULE RedisAccessProofs -------------------------
(* Two things about the store that all servers share, Redis.  That Syncing   *)
(* keeps its safety properties when it is lost and found, for every set of   *)
(* devices and every bound: the invariant is SyncInv, in four parts, each    *)
(* kept with the help of the ones before: the shapes of the state (they      *)
(* bound nothing by the constants but the generations), LineSafe, ForceSafe  *)
(* and StopSafe.  And, in the second half, the lock of a table, for any      *)
(* number of calls, any lease and any deadline.  What makes that argument    *)
(* work is that the token is compared before the key is deleted (a punctual  *)
(* call keeps its key until it releases it) and that a call reads after it   *)
(* has the key: whatever is written behind its back was written by a call    *)
(* that is late.                                                             *)
EXTENDS Syncing, SnapshotLock, TLAPS

\* The shapes of the records.
TourShape   == [status : {"ONGOING", "SYNCING"}, pausedAt : Nat]
OutageShape == [phase : {"up", "down", "recovering"}, generation : Nat, downSince : Nat]
LineShape   == [lastDealerSeenAt : Nat, forcedAt : Nat, down : BOOLEAN, grace : BOOLEAN]
TaskShape   == [kind : Jobs \union {"none"},
                pc : {"idle", "load", "release", "mark", "down", "stop"},
                gen : Nat, pausedAt : Nat, until : Nat, rest : SUBSET Tables]
SweepShape  == [pc : {"idle", "mark", "find", "stop", "end"}, since : Nat, rest : SUBSET Tables]
FaultShape  == [count : Nat, kinds : SUBSET FaultKinds]

Shapes ==
  /\ now \in Nat \ {0}
  /\ tour \in TourShape
  /\ outage \in OutageShape
  /\ line \in LineShape
  /\ task \in TaskShape
  /\ sweeps \in [1 .. MaxLosses -> SweepShape]
  /\ faults \in FaultShape
  /\ aliveAt \in [Tables -> Nat]
  /\ forcedTill \in Nat
  /\ marks \subseteq Nat \ {0}

\* A fault or a remembered timing adds to what is remembered, and takes nothing.
LEMMA FaultKept ==
  ASSUME Shapes, NEW k \in SUBSET FaultKinds, Fault(k) \/ Remember(k) \/ UNCHANGED faults
  PROVE  faults' \in FaultShape /\ faults.kinds \subseteq faults'.kinds
  BY DEF Shapes, Fault, Remember, FaultShape

\* The conditional UPDATE of markTournamentSyncing leaves the tournament SYNCING,
\* with the pausedAt it had if it already was, else with the one given.
LEMMA MarkKept ==
  ASSUME Shapes, NEW at \in Nat, MarkSyncing(at)
  PROVE  tour' \in TourShape /\ Syncing' /\ (Syncing => UNCHANGED tour)
         /\ (Ongoing => tour'.pausedAt = at)
  BY DEF Shapes, MarkSyncing, TourShape, Syncing, Ongoing

\* The kinds that the actions remember are kinds of faults.
LEMMA KindsKnown ==
  /\ {{}, {"late"}, {"sweep"}, {"hidden"}} \subseteq SUBSET FaultKinds
  /\ \A c \in BOOLEAN : When(c, {"race"}) \in SUBSET FaultKinds
  BY DEF FaultKinds, When

\* A write of SYNCING for an outage does the same, and is remembered as late when
\* it stops a tournament that runs for an outage that is over.
LEMMA MarkOutageKept ==
  ASSUME Shapes, NEW at \in Nat, MarkOutage(at)
  PROVE  faults' \in FaultShape /\ faults.kinds \subseteq faults'.kinds
         /\ tour' \in TourShape /\ Syncing' /\ (Syncing => UNCHANGED tour)
         /\ (Ongoing => tour'.pausedAt = at /\ (at = outage.downSince \/ "late" \in faults'.kinds))
<1>1. MarkSyncing(at) /\ (Fault({"late"}) \/ UNCHANGED faults)
  BY DEF MarkOutage
<1>2. Ongoing /\ at # outage.downSince => "late" \in faults'.kinds
  BY DEF MarkOutage, Fault, Shapes, FaultShape
<1> QED BY <1>1, <1>2, MarkKept, FaultKept, KindsKnown

\* A job that begins has the shape of a task.
LEMMA BeginShaped ==
  ASSUME Shapes, NEW job \in Jobs, NEW stage \in {"load", "mark"}
  PROVE  Begin(job, stage) \in TaskShape
  BY DEF Shapes, Begin, Idle, Never, Jobs, TaskShape, OutageShape

\* Every step of the server, the devices and Redis keeps the shapes.
LEMMA Typed == Shapes /\ [Next]_vars => Shapes'
<1> SUFFICES ASSUME Shapes, [Next]_vars PROVE Shapes'
  OBVIOUS
<1> USE DEF store, turns, server, people, jobs, Never
<1>1. ASSUME Tick PROVE Shapes'
  <2>1. now' \in Nat \ {0}
      BY <1>1 DEF Shapes, Tick
  <2>2. UNCHANGED <<tour, outage, line, task, sweeps, faults, aliveAt, forcedTill, marks>>
      BY <1>1 DEF Tick
  <2> QED BY <2>1, <2>2 DEF Shapes
<1>2. ASSUME NEW job \in {"recount", "force"}, Measure(job) PROVE Shapes'
  <2>1. task' \in TaskShape
    <3>1. Begin(job, "load") \in TaskShape BY BeginShaped DEF Jobs
    <3> QED BY <1>2, <3>1 DEF Measure, Idle, TaskShape
  <2>2. UNCHANGED <<now, tour, outage, line, sweeps, faults, aliveAt, forcedTill, marks>>
      BY <1>2 DEF Measure
  <2> QED BY <2>1, <2>2 DEF Shapes
<1>3. ASSUME Load PROVE Shapes'
  <2>1. task' \in TaskShape
      BY <1>3 DEF Shapes, Load, Idle, TaskShape, TourShape
  <2>2. UNCHANGED <<now, tour, outage, line, sweeps, faults, aliveAt, forcedTill, marks>>
      BY <1>3 DEF Load
  <2> QED BY <2>1, <2>2 DEF Shapes
<1>4. ASSUME Release PROVE Shapes'
  <2>1. tour' \in TourShape
      BY <1>4 DEF Shapes, Release, TourShape
  <2>2. line' \in LineShape
      BY <1>4 DEF Shapes, Release, LineShape
  <2>3. task' \in TaskShape
      BY <1>4 DEF Shapes, Release, Stop, Idle, TaskShape
  <2>4. faults' \in FaultShape
      BY FaultKept, KindsKnown, <1>4 DEF Shapes, Release
  <2>5. forcedTill' \in Nat
      BY <1>4 DEF Shapes, Release, TaskShape
  <2>6. UNCHANGED <<now, outage, sweeps, aliveAt, marks>>
      BY <1>4 DEF Release
  <2> QED BY <2>1, <2>2, <2>3, <2>4, <2>5, <2>6 DEF Shapes
<1>5. ASSUME StartPause PROVE Shapes'
  <2>1. task' \in TaskShape
    <3> DEFINE seenAt == IF line.lastDealerSeenAt = Never THEN now ELSE line.lastDealerSeenAt
    <3>1. seenAt \in Nat BY DEF Shapes, LineShape
    <3>2. Begin("pause", "mark") \in TaskShape BY BeginShaped DEF Jobs
    <3>3. task' \in {[Begin("pause", "mark") EXCEPT !.pausedAt = seenAt], Idle}
      BY <1>5 DEF StartPause
    <3> HIDE DEF seenAt
    <3> QED BY <3>1, <3>2, <3>3 DEF Idle, TaskShape
  <2>2. UNCHANGED <<now, tour, outage, line, sweeps, faults, aliveAt, forcedTill, marks>>
      BY <1>5 DEF StartPause
  <2> QED BY <2>1, <2>2 DEF Shapes
<1>6. ASSUME PauseMark PROVE Shapes'
  <2>1. tour' \in TourShape
    <3>1. task.pausedAt \in Nat BY DEF Shapes, TaskShape
    <3> QED BY <1>6, <3>1, MarkKept DEF PauseMark
  <2>2. task' \in TaskShape
      BY <1>6 DEF Shapes, PauseMark, Then, Stop, Idle, TaskShape
  <2>3. UNCHANGED <<now, outage, line, sweeps, faults, aliveAt, forcedTill, marks>>
      BY <1>6 DEF PauseMark
  <2> QED BY <2>1, <2>2, <2>3 DEF Shapes
<1>7. ASSUME PauseDown PROVE Shapes'
  <2>1. line' \in LineShape
      BY <1>7 DEF Shapes, PauseDown, LineShape
  <2>2. task' \in TaskShape
      BY <1>7 DEF Shapes, PauseDown, TaskShape
  <2>3. UNCHANGED <<now, tour, outage, sweeps, faults, aliveAt, forcedTill, marks>>
      BY <1>7 DEF PauseDown
  <2> QED BY <2>1, <2>2, <2>3 DEF Shapes
<1>8. ASSUME NEW t \in Tables, PauseStop(t) PROVE Shapes'
  <2>1. task' \in TaskShape
      BY <1>8 DEF Shapes, PauseStop, Idle, TaskShape
  <2>2. UNCHANGED <<now, tour, outage, line, sweeps, faults, aliveAt, forcedTill, marks>>
      BY <1>8 DEF PauseStop
  <2> QED BY <2>1, <2>2 DEF Shapes
<1>9. ASSUME NEW t \in Tables, NotLetIn(t) PROVE Shapes'
  <2>1. faults' \in FaultShape
      BY FaultKept, KindsKnown, <1>9 DEF Shapes, NotLetIn
  <2>2. UNCHANGED <<now, tour, outage, line, task, sweeps, aliveAt, forcedTill, marks>>
      BY <1>9 DEF NotLetIn
  <2> QED BY <2>1, <2>2 DEF Shapes
<1>10. ASSUME NEW d \in Devices, Leave(d) PROVE Shapes'
  <2>1. line' \in LineShape
      BY <1>10 DEF Shapes, Leave, LineShape
  <2>2. UNCHANGED <<now, tour, outage, task, sweeps, faults, aliveAt, forcedTill, marks>>
      BY <1>10 DEF Leave
  <2> QED BY <2>1, <2>2 DEF Shapes
<1>11. ASSUME GraceOver PROVE Shapes'
  <2>1. line' \in LineShape
      BY <1>11 DEF Shapes, GraceOver, LineShape
  <2>2. UNCHANGED <<now, tour, outage, task, sweeps, faults, aliveAt, forcedTill, marks>>
      BY <1>11 DEF GraceOver
  <2> QED BY <2>1, <2>2 DEF Shapes
<1>12. ASSUME NEW d \in Devices, GoSilent(d) PROVE Shapes'
  <2>1. aliveAt' \in [Tables -> Nat]
      BY <1>12 DEF Shapes, GoSilent
  <2>2. UNCHANGED <<now, tour, outage, line, task, sweeps, faults, forcedTill, marks>>
      BY <1>12 DEF GoSilent
  <2> QED BY <2>1, <2>2 DEF Shapes
<1>13. ASSUME NEW D \in SUBSET Devices, SweepSockets(D) PROVE Shapes'
  <2>1. line' \in LineShape
      BY <1>13 DEF Shapes, SweepSockets, LineShape
  <2>2. aliveAt' \in [Tables -> Nat]
      BY <1>13 DEF Shapes, SweepSockets
  <2>3. UNCHANGED <<now, tour, outage, task, sweeps, faults, forcedTill, marks>>
      BY <1>13 DEF SweepSockets
  <2> QED BY <2>1, <2>2, <2>3 DEF Shapes
<1>14. ASSUME Revoke PROVE Shapes'
  <2>1. line' \in LineShape
      BY <1>14 DEF Shapes, Revoke, LineShape
  <2>2. aliveAt' \in [Tables -> Nat]
      BY <1>14 DEF Shapes, Revoke
  <2>3. UNCHANGED <<now, tour, outage, task, sweeps, faults, forcedTill, marks>>
      BY <1>14 DEF Revoke
  <2> QED BY <2>1, <2>2, <2>3 DEF Shapes
<1>15. ASSUME LoseRedis PROVE Shapes'
  <2>1. outage' \in OutageShape
      BY <1>15 DEF Shapes, LoseRedis, OutageShape
  <2>2. line' \in LineShape
      BY <1>15 DEF Shapes, LoseRedis, LineShape
  <2>3. marks' \subseteq Nat \ {0}
      BY <1>15 DEF Shapes, LoseRedis, OutageShape
  <2>4. UNCHANGED <<now, tour, task, sweeps, faults, aliveAt, forcedTill>>
      BY <1>15 DEF LoseRedis
  <2> QED BY <2>1, <2>2, <2>3, <2>4 DEF Shapes
<1>16. ASSUME NEW since \in marks, MarkDown(since) PROVE Shapes'
  <2>1. tour' \in TourShape
      BY MarkOutageKept, <1>16 DEF Shapes, MarkDown
  <2>2. faults' \in FaultShape
      BY MarkOutageKept, <1>16 DEF Shapes, MarkDown
  <2>3. marks' \subseteq Nat \ {0}
      BY <1>16 DEF Shapes, MarkDown
  <2>4. UNCHANGED <<now, outage, line, task, sweeps, aliveAt, forcedTill>>
      BY <1>16 DEF MarkDown
  <2> QED BY <2>1, <2>2, <2>3, <2>4 DEF Shapes
<1>17. ASSUME NEW since \in marks, MarkFails(since) PROVE Shapes'
  <2>1. faults' \in FaultShape
      BY FaultKept, KindsKnown, <1>17 DEF Shapes, MarkFails
  <2>2. marks' \subseteq Nat \ {0}
      BY <1>17 DEF Shapes, MarkFails
  <2>3. UNCHANGED <<now, tour, outage, line, task, sweeps, aliveAt, forcedTill>>
      BY <1>17 DEF MarkFails
  <2> QED BY <2>1, <2>2, <2>3 DEF Shapes
<1>18. ASSUME RedisReady PROVE Shapes'
  <2>1. outage' \in OutageShape
      BY <1>18 DEF Shapes, RedisReady, OutageShape
  <2>2. sweeps' \in [1 .. MaxLosses -> SweepShape]
    <3> DEFINE begun == [NoSweep EXCEPT !.pc = "mark", !.since = outage.downSince]
    <3>1. begun \in SweepShape BY DEF Shapes, OutageShape, SweepShape, NoSweep
    <3>2. sweeps' = [sweeps EXCEPT ![outage.generation] = begun] BY <1>18 DEF RedisReady
    <3> HIDE DEF begun
    <3> QED BY <3>1, <3>2 DEF Shapes
  <2>3. faults' \in FaultShape
      BY FaultKept, KindsKnown, <1>18 DEF Shapes, RedisReady
  <2>4. UNCHANGED <<now, tour, line, task, aliveAt, forcedTill, marks>>
      BY <1>18 DEF RedisReady
  <2> QED BY <2>1, <2>2, <2>3, <2>4 DEF Shapes
<1>19. ASSUME NEW g \in 1 .. MaxLosses, SweepMark(g) PROVE Shapes'
  <2>1. tour' \in TourShape
    <3>1. sweeps[g].since \in Nat BY DEF Shapes, SweepShape
    <3> QED BY <1>19, <3>1, MarkOutageKept DEF Shapes, SweepMark
  <2>2. sweeps' \in [1 .. MaxLosses -> SweepShape]
      BY <1>19 DEF Shapes, SweepMark, SweepShape
  <2>3. faults' \in FaultShape
    <3>1. sweeps[g].since \in Nat BY DEF Shapes, SweepShape
    <3> QED BY <1>19, <3>1, MarkOutageKept, FaultKept, KindsKnown DEF SweepMark
  <2>4. UNCHANGED <<now, outage, line, task, aliveAt, forcedTill, marks>>
      BY <1>19 DEF SweepMark
  <2> QED BY <2>1, <2>2, <2>3, <2>4 DEF Shapes
<1>20. ASSUME NEW g \in 1 .. MaxLosses, SweepFind(g) PROVE Shapes'
  <2>1. sweeps' \in [1 .. MaxLosses -> SweepShape]
    <3> DEFINE found == IF Syncing THEN [sweeps[g] EXCEPT !.pc = "stop", !.rest = Tables]
                                 ELSE [sweeps[g] EXCEPT !.pc = "end"]
    <3>1. found \in SweepShape BY DEF Shapes, SweepShape
    <3>2. sweeps' = [sweeps EXCEPT ![g] = found] BY <1>20 DEF SweepFind
    <3> HIDE DEF found
    <3> QED BY <3>1, <3>2 DEF Shapes
  <2>2. UNCHANGED <<now, tour, outage, line, task, faults, aliveAt, forcedTill, marks>>
      BY <1>20 DEF SweepFind
  <2> QED BY <2>1, <2>2 DEF Shapes
<1>21. ASSUME NEW g \in 1 .. MaxLosses, NEW t \in Tables, SweepStop(g, t) PROVE Shapes'
  <2>1. sweeps' \in [1 .. MaxLosses -> SweepShape]
      BY <1>21 DEF Shapes, SweepStop, SweepShape
  <2>2. UNCHANGED <<now, tour, outage, line, task, faults, aliveAt, forcedTill, marks>>
      BY <1>21 DEF SweepStop
  <2> QED BY <2>1, <2>2 DEF Shapes
<1>22. ASSUME NEW g \in 1 .. MaxLosses, SweepEnd(g) PROVE Shapes'
  <2>1. outage' \in OutageShape
    <3> DEFINE recovered == [outage EXCEPT !.phase = "up", !.downSince = Never]
    <3>1. recovered \in OutageShape BY DEF Shapes, OutageShape
    <3>2. outage' \in {recovered, outage} BY <1>22 DEF SweepEnd
    <3> HIDE DEF recovered
    <3> QED BY <3>1, <3>2 DEF Shapes
  <2>2. sweeps' \in [1 .. MaxLosses -> SweepShape]
      BY <1>22 DEF Shapes, SweepEnd, NoSweep, SweepShape
  <2>3. UNCHANGED <<now, tour, line, task, faults, aliveAt, forcedTill, marks>>
      BY <1>22 DEF SweepEnd
  <2> QED BY <2>1, <2>2, <2>3 DEF Shapes
<1>23. ASSUME NEW beat \in Times, Restart(beat) PROVE Shapes'
  <2>1. tour' \in TourShape
      BY MarkKept, <1>23 DEF Restart, Times
  <2>2. outage' \in OutageShape
      BY <1>23 DEF Shapes, Restart, OutageShape
  <2>3. line' \in LineShape
      BY <1>23 DEF Shapes, Restart, NoLine, LineShape
  <2>4. task' \in TaskShape
      BY <1>23 DEF Shapes, Restart, Idle, TaskShape
  <2>5. sweeps' \in [1 .. MaxLosses -> SweepShape]
      BY <1>23 DEF Shapes, Restart, NoSweep, SweepShape
  <2>6. aliveAt' \in [Tables -> Nat]
      BY <1>23 DEF Shapes, Restart
  <2>7. forcedTill' \in Nat
      BY <1>23 DEF Shapes, Restart
  <2>8. marks' \subseteq Nat \ {0}
      BY <1>23 DEF Shapes, Restart
  <2>9. UNCHANGED <<now, faults>>
      BY <1>23 DEF Restart
  <2> QED BY <2>1, <2>2, <2>3, <2>4, <2>5, <2>6, <2>7, <2>8, <2>9 DEF Shapes
<1>24. ASSUME ForceSync PROVE Shapes'
  BY <1>24 DEF Shapes, ForceSync
<1>25. ASSUME NEW d \in Devices, Connect(d) PROVE Shapes'
  BY <1>25 DEF Shapes, Connect
<1>26. ASSUME NEW t \in Tables, LetIn(t) PROVE Shapes'
  BY <1>26 DEF Shapes, LetIn
<1>27. ASSUME NEW t \in Tables, ResumeTable(t) PROVE Shapes'
  BY <1>27 DEF Shapes, ResumeTable
<1>28. ASSUME AfterOutage PROVE Shapes'
  BY <1>28 DEF Shapes, AfterOutage
<1>29. CASE UNCHANGED vars
  BY <1>29 DEF Shapes, vars
<1>30. CASE Job
  BY <1>30, <1>2, <1>3, <1>4, <1>5, <1>6, <1>7, <1>8 DEF Job
<1>31. CASE Recovery
  BY <1>31, <1>16, <1>17, <1>19, <1>20, <1>22, <1>21, <1>28 DEF Recovery
<1>32. CASE Sockets
  BY <1>32, <1>11, <1>26, <1>13 DEF Sockets
<1>33. CASE Move
  BY <1>33, <1>25, <1>27, <1>24, <1>10, <1>12, <1>9, <1>14 DEF Move
<1>34. CASE Outside
  BY <1>34, <1>1, <1>15, <1>18, <1>23 DEF Outside
<1> QED BY <1>29, <1>30, <1>31, <1>32, <1>33, <1>34 DEF Next

\* LineDownIsPaused, and the instant between the write of SYNCING and linePause.
LineSafe == LineDownIsPaused /\ (task.pc = "down" => Syncing)

\* No step leaves linePause on while the tournament runs: completeSync and
\* onRedisDown clear it, pauseForLineOutage sets it after the write of SYNCING.
LEMMA LineKept == Shapes /\ LineSafe /\ [Next]_vars => LineSafe'
<1> SUFFICES ASSUME Shapes, LineSafe, [Next]_vars PROVE LineSafe'
  OBVIOUS
<1> USE DEF store, turns, server, people, jobs, Never
<1>1. ASSUME Tick PROVE LineSafe'
  BY <1>1 DEF Shapes, LineShape, LineSafe, LineDownIsPaused, Syncing, Tick
<1>2. ASSUME NEW job \in {"recount", "force"}, Measure(job) PROVE LineSafe'
  BY <1>2 DEF LineSafe, LineDownIsPaused, Syncing, Measure, Begin, Idle
<1>3. ASSUME Load PROVE LineSafe'
  BY <1>3 DEF Shapes, TaskShape, LineSafe, LineDownIsPaused, Syncing, Load, Idle
<1>4. ASSUME Release PROVE LineSafe'
  BY <1>4 DEF Shapes, LineShape, LineSafe, LineDownIsPaused, Syncing, Release, Stop, Idle
<1>5. ASSUME StartPause PROVE LineSafe'
  BY <1>5 DEF LineSafe, LineDownIsPaused, Syncing, StartPause, Begin, Idle
<1>6. ASSUME PauseMark PROVE LineSafe'
  <2>1. task.pausedAt \in Nat BY DEF Shapes, TaskShape
  <2>2. Syncing' BY <1>6, <2>1, MarkKept DEF PauseMark
  <2> QED BY <2>2 DEF LineSafe, LineDownIsPaused
<1>7. ASSUME PauseDown PROVE LineSafe'
  BY <1>7 DEF Shapes, LineShape, TaskShape, LineSafe, LineDownIsPaused, Syncing, PauseDown, At
<1>8. ASSUME NEW t \in Tables, PauseStop(t) PROVE LineSafe'
  BY <1>8 DEF Shapes, TaskShape, LineSafe, LineDownIsPaused, Syncing, PauseStop, At, Idle
<1>9. ASSUME NEW t \in Tables, NotLetIn(t) PROVE LineSafe'
  BY <1>9 DEF Shapes, LineShape, LineSafe, LineDownIsPaused, Syncing, NotLetIn
<1>10. ASSUME NEW d \in Devices, Leave(d) PROVE LineSafe'
  BY <1>10 DEF Shapes, LineShape, LineSafe, LineDownIsPaused, Syncing, Leave
<1>11. ASSUME GraceOver PROVE LineSafe'
  BY <1>11 DEF Shapes, LineShape, LineSafe, LineDownIsPaused, Syncing, GraceOver
<1>12. ASSUME NEW d \in Devices, GoSilent(d) PROVE LineSafe'
  BY <1>12 DEF Shapes, LineShape, LineSafe, LineDownIsPaused, Syncing, GoSilent
<1>13. ASSUME NEW D \in SUBSET Devices, SweepSockets(D) PROVE LineSafe'
  BY <1>13 DEF Shapes, LineShape, LineSafe, LineDownIsPaused, Syncing, SweepSockets
<1>14. ASSUME Revoke PROVE LineSafe'
  BY <1>14 DEF Shapes, LineShape, LineSafe, LineDownIsPaused, Syncing, Revoke
<1>15. ASSUME LoseRedis PROVE LineSafe'
  BY <1>15 DEF Shapes, LineShape, LineSafe, LineDownIsPaused, Syncing, LoseRedis
<1>16. ASSUME NEW since \in marks, MarkDown(since) PROVE LineSafe'
  <2>1. Syncing' BY <1>16, MarkOutageKept DEF Shapes, MarkDown
  <2> QED BY <2>1 DEF LineSafe, LineDownIsPaused
<1>17. ASSUME NEW since \in marks, MarkFails(since) PROVE LineSafe'
  BY <1>17 DEF Shapes, LineShape, LineSafe, LineDownIsPaused, Syncing, MarkFails
<1>18. ASSUME RedisReady PROVE LineSafe'
  BY <1>18 DEF Shapes, LineShape, LineSafe, LineDownIsPaused, Syncing, RedisReady
<1>19. ASSUME NEW g \in 1 .. MaxLosses, SweepMark(g) PROVE LineSafe'
  <2>1. sweeps[g].since \in Nat BY DEF Shapes, SweepShape
  <2>2. (Syncing => Syncing') /\ UNCHANGED <<line, task>>
    BY <1>19, <2>1, MarkOutageKept DEF SweepMark, Syncing
  <2> QED BY <2>2 DEF LineSafe, LineDownIsPaused
<1>20. ASSUME NEW g \in 1 .. MaxLosses, SweepFind(g) PROVE LineSafe'
  BY <1>20 DEF Shapes, LineShape, LineSafe, LineDownIsPaused, Syncing, SweepFind
<1>21. ASSUME NEW g \in 1 .. MaxLosses, NEW t \in Tables, SweepStop(g, t) PROVE LineSafe'
  BY <1>21 DEF Shapes, LineShape, LineSafe, LineDownIsPaused, Syncing, SweepStop
<1>22. ASSUME NEW g \in 1 .. MaxLosses, SweepEnd(g) PROVE LineSafe'
  BY <1>22 DEF Shapes, LineShape, LineSafe, LineDownIsPaused, Syncing, SweepEnd
<1>23. ASSUME NEW beat \in Times, Restart(beat) PROVE LineSafe'
  BY <1>23 DEF LineSafe, LineDownIsPaused, Restart, NoLine, Idle
<1>24. ASSUME ForceSync PROVE LineSafe'
  BY <1>24 DEF Shapes, LineShape, LineSafe, LineDownIsPaused, Syncing, ForceSync
<1>25. ASSUME NEW d \in Devices, Connect(d) PROVE LineSafe'
  BY <1>25 DEF Shapes, LineShape, LineSafe, LineDownIsPaused, Syncing, Connect
<1>26. ASSUME NEW t \in Tables, LetIn(t) PROVE LineSafe'
  BY <1>26 DEF Shapes, LineShape, LineSafe, LineDownIsPaused, Syncing, LetIn
<1>27. ASSUME NEW t \in Tables, ResumeTable(t) PROVE LineSafe'
  BY <1>27 DEF Shapes, LineShape, LineSafe, LineDownIsPaused, Syncing, ResumeTable
<1>28. ASSUME AfterOutage PROVE LineSafe'
  BY <1>28 DEF Shapes, LineShape, LineSafe, LineDownIsPaused, Syncing, AfterOutage
<1>29. CASE UNCHANGED vars
  BY <1>29 DEF Shapes, LineShape, LineSafe, LineDownIsPaused, Syncing, vars
<1>30. CASE Job
  BY <1>30, <1>2, <1>3, <1>4, <1>5, <1>6, <1>7, <1>8 DEF Job
<1>31. CASE Recovery
  BY <1>31, <1>16, <1>17, <1>19, <1>20, <1>22, <1>21, <1>28 DEF Recovery
<1>32. CASE Sockets
  BY <1>32, <1>11, <1>26, <1>13 DEF Sockets
<1>33. CASE Move
  BY <1>33, <1>25, <1>27, <1>24, <1>10, <1>12, <1>9, <1>14 DEF Move
<1>34. CASE Outside
  BY <1>34, <1>1, <1>15, <1>18, <1>23 DEF Outside
<1> QED BY <1>29, <1>30, <1>31, <1>32, <1>33, <1>34 DEF Next

\* ForcedCountedOnce with what it rests on: the release is noted no earlier than
\* what it counted, a job's instants are past, a pause that is about to be written is
\* after the last force, and downSince is set exactly in an outage.
ForceSafe ==
  /\ forcedTill <= line.forcedAt /\ line.forcedAt <= now
  /\ task.until <= now
  /\ task.pc = "mark" => task.pausedAt > line.forcedAt
  /\ IsUp <=> outage.downSince = Never
  /\ task.gen <= outage.generation
  /\ task.pc \in {"load", "release"} /\ task.gen = outage.generation => IsUp
  /\ Without({"late", "race"}) /\ ~ IsUp => forcedTill <= outage.downSince
  /\ \A g \in 1 .. MaxLosses : sweeps[g].pc = "mark" => sweeps[g].since # Never
  /\ ForcedCountedOnce

\* What had not happened after a step had not happened before it.
LEMMA WithoutKept ==
  ASSUME faults.kinds \subseteq faults'.kinds, Without({"late", "race"})'
  PROVE  Without({"late", "race"})
  BY DEF Without

\* A step that leaves the clock, the tournament, the outage, the line, the job and
\* the sweeps alone keeps ForceSafe.
LEMMA ForceStill ==
  ASSUME ForceSafe, faults.kinds \subseteq faults'.kinds,
         UNCHANGED <<now, tour, outage, line, task, sweeps, forcedTill>>
  PROVE  ForceSafe'
  BY WithoutKept DEF ForceSafe, ForcedCountedOnce, IsUp, Syncing

\* A write of SYNCING for an outage counts from its downSince, which is not before
\* the last release by force, unless it is late or a release raced with the loss.
LEMMA ForceMarked ==
  ASSUME Shapes, ForceSafe, NEW at \in Nat \ {0}, MarkOutage(at),
         UNCHANGED <<now, outage, line, task, forcedTill>>,
         \A h \in 1 .. MaxLosses : sweeps'[h].pc = "mark" => sweeps'[h].since # Never
  PROVE  ForceSafe'
<1>1. faults.kinds \subseteq faults'.kinds BY MarkOutageKept
<1>2. ForcedCountedOnce'
  <2>1. CASE Syncing
    BY <1>1, <2>1, MarkOutageKept, WithoutKept DEF ForceSafe, ForcedCountedOnce
  <2>2. CASE Ongoing
    <3>1. tour'.pausedAt = at /\ (at = outage.downSince \/ ~ Without({"late", "race"})')
      BY <2>2, MarkOutageKept DEF Without
    <3>2. at = outage.downSince /\ Without({"late", "race"}) => forcedTill <= at
      BY DEF ForceSafe, Never
    <3> QED BY <1>1, <3>1, <3>2, WithoutKept DEF ForcedCountedOnce, Shapes
  <2> QED BY <2>1, <2>2 DEF Shapes, TourShape, Syncing, Ongoing
<1> QED BY <1>1, <1>2, WithoutKept DEF ForceSafe, IsUp

\* Every step keeps ForceSafe: pauseIfNoDealer starts a pause only after forcedAt, an
\* outage counts from its loss, and a release counts up to the present.
LEMMA ForceKept == Shapes /\ ForceSafe /\ [Next]_vars => ForceSafe'
<1> SUFFICES ASSUME Shapes, ForceSafe, [Next]_vars PROVE ForceSafe'
  OBVIOUS
<1> USE DEF store, turns, server, people, jobs, Never
<1>1. ASSUME Tick PROVE ForceSafe'
  BY <1>1 DEF Shapes, TourShape, OutageShape, LineShape, TaskShape, SweepShape, ForceSafe,
       ForcedCountedOnce, Without, IsUp, Syncing, Tick
<1>2. ASSUME NEW job \in {"recount", "force"}, Measure(job) PROVE ForceSafe'
  BY <1>2, Typed DEF Shapes, TourShape, OutageShape, LineShape, TaskShape, SweepShape, ForceSafe,
       ForcedCountedOnce, Without, IsUp, Syncing, Measure, Begin, Idle, Take
<1>3. ASSUME Load PROVE ForceSafe'
  BY <1>3 DEF Shapes, TourShape, OutageShape, LineShape, TaskShape, SweepShape, ForceSafe,
       ForcedCountedOnce, Without, IsUp, Syncing, Load, At, Idle
<1>4. ASSUME Release PROVE ForceSafe'
  <2> DEFINE same == tour = [status |-> "SYNCING", pausedAt |-> task.pausedAt]
  <2>1. CASE ~ same
    BY <1>4, <2>1 DEF Shapes, OutageShape, ForceSafe, ForcedCountedOnce, Without, IsUp, Syncing,
         Release, Stop, Idle
  <2>2. CASE same
    <3>1. UNCHANGED <<now, outage, sweeps>> /\ task' = Idle /\ task.pc = "release"
          /\ tour' = [status |-> "ONGOING", pausedAt |-> Never]
          /\ forcedTill' = (IF task.kind = "force" THEN task.until ELSE Never)
          /\ line' = [line EXCEPT !.down = FALSE,
                        !.forcedAt = IF task.kind = "force" THEN now ELSE @]
          /\ Remember(When(task.gen # outage.generation, {"race"}))
      BY <1>4, <2>2 DEF Release, Stop, At
    <3>2. line'.forcedAt = IF task.kind = "force" THEN now ELSE line.forcedAt
      BY <3>1 DEF Shapes, LineShape
    <3>3. forcedTill' <= line'.forcedAt /\ line'.forcedAt <= now'
      BY <3>1, <3>2 DEF Shapes, TaskShape, LineShape, ForceSafe
    <3>4. ~ Syncing' BY <3>1 DEF Syncing
    <3>5. task.gen # outage.generation => "race" \in faults'.kinds
      BY <3>1 DEF Shapes, FaultShape, Remember, When
    <3>6. Without({"late", "race"})' => IsUp
      BY <3>1, <3>5 DEF ForceSafe, Without
    <3> QED BY <3>1, <3>3, <3>4, <3>6 DEF Shapes, OutageShape, ForceSafe, ForcedCountedOnce,
         IsUp, Idle
  <2> QED BY <2>1, <2>2
<1>5. ASSUME StartPause PROVE ForceSafe'
  BY <1>5 DEF Shapes, TourShape, OutageShape, LineShape, TaskShape, SweepShape, ForceSafe,
       ForcedCountedOnce, Without, IsUp, Syncing, StartPause, Begin, Idle
<1>6. ASSUME PauseMark PROVE ForceSafe'
  <2>1. task.pausedAt \in Nat BY DEF Shapes, TaskShape
  <2>2. UNCHANGED <<now, outage, line, sweeps, faults, forcedTill>> BY <1>6 DEF PauseMark
  <2>3. /\ task'.pc \in {"down", "idle"}
        /\ task'.until = task.until \/ task'.until = 0
        /\ task'.gen = task.gen \/ task'.gen = 0
    BY <1>6 DEF Shapes, TaskShape, PauseMark, Then, Stop, Idle
  <2>4. ForcedCountedOnce'
    <3>1. CASE Syncing
      BY <1>6, <2>1, <2>2, <3>1, MarkKept DEF PauseMark, ForceSafe, ForcedCountedOnce, Without
    <3>2. CASE Ongoing
      <4>1. tour'.pausedAt = task.pausedAt BY <1>6, <2>1, <3>2, MarkKept DEF PauseMark
      <4>2. forcedTill <= line.forcedAt /\ line.forcedAt < task.pausedAt
        BY <1>6 DEF ForceSafe, PauseMark, At, Shapes, LineShape, TaskShape
      <4> QED BY <2>1, <2>2, <4>1, <4>2 DEF ForcedCountedOnce, Shapes, LineShape
    <3> QED BY <3>1, <3>2 DEF Shapes, TourShape, Syncing, Ongoing
  <2> QED BY <2>2, <2>3, <2>4 DEF Shapes, OutageShape, ForceSafe, IsUp, Without
<1>7. ASSUME PauseDown PROVE ForceSafe'
  BY <1>7 DEF Shapes, TourShape, OutageShape, LineShape, TaskShape, SweepShape, ForceSafe,
       ForcedCountedOnce, Without, IsUp, Syncing, PauseDown
<1>8. ASSUME NEW t \in Tables, PauseStop(t) PROVE ForceSafe'
  <2>1. UNCHANGED <<now, tour, outage, line, sweeps, faults, forcedTill>> BY <1>8 DEF PauseStop
  <2>2. task.pc = "stop" BY <1>8 DEF PauseStop, At
  <2>3. task' \in {Idle, [task EXCEPT !.rest = @ \ {t}]} BY <1>8 DEF PauseStop
  <2>4. /\ task'.pc \in {"stop", "idle"}
        /\ task'.until = task.until \/ task'.until = 0
        /\ task'.gen = task.gen \/ task'.gen = 0
    BY <2>2, <2>3 DEF Shapes, TaskShape, Idle
  <2> QED BY <2>1, <2>4 DEF Shapes, OutageShape, TaskShape, LineShape, ForceSafe,
       ForcedCountedOnce, IsUp, Syncing, Without
<1>9. ASSUME NEW t \in Tables, NotLetIn(t) PROVE ForceSafe'
  <2>1. faults.kinds \subseteq faults'.kinds
    BY <1>9, FaultKept, KindsKnown DEF NotLetIn
  <2>2. UNCHANGED <<now, tour, outage, line, task, sweeps, forcedTill>> BY <1>9 DEF NotLetIn
  <2> QED BY <2>1, <2>2, ForceStill
<1>10. ASSUME NEW d \in Devices, Leave(d) PROVE ForceSafe'
  BY <1>10 DEF Shapes, TourShape, OutageShape, LineShape, TaskShape, SweepShape, ForceSafe,
       ForcedCountedOnce, Without, IsUp, Syncing, Leave
<1>11. ASSUME GraceOver PROVE ForceSafe'
  BY <1>11 DEF Shapes, TourShape, OutageShape, LineShape, TaskShape, SweepShape, ForceSafe,
       ForcedCountedOnce, Without, IsUp, Syncing, GraceOver
<1>12. ASSUME NEW d \in Devices, GoSilent(d) PROVE ForceSafe'
  BY <1>12 DEF Shapes, TourShape, OutageShape, LineShape, TaskShape, SweepShape, ForceSafe,
       ForcedCountedOnce, Without, IsUp, Syncing, GoSilent
<1>13. ASSUME NEW D \in SUBSET Devices, SweepSockets(D) PROVE ForceSafe'
  BY <1>13 DEF Shapes, TourShape, OutageShape, LineShape, TaskShape, SweepShape, ForceSafe,
       ForcedCountedOnce, Without, IsUp, Syncing, SweepSockets
<1>14. ASSUME Revoke PROVE ForceSafe'
  BY <1>14 DEF Shapes, TourShape, OutageShape, LineShape, TaskShape, SweepShape, ForceSafe,
       ForcedCountedOnce, Without, IsUp, Syncing, Revoke
<1>15. ASSUME LoseRedis PROVE ForceSafe'
  BY <1>15 DEF Shapes, TourShape, OutageShape, LineShape, TaskShape, SweepShape, ForceSafe,
       ForcedCountedOnce, Without, IsUp, Syncing, LoseRedis
<1>16. ASSUME NEW since \in marks, MarkDown(since) PROVE ForceSafe'
  <2>1. since \in Nat \ {0} BY DEF Shapes
  <2>2. MarkOutage(since) /\ UNCHANGED <<now, outage, line, task, sweeps, forcedTill>>
    BY <1>16 DEF MarkDown
  <2>3. \A h \in 1 .. MaxLosses : sweeps'[h].pc = "mark" => sweeps'[h].since # Never
    BY <2>2 DEF ForceSafe
  <2> QED BY <2>1, <2>2, <2>3, ForceMarked
<1>17. ASSUME NEW since \in marks, MarkFails(since) PROVE ForceSafe'
  <2>1. faults.kinds \subseteq faults'.kinds
    BY <1>17, FaultKept, KindsKnown DEF MarkFails
  <2>2. UNCHANGED <<now, tour, outage, line, task, sweeps, forcedTill>> BY <1>17 DEF MarkFails
  <2> QED BY <2>1, <2>2, ForceStill
<1>18. ASSUME RedisReady PROVE ForceSafe'
  <2>1. faults.kinds \subseteq faults'.kinds BY <1>18, FaultKept, KindsKnown DEF RedisReady
  <2>2. outage'.phase = "recovering" /\ outage'.generation = outage.generation
        /\ outage'.downSince = outage.downSince /\ outage.downSince # Never
    BY <1>18 DEF Shapes, OutageShape, ForceSafe, IsUp, RedisReady
  <2>3. \A g \in 1 .. MaxLosses : sweeps'[g].pc = "mark" => sweeps'[g].since # Never
    BY <1>18, <2>2 DEF Shapes, SweepShape, ForceSafe, RedisReady, NoSweep
  <2>4. UNCHANGED <<now, tour, line, task, forcedTill>> BY <1>18 DEF RedisReady
  <2>5. ~ IsUp /\ ~ IsUp' BY <1>18, <2>2 DEF RedisReady, IsUp
  <2> QED BY <2>1, <2>2, <2>3, <2>4, <2>5, WithoutKept DEF ForceSafe, ForcedCountedOnce, Syncing
<1>19. ASSUME NEW g \in 1 .. MaxLosses, SweepMark(g) PROVE ForceSafe'
  <2>1. sweeps[g].since \in Nat \ {0}
    BY <1>19 DEF Shapes, SweepShape, ForceSafe, SweepMark, SweepAt
  <2>2. \A h \in 1 .. MaxLosses : sweeps'[h].pc = "mark" => sweeps'[h].since # Never
    BY <1>19 DEF Shapes, SweepShape, ForceSafe, SweepMark
  <2>3. UNCHANGED <<now, outage, line, task, forcedTill>> BY <1>19 DEF SweepMark
  <2>4. CASE MarkOutage(sweeps[g].since)
    BY <2>1, <2>2, <2>3, <2>4, ForceMarked
  <2>5. CASE Fault({"sweep"}) /\ UNCHANGED tour
    <3>1. faults.kinds \subseteq faults'.kinds BY <2>5, FaultKept, KindsKnown
    <3> QED BY <2>2, <2>3, <2>5, <3>1, WithoutKept DEF ForceSafe, ForcedCountedOnce, IsUp, Syncing
  <2> QED BY <1>19, <2>4, <2>5 DEF SweepMark
<1>20. ASSUME NEW g \in 1 .. MaxLosses, SweepFind(g) PROVE ForceSafe'
  BY <1>20 DEF Shapes, TourShape, OutageShape, LineShape, TaskShape, SweepShape, ForceSafe,
       ForcedCountedOnce, Without, IsUp, Syncing, SweepFind
<1>21. ASSUME NEW g \in 1 .. MaxLosses, NEW t \in Tables, SweepStop(g, t) PROVE ForceSafe'
  BY <1>21 DEF Shapes, TourShape, OutageShape, LineShape, TaskShape, SweepShape, ForceSafe,
       ForcedCountedOnce, Without, IsUp, Syncing, SweepStop
<1>22. ASSUME NEW g \in 1 .. MaxLosses, SweepEnd(g) PROVE ForceSafe'
  <2>1. \A h \in 1 .. MaxLosses : sweeps'[h].pc = "mark" => sweeps'[h].since # Never
    BY <1>22 DEF Shapes, SweepShape, ForceSafe, SweepEnd, NoSweep
  <2>2. UNCHANGED <<now, tour, line, task, faults, forcedTill>> BY <1>22 DEF SweepEnd
  <2>3. CASE UNCHANGED outage
    BY <2>1, <2>2, <2>3 DEF ForceSafe, ForcedCountedOnce, IsUp, Syncing, Without
  <2>4. CASE outage' = [outage EXCEPT !.phase = "up", !.downSince = Never]
    <3>1. outage'.phase = "up" /\ outage'.downSince = Never
          /\ outage'.generation = outage.generation
      BY <2>4 DEF Shapes, OutageShape
    <3> QED BY <2>1, <2>2, <3>1 DEF ForceSafe, ForcedCountedOnce, IsUp, Syncing, Without
  <2> QED BY <1>22, <2>3, <2>4 DEF SweepEnd
<1>23. ASSUME NEW beat \in Times, Restart(beat) PROVE ForceSafe'
  <2>1. outage'.phase = "up" /\ outage'.downSince = Never
        /\ outage'.generation = outage.generation
    BY <1>23 DEF Shapes, OutageShape, Restart
  <2>2. tour' \in TourShape BY <1>23, MarkKept DEF Restart, Times
  <2>3. UNCHANGED <<now, faults>> /\ line' = NoLine /\ task' = Idle /\ forcedTill' = Never
        /\ sweeps' = [h \in 1 .. MaxLosses |-> NoSweep]
    BY <1>23 DEF Restart
  <2> QED BY <2>1, <2>2, <2>3 DEF Shapes, TourShape, OutageShape, ForceSafe, ForcedCountedOnce,
             IsUp, Syncing, NoLine, Idle, NoSweep, Without
<1>24. ASSUME ForceSync PROVE ForceSafe'
  BY <1>24 DEF Shapes, TourShape, OutageShape, LineShape, TaskShape, SweepShape, ForceSafe,
       ForcedCountedOnce, Without, IsUp, Syncing, ForceSync
<1>25. ASSUME NEW d \in Devices, Connect(d) PROVE ForceSafe'
  BY <1>25 DEF Shapes, TourShape, OutageShape, LineShape, TaskShape, SweepShape, ForceSafe,
       ForcedCountedOnce, Without, IsUp, Syncing, Connect
<1>26. ASSUME NEW t \in Tables, LetIn(t) PROVE ForceSafe'
  BY <1>26 DEF Shapes, TourShape, OutageShape, LineShape, TaskShape, SweepShape, ForceSafe,
       ForcedCountedOnce, Without, IsUp, Syncing, LetIn
<1>27. ASSUME NEW t \in Tables, ResumeTable(t) PROVE ForceSafe'
  BY <1>27 DEF Shapes, TourShape, OutageShape, LineShape, TaskShape, SweepShape, ForceSafe,
       ForcedCountedOnce, Without, IsUp, Syncing, ResumeTable
<1>28. ASSUME AfterOutage PROVE ForceSafe'
  BY <1>28 DEF Shapes, TourShape, OutageShape, LineShape, TaskShape, SweepShape, ForceSafe,
       ForcedCountedOnce, Without, IsUp, Syncing, AfterOutage
<1>29. CASE UNCHANGED vars
  BY <1>29 DEF Shapes, TourShape, OutageShape, LineShape, TaskShape, SweepShape, ForceSafe,
       ForcedCountedOnce, Without, IsUp, Syncing, vars
<1>30. CASE Job
  BY <1>30, <1>2, <1>3, <1>4, <1>5, <1>6, <1>7, <1>8 DEF Job
<1>31. CASE Recovery
  BY <1>31, <1>16, <1>17, <1>19, <1>20, <1>22, <1>21, <1>28 DEF Recovery
<1>32. CASE Sockets
  BY <1>32, <1>11, <1>26, <1>13 DEF Sockets
<1>33. CASE Move
  BY <1>33, <1>25, <1>27, <1>24, <1>10, <1>12, <1>9, <1>14 DEF Move
<1>34. CASE Outside
  BY <1>34, <1>1, <1>15, <1>18, <1>23 DEF Outside
<1> QED BY <1>29, <1>30, <1>31, <1>32, <1>33, <1>34 DEF Next

\* Every loss has its generation, and no sweep of one runs before Redis is back.
Begun ==
  /\ ~ IsUp => outage.generation >= 1
  /\ \A h \in 1 .. MaxLosses :
       h > outage.generation \/ (h = outage.generation /\ outage.phase = "down")
         => sweeps[h].pc = "idle"

\* Where the sweep of the present generation stands, what it has still to stop.
Caught ==
  /\ IsUp => caught = {}
  /\ outage.phase = "recovering" =>
       LET sweep == sweeps[outage.generation]
       IN /\ outage.generation \in 1 .. MaxLosses
          /\ sweep.pc \in {"mark", "find", "stop", "end"}
          /\ sweep.pc = "find" => Syncing
          /\ sweep.pc = "stop" => caught \subseteq sweep.rest
          /\ sweep.pc = "end" => caught = {}

\* CaughtAreStopped with the sweep it rests on.
StopSafe ==
  /\ caught \subseteq Tables /\ running \subseteq Tables
  /\ outage.generation <= MaxLosses
  /\ Begun
  /\ Without({"sweep", "race"}) => Caught

\* The same of the exceptions of CaughtAreStopped.
LEMMA StopWithout ==
  ASSUME faults.kinds \subseteq faults'.kinds, Without({"sweep", "race"})'
  PROVE  Without({"sweep", "race"})
  BY DEF Without

\* A step that leaves the outage and the sweeps alone, stops no table less and starts
\* no tournament keeps StopSafe.
LEMMA StopStill ==
  ASSUME StopSafe, faults.kinds \subseteq faults'.kinds, Syncing => Syncing',
         caught' \subseteq caught, running' \subseteq Tables, UNCHANGED <<outage, sweeps>>
  PROVE  StopSafe'
<1>1. Caught => Caught'
  BY DEF Caught, IsUp
<1>2. Begun'
  BY DEF StopSafe, Begun, IsUp
<1> QED BY <1>1, <1>2, StopWithout DEF StopSafe

\* Every step keeps StopSafe: the sweep of the present generation marks, lists and
\* stops every table before markRecovered, and a release in between is remembered.
LEMMA StopKept == Shapes /\ ForceSafe /\ StopSafe /\ [Next]_vars => StopSafe'
<1> SUFFICES ASSUME Shapes, ForceSafe, StopSafe, [Next]_vars PROVE StopSafe'
  OBVIOUS
<1> USE DEF store, turns, server, people, jobs, Never
<1>1. ASSUME Tick PROVE StopSafe'
  <2>1. Syncing => Syncing' BY <1>1 DEF Tick, Syncing
  <2>2. UNCHANGED <<outage, sweeps, faults, caught, running>> BY <1>1 DEF Tick
  <2> QED BY <2>1, <2>2, StopStill DEF StopSafe
<1>2. ASSUME NEW job \in {"recount", "force"}, Measure(job) PROVE StopSafe'
  <2>1. Syncing => Syncing' BY <1>2 DEF Measure, Syncing
  <2>2. UNCHANGED <<outage, sweeps, faults, caught, running>> BY <1>2 DEF Measure
  <2> QED BY <2>1, <2>2, StopStill DEF StopSafe
<1>3. ASSUME Load PROVE StopSafe'
  <2>1. Syncing => Syncing' BY <1>3 DEF Load, Syncing
  <2>2. UNCHANGED <<outage, sweeps, faults, caught, running>> BY <1>3 DEF Load
  <2> QED BY <2>1, <2>2, StopStill DEF StopSafe
<1>4. ASSUME Release PROVE StopSafe'
  <2>1. faults.kinds \subseteq faults'.kinds BY <1>4, FaultKept, KindsKnown DEF Release
  <2>2. UNCHANGED <<outage, sweeps, caught, running>> BY <1>4 DEF Release
  <2>3. CASE UNCHANGED tour
    BY <2>1, <2>2, <2>3, StopStill DEF StopSafe, Syncing
  <2>4. CASE Remember(When(task.gen # outage.generation, {"race"})) /\ task.pc = "release"
    <3>1. task.gen # outage.generation => "race" \in faults'.kinds
      BY <2>4 DEF Shapes, FaultShape, Remember, When
    <3>2. Without({"sweep", "race"})' => IsUp BY <2>4, <3>1 DEF ForceSafe, Without
    <3>3. Begun' BY <2>2 DEF StopSafe, Begun, IsUp
    <3> QED BY <2>1, <2>2, <3>2, <3>3, StopWithout DEF StopSafe, Caught, IsUp
  <2> QED BY <1>4, <2>3, <2>4 DEF Release, At
<1>5. ASSUME StartPause PROVE StopSafe'
  <2>1. Syncing => Syncing' BY <1>5 DEF StartPause, Syncing
  <2>2. UNCHANGED <<outage, sweeps, faults, caught, running>> BY <1>5 DEF StartPause
  <2> QED BY <2>1, <2>2, StopStill DEF StopSafe
<1>6. ASSUME PauseMark PROVE StopSafe'
  <2>1. task.pausedAt \in Nat BY DEF Shapes, TaskShape
  <2>2. Syncing' BY <1>6, <2>1, MarkKept DEF PauseMark
  <2>3. UNCHANGED <<outage, sweeps, faults, caught, running>> BY <1>6 DEF PauseMark
  <2> QED BY <2>2, <2>3, StopStill DEF StopSafe
<1>7. ASSUME PauseDown PROVE StopSafe'
  <2>1. Syncing => Syncing' BY <1>7 DEF PauseDown, Syncing
  <2>2. UNCHANGED <<outage, sweeps, faults, caught, running>> BY <1>7 DEF PauseDown
  <2> QED BY <2>1, <2>2, StopStill DEF StopSafe
<1>8. ASSUME NEW t \in Tables, PauseStop(t) PROVE StopSafe'
  <2>1. UNCHANGED <<outage, sweeps, tour, faults>> BY <1>8 DEF PauseStop
  <2>2. caught' \subseteq caught /\ running' \subseteq Tables
    BY <1>8 DEF PauseStop, StopTable, StopSafe
  <2> QED BY <2>1, <2>2, StopStill DEF Syncing
<1>9. ASSUME NEW t \in Tables, NotLetIn(t) PROVE StopSafe'
  <2>1. faults.kinds \subseteq faults'.kinds BY <1>9, FaultKept, KindsKnown DEF NotLetIn
  <2>2. UNCHANGED <<outage, sweeps, tour, caught, running>> BY <1>9 DEF NotLetIn
  <2> QED BY <2>1, <2>2, StopStill DEF StopSafe, Syncing
<1>10. ASSUME NEW d \in Devices, Leave(d) PROVE StopSafe'
  <2>1. Syncing => Syncing' BY <1>10 DEF Leave, Syncing
  <2>2. UNCHANGED <<outage, sweeps, faults, caught, running>> BY <1>10 DEF Leave
  <2> QED BY <2>1, <2>2, StopStill DEF StopSafe
<1>11. ASSUME GraceOver PROVE StopSafe'
  <2>1. Syncing => Syncing' BY <1>11 DEF GraceOver, Syncing
  <2>2. UNCHANGED <<outage, sweeps, faults, caught, running>> BY <1>11 DEF GraceOver
  <2> QED BY <2>1, <2>2, StopStill DEF StopSafe
<1>12. ASSUME NEW d \in Devices, GoSilent(d) PROVE StopSafe'
  <2>1. Syncing => Syncing' BY <1>12 DEF GoSilent, Syncing
  <2>2. UNCHANGED <<outage, sweeps, faults, caught, running>> BY <1>12 DEF GoSilent
  <2> QED BY <2>1, <2>2, StopStill DEF StopSafe
<1>13. ASSUME NEW D \in SUBSET Devices, SweepSockets(D) PROVE StopSafe'
  <2>1. Syncing => Syncing' BY <1>13 DEF SweepSockets, Syncing
  <2>2. UNCHANGED <<outage, sweeps, faults, caught, running>> BY <1>13 DEF SweepSockets
  <2> QED BY <2>1, <2>2, StopStill DEF StopSafe
<1>14. ASSUME Revoke PROVE StopSafe'
  <2>1. Syncing => Syncing' BY <1>14 DEF Revoke, Syncing
  <2>2. UNCHANGED <<outage, sweeps, faults, caught, running>> BY <1>14 DEF Revoke
  <2> QED BY <2>1, <2>2, StopStill DEF StopSafe
<1>15. ASSUME LoseRedis PROVE StopSafe'
  <2>1. outage'.phase = "down" /\ outage'.generation = outage.generation + 1
    BY <1>15 DEF LoseRedis, Shapes, OutageShape
  <2>2. outage.generation < MaxLosses /\ caught' = running /\ UNCHANGED <<running, sweeps>>
    BY <1>15 DEF LoseRedis
  <2>3. outage.generation \in Nat /\ MaxLosses \in Nat
    BY BoundAssumption DEF Shapes, OutageShape
  <2>4. outage'.generation <= MaxLosses BY <2>1, <2>2, <2>3
  <2>5. Begun'
    <3>1. ASSUME NEW h \in 1 .. MaxLosses, h >= outage'.generation PROVE sweeps[h].pc = "idle"
      BY <2>1, <2>3, <3>1 DEF StopSafe, Begun
    <3> QED BY <2>1, <2>2, <2>3, <3>1 DEF Begun
  <2> QED BY <2>1, <2>2, <2>4, <2>5 DEF StopSafe, Caught, IsUp
<1>16. ASSUME NEW since \in marks, MarkDown(since) PROVE StopSafe'
  <2>1. Syncing' /\ faults.kinds \subseteq faults'.kinds
    BY <1>16, MarkOutageKept DEF Shapes, MarkDown
  <2>2. UNCHANGED <<outage, sweeps, caught, running>> BY <1>16 DEF MarkDown
  <2> QED BY <2>1, <2>2, StopStill DEF StopSafe
<1>17. ASSUME NEW since \in marks, MarkFails(since) PROVE StopSafe'
  <2>1. faults.kinds \subseteq faults'.kinds BY <1>17, FaultKept, KindsKnown DEF MarkFails
  <2>2. UNCHANGED <<outage, sweeps, tour, caught, running>> BY <1>17 DEF MarkFails
  <2> QED BY <2>1, <2>2, StopStill DEF StopSafe, Syncing
<1>18. ASSUME RedisReady PROVE StopSafe'
  <2>1. faults.kinds \subseteq faults'.kinds BY <1>18, FaultKept, KindsKnown DEF RedisReady
  <2>2. outage.phase = "down" /\ outage'.phase = "recovering"
        /\ outage'.generation = outage.generation
    BY <1>18 DEF RedisReady, Shapes, OutageShape
  <2>3. outage.generation \in 1 .. MaxLosses
    <3>1. outage.generation \in Nat /\ MaxLosses \in Nat
      BY BoundAssumption DEF Shapes, OutageShape
    <3> QED BY <2>2, <3>1 DEF StopSafe, Begun, IsUp
  <2> DEFINE begun == [NoSweep EXCEPT !.pc = "mark", !.since = outage.downSince]
  <2>4. sweeps' = [sweeps EXCEPT ![outage.generation] = begun] BY <1>18 DEF RedisReady
  <2>5. begun.pc = "mark" BY DEF NoSweep
  <2> HIDE DEF begun
  <2>6. sweeps'[outage.generation].pc = "mark"
        /\ \A h \in 1 .. MaxLosses : h # outage.generation => sweeps'[h] = sweeps[h]
    BY <2>3, <2>4, <2>5 DEF Shapes
  <2>7. caught' \subseteq Tables /\ running' \subseteq Tables
    BY <1>18 DEF RedisReady, StopSafe
  <2>8. Begun'
    BY <2>2, <2>3, <2>6 DEF StopSafe, Begun, IsUp, Shapes, OutageShape
  <2> QED BY <2>2, <2>3, <2>6, <2>7, <2>8 DEF StopSafe, Caught, IsUp
<1>19. ASSUME NEW g \in 1 .. MaxLosses, SweepMark(g) PROVE StopSafe'
  <2>1. sweeps[g].since \in Nat BY DEF Shapes, SweepShape
  <2>2. UNCHANGED <<outage, caught, running>> BY <1>19 DEF SweepMark
  <2>5. Begun'
    <3>1. sweeps[g].pc # "idle" BY <1>19 DEF SweepMark, SweepAt
    <3>2. \A h \in 1 .. MaxLosses : h # g => sweeps'[h] = sweeps[h]
      BY <1>19 DEF SweepMark, Shapes
    <3> QED BY <2>2, <3>1, <3>2 DEF StopSafe, Begun, IsUp
  <2>3. CASE MarkOutage(sweeps[g].since) /\ sweeps' = [sweeps EXCEPT ![g].pc = "find"]
    <3>1. Syncing' /\ faults.kinds \subseteq faults'.kinds BY <2>1, <2>3, MarkOutageKept
    <3>2. Caught => Caught' BY <2>2, <2>3, <3>1 DEF Caught, IsUp, Shapes, SweepShape
    <3> QED BY <2>2, <2>5, <3>1, <3>2, StopWithout DEF StopSafe
  <2>4. CASE Fault({"sweep"})
    <3>1. ~ Without({"sweep", "race"})' BY <2>4 DEF Fault, Without, Shapes, FaultShape
    <3> QED BY <2>2, <2>5, <3>1 DEF StopSafe
  <2> QED BY <1>19, <2>3, <2>4 DEF SweepMark
<1>20. ASSUME NEW g \in 1 .. MaxLosses, SweepFind(g) PROVE StopSafe'
  <2>1. UNCHANGED <<outage, tour, caught, running, faults>> BY <1>20 DEF SweepFind
  <2>2. \A h \in 1 .. MaxLosses : h # g => sweeps'[h] = sweeps[h]
    BY <1>20 DEF SweepFind, Shapes
  <2>3. sweeps[g].pc = "find"
        /\ (Syncing => sweeps'[g].pc = "stop" /\ sweeps'[g].rest = Tables)
    BY <1>20 DEF SweepFind, SweepAt, Shapes, SweepShape
  <2>4. ASSUME StopSafe, Caught PROVE Caught'
    <3>1. CASE outage.generation = g
      BY <2>1, <2>3, <2>4, <3>1 DEF Caught, StopSafe, IsUp, Syncing
    <3>2. CASE outage.generation # g
      BY <2>1, <2>2, <2>4, <3>2 DEF Caught, IsUp, Syncing
    <3> QED BY <3>1, <3>2
  <2>5. Begun' BY <2>1, <2>2, <2>3 DEF StopSafe, Begun, IsUp
  <2> QED BY <2>1, <2>4, <2>5 DEF StopSafe, Without
<1>21. ASSUME NEW g \in 1 .. MaxLosses, NEW t \in Tables, SweepStop(g, t) PROVE StopSafe'
  <2>1. UNCHANGED <<outage, tour, faults>> /\ caught' \subseteq caught /\ running' \subseteq running
    BY <1>21 DEF SweepStop, StopTable
  <2>2. \A h \in 1 .. MaxLosses : h # g => sweeps'[h] = sweeps[h]
    BY <1>21 DEF SweepStop, Shapes
  <2>3. /\ sweeps[g].pc = "stop"
        /\ sweeps'[g].rest = sweeps[g].rest \ {t}
        /\ sweeps'[g].pc = IF sweeps[g].rest = {t} THEN "end" ELSE "stop"
    BY <1>21 DEF SweepStop, SweepAt, Shapes, SweepShape
  <2>4. outage.generation = g => caught' = caught \ {t} BY <1>21 DEF SweepStop, StopTable
  <2>5. ASSUME Caught PROVE Caught'
    <3>1. CASE outage.generation = g
      BY <2>1, <2>3, <2>4, <2>5, <3>1 DEF Caught, IsUp, Syncing
    <3>2. CASE outage.generation # g
      BY <2>1, <2>2, <2>5, <3>2 DEF Caught, IsUp, Syncing
    <3> QED BY <3>1, <3>2
  <2>6. Begun' BY <2>1, <2>2, <2>3 DEF StopSafe, Begun, IsUp
  <2> QED BY <2>1, <2>5, <2>6 DEF StopSafe, Without
<1>22. ASSUME NEW g \in 1 .. MaxLosses, SweepEnd(g) PROVE StopSafe'
  <2>1. UNCHANGED <<tour, faults, caught, running>> BY <1>22 DEF SweepEnd
  <2>2. (\A h \in 1 .. MaxLosses : h # g => sweeps'[h] = sweeps[h]) /\ sweeps'[g].pc = "idle"
    BY <1>22 DEF SweepEnd, Shapes, NoSweep
  <2>3. sweeps[g].pc = "end" BY <1>22 DEF SweepEnd, SweepAt
  <2>4. /\ outage'.generation = outage.generation
        /\ outage.generation = g => outage'.phase = "up"
        /\ outage.generation # g => UNCHANGED outage
    BY <1>22 DEF SweepEnd, Shapes, OutageShape
  <2>5. ~ (outage.generation = g /\ outage.phase = "down") BY <2>3 DEF StopSafe, Begun
  <2>6. Begun' BY <2>2, <2>4, <2>5 DEF StopSafe, Begun, IsUp
  <2>7. ASSUME Caught PROVE Caught'
    <3>1. CASE outage.generation = g
      <4>1. IsUp \/ outage.phase = "recovering" BY <2>5, <3>1 DEF Shapes, OutageShape, IsUp
      <4> QED BY <2>1, <2>3, <2>4, <2>7, <3>1, <4>1 DEF Caught, IsUp
    <3>2. CASE outage.generation # g
      BY <2>1, <2>2, <2>4, <2>7, <3>2 DEF Caught, IsUp, Syncing
    <3> QED BY <3>1, <3>2
  <2> QED BY <2>1, <2>4, <2>6, <2>7 DEF StopSafe, Without
<1>23. ASSUME NEW beat \in Times, Restart(beat) PROVE StopSafe'
  <2>1. outage'.phase = "up" /\ outage'.generation = outage.generation
        /\ caught' = {} /\ running' = {}
    BY <1>23 DEF Restart, Shapes, OutageShape
  <2>2. \A h \in 1 .. MaxLosses : sweeps'[h].pc = "idle" BY <1>23 DEF Restart, NoSweep
  <2>3. Begun' BY <2>1, <2>2 DEF Begun, IsUp
  <2> QED BY <2>1, <2>3 DEF StopSafe, Caught
<1>24. ASSUME ForceSync PROVE StopSafe'
  <2>1. Syncing => Syncing' BY <1>24 DEF ForceSync, Syncing
  <2>2. UNCHANGED <<outage, sweeps, faults, caught, running>> BY <1>24 DEF ForceSync
  <2> QED BY <2>1, <2>2, StopStill DEF StopSafe
<1>25. ASSUME NEW d \in Devices, Connect(d) PROVE StopSafe'
  <2>1. Syncing => Syncing' BY <1>25 DEF Connect, Syncing
  <2>2. UNCHANGED <<outage, sweeps, faults, caught, running>> BY <1>25 DEF Connect
  <2> QED BY <2>1, <2>2, StopStill DEF StopSafe
<1>26. ASSUME NEW t \in Tables, LetIn(t) PROVE StopSafe'
  <2>1. Syncing => Syncing' BY <1>26 DEF LetIn, Syncing
  <2>2. UNCHANGED <<outage, sweeps, faults, caught, running>> BY <1>26 DEF LetIn
  <2> QED BY <2>1, <2>2, StopStill DEF StopSafe
<1>27. ASSUME NEW t \in Tables, ResumeTable(t) PROVE StopSafe'
  <2>1. UNCHANGED <<outage, sweeps, tour, faults, caught>> /\ running' \subseteq Tables
    BY <1>27 DEF ResumeTable, StopSafe
  <2> QED BY <2>1, StopStill DEF Syncing
<1>28. ASSUME AfterOutage PROVE StopSafe'
  <2>1. Syncing => Syncing' BY <1>28 DEF AfterOutage, Syncing
  <2>2. UNCHANGED <<outage, sweeps, faults, caught, running>> BY <1>28 DEF AfterOutage
  <2> QED BY <2>1, <2>2, StopStill DEF StopSafe
<1>29. CASE UNCHANGED vars
  BY <1>29 DEF StopSafe, Begun, Caught, IsUp, Syncing, Without, vars
<1>30. CASE Job
  BY <1>30, <1>2, <1>3, <1>4, <1>5, <1>6, <1>7, <1>8 DEF Job
<1>31. CASE Recovery
  BY <1>31, <1>16, <1>17, <1>19, <1>20, <1>22, <1>21, <1>28 DEF Recovery
<1>32. CASE Sockets
  BY <1>32, <1>11, <1>26, <1>13 DEF Sockets
<1>33. CASE Move
  BY <1>33, <1>25, <1>27, <1>24, <1>10, <1>12, <1>9, <1>14 DEF Move
<1>34. CASE Outside
  BY <1>34, <1>1, <1>15, <1>18, <1>23 DEF Outside
<1> QED BY <1>29, <1>30, <1>31, <1>32, <1>33, <1>34 DEF Next

\* The inductive invariant.
SyncInv == Shapes /\ LineSafe /\ ForceSafe /\ StopSafe

\* The server starts with everybody there and nothing under way.
LEMMA SyncInvInit == Init => SyncInv
<1> SUFFICES ASSUME Init PROVE SyncInv
  OBVIOUS
<1> USE DEF Init, Never
<1>1. Shapes
  BY BoundAssumption DEF Shapes, TourShape, OutageShape, LineShape, TaskShape, SweepShape,
     FaultShape, FaultKinds, NoLine, NoSweep, Idle, Jobs
<1>2. LineSafe
  BY DEF LineSafe, LineDownIsPaused, NoLine, Idle
<1>3. ForceSafe
  BY DEF ForceSafe, ForcedCountedOnce, IsUp, Syncing, NoLine, NoSweep, Idle
<1>4. StopSafe
  BY BoundAssumption DEF StopSafe, Begun, Caught, IsUp, NoSweep
<1> QED BY <1>1, <1>2, <1>3, <1>4 DEF SyncInv

\* Every step keeps the whole invariant.
LEMMA SyncInvKept == SyncInv /\ [Next]_vars => SyncInv'
  BY Typed, LineKept, ForceKept, StopKept DEF SyncInv

\* The invariant holds of every reachable state, whatever the devices, the store,
\* Redis and the faults do.
THEOREM SyncInvariance == Spec => []SyncInv
<1>1. Init => SyncInv
  BY SyncInvInit
<1>2. SyncInv /\ [Next]_vars => SyncInv'
  BY SyncInvKept
<1> QED BY <1>1, <1>2, PTL DEF Spec

\* linePause, under which no timeout folds anybody, never outlives the pause it is about
\* (pauseForLineOutage, completeSync, onRedisDown).
THEOREM LinePaused == Spec => []LineDownIsPaused
<1>1. SyncInv => LineDownIsPaused
  BY DEF SyncInv, LineSafe
<1> QED BY <1>1, SyncInvariance, PTL

\* What a release by force counted into pausedMs is not counted again (forceSync,
\* pauseIfNoDealer), unless a write was late or a release raced with a loss of Redis.
THEOREM ForcedOnce == Spec => []ForcedCountedOnce
<1>1. SyncInv => ForcedCountedOnce
  BY DEF SyncInv, ForceSafe
<1> QED BY <1>1, SyncInvariance, PTL

\* No turn that a loss of Redis caught running goes on once recoverFromOutage has said
\* that Redis is back, unless the sweep failed or a release landed in it.
THEOREM OutageStopsCaught == Spec => []CaughtAreStopped
<1>1. SyncInv => CaughtAreStopped
  BY DEF SyncInv, StopSafe, Caught, CaughtAreStopped
<1> QED BY <1>1, SyncInvariance, PTL

-----------------------------------------------------------------------------
(* The lock of a table (SnapshotLock).                                       *)

\* A call at work that is not late has the key.
KeyIsMine == \A c \in Calls : Holds(c) /\ c \notin late => owner = c

\* A call has read before it is in its function.
HasRead(c) == pc[c] \in {"fn", "write"}

\* If the snapshot is not what a punctual call has read, a late call wrote it.
BehindMyBack ==
  \A c \in Calls : HasRead(c) /\ c \notin late /\ local[c] # snap => writer \in late

\* Without a late call it is the snapshot itself.
ReadIsFresh == late = {} => \A c \in Calls : HasRead(c) => local[c] = snap

\* A call at work has no result before it has written or left its function.
ResultOpen == \A c \in Calls : pc[c] \notin {"release", "end"} => result[c] = "none"

LockInv == LTypeOK /\ KeyIsMine /\ BehindMyBack /\ ReadIsFresh /\ ResultOpen

\* Late calls stay late.
LEMMA LateGrows == LTypeOK /\ [LNext]_lvars => late \subseteq late'
BY DEF LNext, lvars, Call, Step, Acquire, Refused, Retry, GiveUp, GetSnapShot, Fn,
       WriteSnapshot, ReleaseTableLock, LeaseTick, Crash

\* The initial state.
LEMMA LockInit == LInit => LockInv
<1> SUFFICES ASSUME LInit PROVE LockInv
  OBVIOUS
<1>1. LTypeOK
  BY LockAssumption DEF LInit, LTypeOK, Inside
<1>2. KeyIsMine /\ BehindMyBack /\ ReadIsFresh /\ ResultOpen
  BY DEF LInit, KeyIsMine, BehindMyBack, ReadIsFresh, ResultOpen, Holds, HasRead, Inside
<1> QED
  BY <1>1, <1>2 DEF LockInv

\* The steps of a call before and after its critical work.
LEMMA QuietStep ==
  ASSUME LockInv, NEW c \in Calls,
         Call(c) \/ Refused(c) \/ Retry(c) \/ GiveUp(c) \/ Fn(c)
  PROVE  LockInv'
<1> USE DEF Goto, Finish, lockvars
<1>1. UNCHANGED <<snap, owner, lease, local, late, writer>>
  BY DEF Call, Refused, Retry, GiveUp, Fn
<1>2. LTypeOK'
  BY <1>1, LockAssumption DEF LockInv, LTypeOK, Inside, Call, Refused, Retry, GiveUp, Fn
<1>3. \A d \in Calls : Holds(d)' => Holds(d)
  BY DEF LockInv, LTypeOK, Holds, Inside, Call, Refused, Retry, GiveUp, Fn
<1>4. \A d \in Calls : HasRead(d)' => HasRead(d)
  BY DEF LockInv, LTypeOK, HasRead, Call, Refused, Retry, GiveUp, Fn
<1>5. ResultOpen'
  BY DEF LockInv, LTypeOK, ResultOpen, Call, Refused, Retry, GiveUp, Fn
<1>6. KeyIsMine' /\ BehindMyBack' /\ ReadIsFresh'
  BY <1>1, <1>3, <1>4 DEF LockInv, KeyIsMine, BehindMyBack, ReadIsFresh
<1> QED
  BY <1>2, <1>5, <1>6 DEF LockInv

\* A call gets the lock only while nobody punctual is at work.
LEMMA AcquireStep ==
  ASSUME LockInv, NEW c \in Calls, Acquire(c)
  PROVE  LockInv'
<1> USE DEF Goto
<1>1. LTypeOK'
  BY LockAssumption DEF LockInv, LTypeOK, Inside, Acquire
<1>2. \A d \in Calls : Holds(d)' => d = c \/ Holds(d)
  BY DEF LockInv, LTypeOK, Holds, Inside, Acquire
<1>3. \A d \in Calls : HasRead(d)' => HasRead(d)
  BY DEF LockInv, LTypeOK, HasRead, Acquire
<1>4. \A d \in Calls : ~ (Holds(d) /\ d \notin late)
  BY LockAssumption DEF LockInv, LTypeOK, KeyIsMine, Acquire
<1>5. KeyIsMine'
  BY <1>2, <1>4 DEF LockInv, LTypeOK, KeyIsMine, Acquire
<1>6. BehindMyBack' /\ ReadIsFresh' /\ ResultOpen'
  BY <1>3 DEF LockInv, LTypeOK, BehindMyBack, ReadIsFresh, ResultOpen, Acquire
<1> QED
  BY <1>1, <1>5, <1>6 DEF LockInv

\* A call reads what is there now.
LEMMA ReadStep ==
  ASSUME LockInv, NEW c \in Calls, GetSnapShot(c)
  PROVE  LockInv'
<1> USE DEF Goto, lockvars
<1>1. LTypeOK'
  BY LockAssumption DEF LockInv, LTypeOK, Inside, GetSnapShot
<1>2. \A d \in Calls : Holds(d)' => Holds(d)
  BY DEF LockInv, LTypeOK, Holds, Inside, GetSnapShot
<1>3. \A d \in Calls : HasRead(d)' => d = c \/ HasRead(d)
  BY DEF LockInv, LTypeOK, HasRead, GetSnapShot
<1>4. local'[c] = snap /\ \A d \in Calls \ {c} : local'[d] = local[d]
  BY DEF LockInv, LTypeOK, GetSnapShot
<1>5. KeyIsMine'
  BY <1>2 DEF LockInv, KeyIsMine, GetSnapShot
<1>6. BehindMyBack'
  BY <1>3, <1>4 DEF LockInv, BehindMyBack, GetSnapShot
<1>7. ReadIsFresh' /\ ResultOpen'
  BY <1>3, <1>4 DEF LockInv, LTypeOK, ReadIsFresh, ResultOpen, GetSnapShot
<1> QED
  BY <1>1, <1>5, <1>6, <1>7 DEF LockInv

\* Two punctual calls cannot both have the key.
LEMMA OneKey == KeyIsMine => InTimeAlone
BY DEF KeyIsMine, InTimeAlone

\* A write is behind the back of another punctual call only if it is late.
LEMMA WriteStep ==
  ASSUME LockInv, NEW c \in Calls, WriteSnapshot(c)
  PROVE  LockInv'
<1> USE DEF Goto, Finish, lockvars
<1>1. LTypeOK'
  BY LockAssumption DEF LockInv, LTypeOK, Inside, WriteSnapshot
<1>2. \A d \in Calls : Holds(d)' => Holds(d)
  BY DEF LockInv, LTypeOK, Holds, Inside, WriteSnapshot
<1>3. \A d \in Calls : HasRead(d)' => d # c /\ HasRead(d) /\ Holds(d)
  BY DEF LockInv, LTypeOK, HasRead, Holds, Inside, WriteSnapshot
<1>4. \A d \in Calls : HasRead(d)' /\ d \notin late => c \in late
  BY <1>3, OneKey DEF LockInv, InTimeAlone, Holds, Inside, WriteSnapshot
<1>5. KeyIsMine'
  BY <1>2 DEF LockInv, KeyIsMine, WriteSnapshot
<1>6. BehindMyBack'
  BY <1>4 DEF BehindMyBack, WriteSnapshot
<1>7. ReadIsFresh'
  BY <1>4 DEF ReadIsFresh, WriteSnapshot
<1>8. ResultOpen'
  BY DEF LockInv, LTypeOK, ResultOpen, WriteSnapshot
<1> QED
  BY <1>1, <1>5, <1>6, <1>7, <1>8 DEF LockInv

\* A release deletes no key but its own.
LEMMA ReleaseStep ==
  ASSUME LockInv, NEW c \in Calls, ReleaseTableLock(c)
  PROVE  LockInv'
<1> USE DEF Goto, lockvars
<1>1. LTypeOK'
  BY LockAssumption DEF LockInv, LTypeOK, Inside, ReleaseTableLock
<1>2. \A d \in Calls : Holds(d)' => d # c /\ Holds(d)
  BY DEF LockInv, LTypeOK, Holds, Inside, ReleaseTableLock
<1>3. \A d \in Calls : HasRead(d)' => HasRead(d)
  BY DEF LockInv, LTypeOK, HasRead, ReleaseTableLock
<1>4. KeyIsMine'
  BY <1>2 DEF LockInv, KeyIsMine, ReleaseTableLock
<1>5. BehindMyBack' /\ ReadIsFresh' /\ ResultOpen'
  BY <1>3 DEF LockInv, LTypeOK, BehindMyBack, ReadIsFresh, ResultOpen, ReleaseTableLock
<1> QED
  BY <1>1, <1>4, <1>5 DEF LockInv

\* Whoever loses his key to the clock is late from then on.
LEMMA TickStep ==
  ASSUME LockInv, LeaseTick
  PROVE  LockInv'
<1>1. LTypeOK'
  BY LockAssumption DEF LockInv, LTypeOK, Inside, LeaseTick
<1>2. UNCHANGED <<snap, result, pc, local, writer>> /\ late \subseteq late'
  BY DEF LeaseTick
<1>3. KeyIsMine'
  BY <1>2 DEF LockInv, LTypeOK, KeyIsMine, Holds, LeaseTick
<1>4. BehindMyBack' /\ ReadIsFresh' /\ ResultOpen'
  BY <1>2 DEF LockInv, BehindMyBack, ReadIsFresh, ResultOpen, HasRead
<1> QED
  BY <1>1, <1>3, <1>4 DEF LockInv

\* A dead call holds nothing and writes nothing.
LEMMA CrashStep ==
  ASSUME LockInv, Crash
  PROVE  LockInv'
<1> USE DEF lockvars
<1>1. LTypeOK'
  BY LockAssumption DEF LockInv, LTypeOK, Inside, Crash
<1>2. \A d \in Calls : Holds(d)' => Holds(d)
  BY DEF LockInv, LTypeOK, Holds, Inside, Crash
<1>3. \A d \in Calls : HasRead(d)' => HasRead(d)
  BY DEF LockInv, LTypeOK, HasRead, Crash
<1>4. KeyIsMine' /\ BehindMyBack' /\ ReadIsFresh' /\ ResultOpen'
  BY <1>2, <1>3 DEF LockInv, LTypeOK, KeyIsMine, BehindMyBack, ReadIsFresh, ResultOpen, Crash
<1> QED
  BY <1>1, <1>4 DEF LockInv

\* The invariant is inductive.
LEMMA LockNext == LockInv /\ [LNext]_lvars => LockInv'
<1> SUFFICES ASSUME LockInv, [LNext]_lvars PROVE LockInv'
  OBVIOUS
<1>1. ASSUME NEW c \in Calls, Call(c) PROVE LockInv'
  BY <1>1, QuietStep
<1>2. ASSUME NEW c \in Calls, Step(c) PROVE LockInv'
  BY <1>2, QuietStep, AcquireStep, ReadStep, WriteStep, ReleaseStep DEF Step
<1>3. CASE LeaseTick
  BY <1>3, TickStep
<1>4. CASE Crash
  BY <1>4, CrashStep
<1>5. CASE UNCHANGED lvars
  BY <1>5 DEF lvars, LockInv, LTypeOK, KeyIsMine, BehindMyBack, ReadIsFresh, ResultOpen,
              Holds, HasRead
<1> QED
  BY <1>1, <1>2, <1>3, <1>4, <1>5 DEF LNext

\* The invariant of the lock holds in every reachable state, for any number of
\* calls, any lease and any deadline (withTableLock).
THEOREM LockInvariance == LSpec => []LockInv
BY LockInit, LockNext, PTL DEF LSpec

\* Types of the lock, for every instance.
THEOREM LockTypes == LSpec => []LTypeOK
BY LockInvariance, PTL DEF LockInv

\* Of two calls at work on a table, one is late (releaseTableLock compares the
\* token before it deletes).
THEOREM PunctualAlone == LSpec => []InTimeAlone
<1>1. LockInv => InTimeAlone
  BY OneKey DEF LockInv
<1> QED
  BY <1>1, LockInvariance, PTL

\* Calls within their lease never overwrite each other, however many calls have
\* outlived theirs (mutateSnapshot).
THEOREM PunctualKept == LSpec => []OverwritesOnlyLate
<1>1. LockInv => OverwritesOnlyLate
  BY DEF LockInv, BehindMyBack, HasRead, OverwritesOnlyLate
<1> QED
  BY <1>1, LockInvariance, PTL

\* As long as nobody is late each step of a call is a step of the atomic
\* snapshot, or none.
LEMMA StepIsAtomic ==
  ASSUME LockInv, [LNext]_lvars, late' = {}
  PROVE  Atomic!ANext \/ UNCHANGED Atomic!avars
<1> USE DEF Atomic!avars, Goto, Finish
<1>1. late = {}
  BY LateGrows DEF LockInv
<1>2. ASSUME NEW c \in Calls, WriteSnapshot(c) PROVE Atomic!Mutate(c)
  BY <1>1, <1>2 DEF WriteSnapshot, Atomic!Mutate, LockInv, ReadIsFresh, HasRead, ResultOpen
<1>3. ASSUME NEW c \in Calls, GiveUp(c) \/ Fn(c)
      PROVE  Atomic!ANext \/ UNCHANGED Atomic!avars
  <2>1. CASE UNCHANGED result
    BY <1>3, <2>1 DEF GiveUp, Fn
  <2>2. CASE \E outcome \in {"unchanged", "failed"} : Finish(c, outcome)
    <3>1. result[c] = "none" /\ UNCHANGED snap
      BY <1>3 DEF GiveUp, Fn, LockInv, ResultOpen
    <3>2. PICK outcome \in {"unchanged", "failed"} : Finish(c, outcome)
      BY <2>2
    <3>3. result' = [d \in Calls |-> IF d \in {c} THEN outcome ELSE result[d]]
      BY <3>2 DEF LockInv, LTypeOK
    <3>4. Atomic!Leave({c})
      BY <3>1, <3>3 DEF Atomic!Leave
    <3> QED
      BY <3>4 DEF Atomic!ANext
  <2> QED
    BY <1>3, <2>1, <2>2 DEF GiveUp, Fn
<1>4. ASSUME Crash PROVE Atomic!ANext
  <2> DEFINE S == {c \in Calls : pc[c] \notin {"idle", "end"} /\ result[c] = "none"}
  <2>1. result' = [c \in Calls |-> IF c \in S THEN "failed" ELSE result[c]]
    BY <1>4 DEF Crash
  <2>2. Atomic!Leave(S)
    BY <1>4, <2>1 DEF Atomic!Leave, Crash
  <2> QED
    BY <2>2 DEF Atomic!ANext
<1>5. ASSUME NEW c \in Calls,
             Call(c) \/ Acquire(c) \/ Refused(c) \/ Retry(c) \/ GetSnapShot(c)
               \/ ReleaseTableLock(c)
      PROVE  UNCHANGED Atomic!avars
  BY <1>5 DEF Call, Acquire, Refused, Retry, GetSnapShot, ReleaseTableLock
<1>6. ASSUME LeaseTick \/ UNCHANGED lvars PROVE UNCHANGED Atomic!avars
  BY <1>6 DEF LeaseTick, lvars
<1> QED
  BY <1>2, <1>3, <1>4, <1>5, <1>6 DEF LNext, Step, Atomic!ANext

\* As long as no lease runs out, mutateSnapshot is one atomic step from the
\* latest state to the next, for any number of calls.
THEOREM LockImplementsAtomic == LSpec => MutationsAtomic
<1>1. LInit => Atomic!AInit
  BY DEF LInit, Atomic!AInit
<1>2. LockInv /\ [LNext]_lvars =>
        [late' = {} => Atomic!ANext \/ UNCHANGED Atomic!avars]_lvars
  BY StepIsAtomic
<1> QED
  BY <1>1, <1>2, LockInvariance, PTL DEF LSpec, MutationsAtomic
=============================================================================

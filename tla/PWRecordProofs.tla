--------------------------- MODULE PWRecordProofs ---------------------------
(***************************************************************************)
(* Proofs about PWRecord, for any set of callers and any number of          *)
(* recordings.                                                             *)
(***************************************************************************)
EXTENDS PWRecord, TLAPS

-----------------------------------------------------------------------------
(* The inductive invariant                                                 *)

Starting == {"start", "prepare", "spawn", "frames", "resolve", "mpv", "headstart",
             "undo", "discard", "discarded"}
Stopping == {"stop", "interrupt", "wait", "killed", "cancelled", "check"}
StoppingWake == {"stop_wake", "wake_wait", "wake_killed"}
GivingUp == {"undo", "discard", "discarded"} \cup StoppingWake

\* The parts of the type invariant.
CallTypes ==
    /\ pc \in [Caller -> Point] /\ op \in [Caller -> {"start", "stop"}]
    /\ ctx \in [Caller -> Context] /\ res \in [Caller -> Result]
    /\ mine \in [Caller -> 0..MaxTakes] /\ held \in [Caller -> 0..MaxTakes]

FieldTypes ==
    /\ operation \in Caller \cup {NoCaller} /\ recording \in BOOLEAN
    /\ process \in 0..MaxTakes /\ wakeProcess \in 0..MaxTakes
    /\ recording <=> process # 0
    /\ wakeProcess # 0 => wakeProcess = process

DeviceTypes ==
    /\ cameraWake \in {"none", "auto"} /\ videoDevice \in BOOLEAN
    /\ take \in 0..MaxTakes
    /\ capture \in [Take -> Process] /\ wake \in [Take -> Process]
    /\ file \in 0..MaxTakes /\ content \in Content
    /\ ended \subseteq Context

\* Whoever is inside a call holds the lock, and the others know nothing.
Locked ==
    \A c \in Caller :
        /\ pc[c] # "out" <=> operation = c
        /\ pc[c] = "out" => /\ op[c] = "start" /\ ctx[c] = "root" /\ res[c] = "none"
                            /\ mine[c] = 0 /\ held[c] = 0

\* The method of the call that holds the lock.
MethodAt(c) ==
    /\ pc[c] \in Starting => op[c] = "start"
    /\ pc[c] \in Stopping => op[c] = "stop"

\* Which process it has in its hands, and which ones are in the fields.
ProcessAt(c) ==
    /\ mine[c] \in {0, take} /\ held[c] \in {0, mine[c]}
    /\ mine[c] # 0 => file \in {0, mine[c]}
    /\ pc[c] \in {"start", "stop", "prepare", "spawn"} => mine[c] = 0
    /\ pc[c] \in {"prepare", "spawn"} => ~recording
    /\ pc[c] = "spawn" => file = 0
    /\ pc[c] \in {"frames", "resolve", "mpv", "headstart", "undo"} =>
         recording /\ mine[c] = process /\ held[c] = 0
    /\ pc[c] \in {"frames", "resolve", "mpv"} => wakeProcess = 0
    /\ pc[c] \in {"discard", "discarded"} \cup StoppingWake
                   \cup (Stopping \ {"stop"}) => ~recording /\ mine[c] # 0
    /\ pc[c] \in StoppingWake => held[c] # 0
    /\ pc[c] = "check" => capture[mine[c]] = "exited"

\* What it is going to return.
ResultAt(c) ==
    /\ pc[c] \in (Starting \ GivingUp) \cup Stopping => res[c] = "none"
    /\ pc[c] \in GivingUp /\ op[c] = "start" => res[c] = "failed"
    /\ pc[c] = "unlock" /\ op[c] = "start" =>
         \/ res[c] = "ok" /\ mine[c] # 0 /\ recording
         \/ res[c] = "failed" /\ (mine[c] # 0 => ~recording)
    /\ pc[c] \in StoppingWake \cup {"unlock"} /\ op[c] = "stop" =>
         \/ res[c] = "failed" /\ (mine[c] # 0 => ~recording)
         \/ /\ res[c] = "ok" /\ mine[c] # 0 /\ ~recording
            /\ file = mine[c] /\ content = "usable" /\ capture[mine[c]] = "exited"

Inside ==
    operation # NoCaller =>
        MethodAt(operation) /\ ProcessAt(operation) /\ ResultAt(operation)

\* The call that holds the lock is still going to stop pw-record, or mpv.
WillStopCapture(c) ==
    \/ pc[c] \in {"discard", "interrupt", "wait"}
    \/ pc[c] \in StoppingWake /\ op[c] = "start"

WillStopWake(c) == pc[c] \in {"stop_wake", "wake_wait"} \cup (Stopping \ {"stop"})

\* A process that runs is in a field, or in the hands of a call that will stop it.
Accounted ==
    /\ recording => process = take /\ file \in {0, take}
    /\ \A t \in Take :
         /\ capture[t] = "running" =>
              \/ recording /\ process = t
              \/ /\ operation # NoCaller /\ mine[operation] = t
                 /\ WillStopCapture(operation)
         /\ wake[t] = "running" =>
              \/ recording /\ wakeProcess = t
              \/ operation # NoCaller /\ held[operation] = t /\ WillStopWake(operation)

IInv == CallTypes /\ FieldTypes /\ DeviceTypes /\ Locked /\ Inside /\ Accounted

-----------------------------------------------------------------------------

\* The names that the actions use are names of points, results and contents.
LEMMA Names ==
    /\ "out" \in Point /\ "unlock" \in Point /\ "start" \in Point
    /\ "prepare" \in Point /\ "spawn" \in Point /\ "frames" \in Point
    /\ "resolve" \in Point /\ "mpv" \in Point /\ "headstart" \in Point
    /\ "undo" \in Point /\ "discard" \in Point /\ "discarded" \in Point
    /\ "stop" \in Point /\ "interrupt" \in Point /\ "wait" \in Point
    /\ "killed" \in Point /\ "cancelled" \in Point /\ "check" \in Point
    /\ "stop_wake" \in Point /\ "wake_wait" \in Point /\ "wake_killed" \in Point
    /\ "none" \in Result /\ "ok" \in Result /\ "failed" \in Result
    /\ "running" \in Process /\ "killed" \in Process /\ "exited" \in Process
    /\ "short" \in Content /\ "broken" \in Content /\ "usable" \in Content
    /\ "root" \in Context /\ 0 \in 0..MaxTakes /\ NoCaller \notin Caller
BY MaxTakesAssumption, NoCallerAssumption DEF Point, Result, Process, Content, Context

\* What Kill does: no process runs on that it was meant for, and it touches no other.
LEMMA KillDoes ==
  ASSUME NEW f \in [Take -> Process], NEW t \in Take
  PROVE  /\ Kill(f, t) \in [Take -> Process]
         /\ Kill(f, t)[t] # "running"
         /\ f[t] = "exited" => Kill(f, t)[t] = "exited"
         /\ \A u \in Take : u # t => Kill(f, t)[u] = f[u]
BY DEF Kill, Process

\* What still runs after a Kill ran before, and was not what it was meant for.
LEMMA KillStops ==
  ASSUME NEW f \in [Take -> Process], NEW t \in Take, NEW u \in Take,
         Kill(f, t)[u] = "running"
  PROVE  u # t /\ f[u] = "running"
BY DEF Kill, Process

\* Whoever is inside a call holds the lock, and knows what the invariant says.
LEMMA HolderKnows ==
  ASSUME IInv, NEW c \in Caller, pc[c] # "out"
  PROVE  operation = c /\ MethodAt(c) /\ ProcessAt(c) /\ ResultAt(c)
BY NoCallerAssumption DEF IInv, Locked, Inside

\* Whose process a pw-record is that runs.
LEMMA RunsForSomebody ==
  ASSUME IInv, NEW t \in Take, capture[t] = "running"
  PROVE  \/ recording /\ process = t
         \/ /\ operation # NoCaller /\ mine[operation] = t
            /\ pc[operation] \in {"discard", "interrupt", "wait"} \cup StoppingWake
BY DEF IInv, Accounted, WillStopCapture

\* The types of what the callers know.
LEMMA CallTypesInductive ==
  CallTypes /\ FieldTypes /\ DeviceTypes /\ [Next]_vars => CallTypes'
<1> SUFFICES ASSUME CallTypes, FieldTypes, DeviceTypes, [Next]_vars PROVE CallTypes'
  OBVIOUS
<1> USE DEF CallTypes, FieldTypes, Goto, Config, fieldVars, fileVars, procVars, callVars
<1>1. ASSUME NEW c \in Caller, Unlock(c) PROVE CallTypes'
  BY <1>1, Names DEF Unlock, Forget
<1>2. ASSUME NEW c \in Caller, StartChecks(c) PROVE CallTypes'
  BY <1>2, Names DEF StartChecks, Return
<1>3. ASSUME NEW c \in Caller, RemoveOldFile(c) PROVE CallTypes'
  BY <1>3, Names DEF RemoveOldFile, Return
<1>4. ASSUME NEW c \in Caller, Spawn(c) PROVE CallTypes'
  BY <1>4, Names, MaxTakesAssumption DEF Spawn, Return, DeviceTypes
<1>5. ASSUME NEW c \in Caller, SpawnFails(c) PROVE CallTypes'
  BY <1>5, Names DEF SpawnFails, Return
<1>6. ASSUME NEW c \in Caller, WaitForAudioFrames(c) PROVE CallTypes'
  BY <1>6, Names DEF WaitForAudioFrames, Return, WakeUnchanged
<1>7. ASSUME NEW c \in Caller, ResolveVideo(c) PROVE CallTypes'
  BY <1>7, Names DEF ResolveVideo, Return, WakeUnchanged
<1>8. ASSUME NEW c \in Caller, StartWake(c) PROVE CallTypes'
  BY <1>8, Names DEF StartWake, Return, WakeUnchanged
<1>9. ASSUME NEW c \in Caller, HeadStart(c) PROVE CallTypes'
  BY <1>9, Names DEF HeadStart, Return, WakeUnchanged
<1>10. ASSUME NEW c \in Caller, Undo(c) PROVE CallTypes'
  BY <1>10, Names DEF Undo
<1>11. ASSUME NEW c \in Caller, Discard(c) PROVE CallTypes'
  BY <1>11, Names DEF Discard
<1>12. ASSUME NEW c \in Caller, Discarded(c) PROVE CallTypes'
  BY <1>12, Names DEF Discarded
<1>13. ASSUME NEW c \in Caller, StopWake(c) PROVE CallTypes'
  BY <1>13, Names DEF StopWake, StopWakeUnchanged
<1>14. ASSUME NEW c \in Caller, WakeTimesOut(c) PROVE CallTypes'
  BY <1>14, Names DEF WakeTimesOut, StopWakeUnchanged
<1>15. ASSUME NEW c \in Caller, WakeStopped(c) PROVE CallTypes'
  BY <1>15, Names DEF WakeStopped, AfterWake, StopWakeUnchanged
<1>16. ASSUME NEW c \in Caller, StopTakesProcess(c) PROVE CallTypes'
  BY <1>16, Names DEF StopTakesProcess, Return
<1>17. ASSUME NEW c \in Caller, Interrupt(c) PROVE CallTypes'
  BY <1>17, Names DEF Interrupt, KillOrFail, StopReturns, Return, StopUnchanged
<1>18. ASSUME NEW c \in Caller, ProcessWaited(c) PROVE CallTypes'
  BY <1>18, Names DEF ProcessWaited, StopUnchanged
<1>19. ASSUME NEW c \in Caller, StopTimesOut(c) PROVE CallTypes'
  BY <1>19, Names DEF StopTimesOut, KillOrFail, StopReturns, Return, StopUnchanged
<1>20. ASSUME NEW c \in Caller, StopCancelled(c) PROVE CallTypes'
  BY <1>20, Names DEF StopCancelled, StopUnchanged
<1>21. ASSUME NEW c \in Caller, CleanupEnds(c) PROVE CallTypes'
  BY <1>21, Names DEF CleanupEnds, StopReturns, Return, StopUnchanged
<1>22. ASSUME NEW c \in Caller, Check(c) PROVE CallTypes'
  BY <1>22, Names DEF Check, StopReturns, Return, Usable, StopUnchanged
<1>23. ASSUME NEW t \in Take, ProcessOpensFile(t) PROVE CallTypes'
  BY <1>23, Names DEF ProcessOpensFile
<1>24. ASSUME NEW t \in Take, ProcessWrites(t) PROVE CallTypes'
  BY <1>24, Names DEF ProcessWrites
<1>25. ASSUME NEW t \in Take, CaptureExits(t) PROVE CallTypes'
  BY <1>25, Names DEF CaptureExits
<1>26. ASSUME NEW t \in Take, WakeExits(t) PROVE CallTypes'
  BY <1>26, Names DEF WakeExits
<1>27. ASSUME NEW t \in Take, KillByContext(t) PROVE CallTypes'
  BY <1>27, Names DEF KillByContext
<1>28. ASSUME NEW x \in Context, EndContext(x) PROVE CallTypes'
  BY <1>28, Names DEF EndContext
<1>29. CASE RecordingRemoved
  BY <1>29, Names DEF RecordingRemoved
<1>30. ASSUME NEW c \in Caller, NEW method \in {"start", "stop"}, NEW x \in Context,
              Call(c, method, x)
       PROVE  CallTypes'
  BY <1>30, Names DEF Call, Enter
<1>31. CASE UNCHANGED vars
  BY <1>31 DEF vars, Inside
<1>32. QED
  BY <1>1, <1>2, <1>3, <1>4, <1>5, <1>6, <1>7, <1>8, <1>9, <1>10, <1>11, <1>12,
     <1>13, <1>14, <1>15, <1>16, <1>17, <1>18, <1>19, <1>20, <1>21, <1>22, <1>23,
     <1>24, <1>25, <1>26, <1>27, <1>28, <1>29, <1>30, <1>31 DEF Next, Step,
     Environment

\* The types of the fields, which are set and cleared together.
LEMMA FieldTypesInductive == IInv /\ [Next]_vars => FieldTypes'
<1> SUFFICES ASSUME IInv, [Next]_vars PROVE FieldTypes'
  OBVIOUS
<1> USE DEF IInv, FieldTypes, Goto, Config, fieldVars, fileVars, procVars, callVars
<1>1. ASSUME NEW c \in Caller, Unlock(c) PROVE FieldTypes'
  BY <1>1, Names DEF Unlock, Forget
<1>2. ASSUME NEW c \in Caller, StartChecks(c) PROVE FieldTypes'
  BY <1>2, Names DEF StartChecks, Return
<1>3. ASSUME NEW c \in Caller, RemoveOldFile(c) PROVE FieldTypes'
  BY <1>3, Names DEF RemoveOldFile, Return
<1>4. ASSUME NEW c \in Caller, Spawn(c) PROVE FieldTypes'
  BY <1>4, Names, MaxTakesAssumption
     DEF Spawn, Return, IInv, DeviceTypes, Inside, ProcessAt, Locked
<1>5. ASSUME NEW c \in Caller, SpawnFails(c) PROVE FieldTypes'
  BY <1>5, Names DEF SpawnFails, Return
<1>6. ASSUME NEW c \in Caller, WaitForAudioFrames(c) PROVE FieldTypes'
  BY <1>6, Names DEF WaitForAudioFrames, Return, WakeUnchanged
<1>7. ASSUME NEW c \in Caller, ResolveVideo(c) PROVE FieldTypes'
  BY <1>7, Names DEF ResolveVideo, Return, WakeUnchanged
<1>8. ASSUME NEW c \in Caller, StartWake(c) PROVE FieldTypes'
  BY <1>8, Names
     DEF StartWake, Return, WakeUnchanged, IInv, CallTypes, Inside, ProcessAt,
         Locked
<1>9. ASSUME NEW c \in Caller, HeadStart(c) PROVE FieldTypes'
  BY <1>9, Names DEF HeadStart, Return, WakeUnchanged
<1>10. ASSUME NEW c \in Caller, Undo(c) PROVE FieldTypes'
  BY <1>10, Names DEF Undo
<1>11. ASSUME NEW c \in Caller, Discard(c) PROVE FieldTypes'
  BY <1>11, Names DEF Discard
<1>12. ASSUME NEW c \in Caller, Discarded(c) PROVE FieldTypes'
  BY <1>12, Names DEF Discarded
<1>13. ASSUME NEW c \in Caller, StopWake(c) PROVE FieldTypes'
  BY <1>13, Names DEF StopWake, StopWakeUnchanged
<1>14. ASSUME NEW c \in Caller, WakeTimesOut(c) PROVE FieldTypes'
  BY <1>14, Names DEF WakeTimesOut, StopWakeUnchanged
<1>15. ASSUME NEW c \in Caller, WakeStopped(c) PROVE FieldTypes'
  BY <1>15, Names DEF WakeStopped, AfterWake, StopWakeUnchanged
<1>16. ASSUME NEW c \in Caller, StopTakesProcess(c) PROVE FieldTypes'
  BY <1>16, Names DEF StopTakesProcess, Return
<1>17. ASSUME NEW c \in Caller, Interrupt(c) PROVE FieldTypes'
  BY <1>17, Names DEF Interrupt, KillOrFail, StopReturns, Return, StopUnchanged
<1>18. ASSUME NEW c \in Caller, ProcessWaited(c) PROVE FieldTypes'
  BY <1>18, Names DEF ProcessWaited, StopUnchanged
<1>19. ASSUME NEW c \in Caller, StopTimesOut(c) PROVE FieldTypes'
  BY <1>19, Names DEF StopTimesOut, KillOrFail, StopReturns, Return, StopUnchanged
<1>20. ASSUME NEW c \in Caller, StopCancelled(c) PROVE FieldTypes'
  BY <1>20, Names DEF StopCancelled, StopUnchanged
<1>21. ASSUME NEW c \in Caller, CleanupEnds(c) PROVE FieldTypes'
  BY <1>21, Names DEF CleanupEnds, StopReturns, Return, StopUnchanged
<1>22. ASSUME NEW c \in Caller, Check(c) PROVE FieldTypes'
  BY <1>22, Names DEF Check, StopReturns, Return, Usable, StopUnchanged
<1>23. ASSUME NEW t \in Take, ProcessOpensFile(t) PROVE FieldTypes'
  BY <1>23, Names DEF ProcessOpensFile
<1>24. ASSUME NEW t \in Take, ProcessWrites(t) PROVE FieldTypes'
  BY <1>24, Names DEF ProcessWrites
<1>25. ASSUME NEW t \in Take, CaptureExits(t) PROVE FieldTypes'
  BY <1>25, Names DEF CaptureExits
<1>26. ASSUME NEW t \in Take, WakeExits(t) PROVE FieldTypes'
  BY <1>26, Names DEF WakeExits
<1>27. ASSUME NEW t \in Take, KillByContext(t) PROVE FieldTypes'
  BY <1>27, Names DEF KillByContext
<1>28. ASSUME NEW x \in Context, EndContext(x) PROVE FieldTypes'
  BY <1>28, Names DEF EndContext
<1>29. CASE RecordingRemoved
  BY <1>29, Names DEF RecordingRemoved
<1>30. ASSUME NEW c \in Caller, NEW method \in {"start", "stop"}, NEW x \in Context,
              Call(c, method, x)
       PROVE  FieldTypes'
  BY <1>30, Names DEF Call, Enter
<1>31. CASE UNCHANGED vars
  BY <1>31 DEF vars, Inside
<1>32. QED
  BY <1>1, <1>2, <1>3, <1>4, <1>5, <1>6, <1>7, <1>8, <1>9, <1>10, <1>11, <1>12,
     <1>13, <1>14, <1>15, <1>16, <1>17, <1>18, <1>19, <1>20, <1>21, <1>22, <1>23,
     <1>24, <1>25, <1>26, <1>27, <1>28, <1>29, <1>30, <1>31 DEF Next, Step,
     Environment

\* The types of the processes, the file and the environment.
LEMMA DeviceTypesInductive == IInv /\ [Next]_vars => DeviceTypes'
<1> SUFFICES ASSUME IInv, [Next]_vars PROVE DeviceTypes'
  OBVIOUS
<1> USE DEF IInv, CallTypes, FieldTypes, DeviceTypes, Goto, Config, fieldVars,
            fileVars, procVars, callVars
<1>1. ASSUME NEW c \in Caller, Unlock(c) PROVE DeviceTypes'
  BY <1>1, Names, MaxTakesAssumption DEF Unlock, Forget
<1>2. ASSUME NEW c \in Caller, StartChecks(c) PROVE DeviceTypes'
  BY <1>2, Names, MaxTakesAssumption DEF StartChecks, Return
<1>3. ASSUME NEW c \in Caller, RemoveOldFile(c) PROVE DeviceTypes'
  BY <1>3, Names, MaxTakesAssumption DEF RemoveOldFile, Return
<1>4. ASSUME NEW c \in Caller, Spawn(c) PROVE DeviceTypes'
  <2>1. take' \in 0..MaxTakes
    BY <1>4, MaxTakesAssumption DEF Spawn
  <2>2. capture' \in [Take -> Process]
    BY <1>4, Names DEF Spawn
  <2>3. UNCHANGED <<Config, wake, fileVars, ended>>
    BY <1>4 DEF Spawn
  <2>4. QED
    BY <2>1, <2>2, <2>3
<1>5. ASSUME NEW c \in Caller, SpawnFails(c) PROVE DeviceTypes'
  BY <1>5, Names, MaxTakesAssumption DEF SpawnFails, Return
<1>6. ASSUME NEW c \in Caller, WaitForAudioFrames(c) PROVE DeviceTypes'
  BY <1>6, Names, MaxTakesAssumption DEF WaitForAudioFrames, Return, WakeUnchanged
<1>7. ASSUME NEW c \in Caller, ResolveVideo(c) PROVE DeviceTypes'
  BY <1>7, Names, MaxTakesAssumption DEF ResolveVideo, Return, WakeUnchanged
<1>8. ASSUME NEW c \in Caller, StartWake(c) PROVE DeviceTypes'
  BY <1>8, Names, MaxTakesAssumption DEF StartWake, Return, WakeUnchanged
<1>9. ASSUME NEW c \in Caller, HeadStart(c) PROVE DeviceTypes'
  BY <1>9, Names, MaxTakesAssumption DEF HeadStart, Return, WakeUnchanged
<1>10. ASSUME NEW c \in Caller, Undo(c) PROVE DeviceTypes'
  BY <1>10, Names, MaxTakesAssumption DEF Undo
<1>11. ASSUME NEW c \in Caller, Discard(c) PROVE DeviceTypes'
  <2>1. operation = c /\ mine[c] \in Take
    BY <1>11, HolderKnows DEF Discard, ProcessAt, Take, Stopping, StoppingWake
  <2>2. capture' = capture \/ capture' = Kill(capture, mine[c])
    BY <1>11 DEF Discard
  <2>3. UNCHANGED <<Config, take, wake, fileVars, ended>>
    BY <1>11 DEF Discard
  <2>4. QED
    BY <2>1, <2>2, <2>3, KillDoes
<1>12. ASSUME NEW c \in Caller, Discarded(c) PROVE DeviceTypes'
  BY <1>12, Names, MaxTakesAssumption DEF Discarded
<1>13. ASSUME NEW c \in Caller, StopWake(c) PROVE DeviceTypes'
  <2>1. operation = c /\ held[c] \in Take
    BY <1>13, HolderKnows DEF StopWake, ProcessAt, Take, Stopping, StoppingWake
  <2>2. wake' = wake \/ wake' = Kill(wake, held[c])
    BY <1>13 DEF StopWake
  <2>3. UNCHANGED <<Config, take, capture, fileVars, ended>>
    BY <1>13 DEF StopWake, StopWakeUnchanged
  <2>4. QED
    BY <2>1, <2>2, <2>3, KillDoes
<1>14. ASSUME NEW c \in Caller, WakeTimesOut(c) PROVE DeviceTypes'
  <2>1. operation = c /\ held[c] \in Take
    BY <1>14, HolderKnows DEF WakeTimesOut, ProcessAt, Take, Stopping, StoppingWake
  <2>2. wake' = wake \/ wake' = Kill(wake, held[c])
    BY <1>14 DEF WakeTimesOut
  <2>3. UNCHANGED <<Config, take, capture, fileVars, ended>>
    BY <1>14 DEF WakeTimesOut, StopWakeUnchanged
  <2>4. QED
    BY <2>1, <2>2, <2>3, KillDoes
<1>15. ASSUME NEW c \in Caller, WakeStopped(c) PROVE DeviceTypes'
  BY <1>15, Names, MaxTakesAssumption DEF WakeStopped, AfterWake, StopWakeUnchanged
<1>16. ASSUME NEW c \in Caller, StopTakesProcess(c) PROVE DeviceTypes'
  BY <1>16, Names, MaxTakesAssumption DEF StopTakesProcess, Return
<1>17. ASSUME NEW c \in Caller, Interrupt(c) PROVE DeviceTypes'
  <2>1. operation = c /\ mine[c] \in Take
    BY <1>17, HolderKnows DEF Interrupt, ProcessAt, Take, Stopping, StoppingWake
  <2>2. capture' = capture \/ capture' = Kill(capture, mine[c])
    BY <1>17 DEF Interrupt, KillOrFail, StopReturns, Return, StopUnchanged
  <2>3. UNCHANGED <<Config, take, wake, fileVars, ended>>
    BY <1>17 DEF Interrupt, KillOrFail, StopReturns, Return, StopUnchanged
  <2>4. QED
    BY <2>1, <2>2, <2>3, KillDoes
<1>18. ASSUME NEW c \in Caller, ProcessWaited(c) PROVE DeviceTypes'
  BY <1>18, Names, MaxTakesAssumption DEF ProcessWaited, StopUnchanged
<1>19. ASSUME NEW c \in Caller, StopTimesOut(c) PROVE DeviceTypes'
  <2>1. operation = c /\ mine[c] \in Take
    BY <1>19, HolderKnows DEF StopTimesOut, ProcessAt, Take, Stopping, StoppingWake
  <2>2. capture' = capture \/ capture' = Kill(capture, mine[c])
    BY <1>19 DEF StopTimesOut, KillOrFail, StopReturns, Return, StopUnchanged
  <2>3. UNCHANGED <<Config, take, wake, fileVars, ended>>
    BY <1>19 DEF StopTimesOut, KillOrFail, StopReturns, Return, StopUnchanged
  <2>4. QED
    BY <2>1, <2>2, <2>3, KillDoes
<1>20. ASSUME NEW c \in Caller, StopCancelled(c) PROVE DeviceTypes'
  <2>1. operation = c /\ mine[c] \in Take
    BY <1>20, HolderKnows DEF StopCancelled, ProcessAt, Take, Stopping, StoppingWake
  <2>2. capture' = capture \/ capture' = Kill(capture, mine[c])
    BY <1>20 DEF StopCancelled, StopUnchanged
  <2>3. UNCHANGED <<Config, take, wake, fileVars, ended>>
    BY <1>20 DEF StopCancelled, StopUnchanged
  <2>4. QED
    BY <2>1, <2>2, <2>3, KillDoes
<1>21. ASSUME NEW c \in Caller, CleanupEnds(c) PROVE DeviceTypes'
  BY <1>21, Names, MaxTakesAssumption
     DEF CleanupEnds, StopReturns, Return, StopUnchanged
<1>22. ASSUME NEW c \in Caller, Check(c) PROVE DeviceTypes'
  BY <1>22, Names, MaxTakesAssumption
     DEF Check, StopReturns, Return, Usable, StopUnchanged
<1>23. ASSUME NEW t \in Take, ProcessOpensFile(t) PROVE DeviceTypes'
  <2>1. file' \in 0..MaxTakes /\ content' \in Content
    BY <1>23, Names, MaxTakesAssumption DEF ProcessOpensFile, Take
  <2>2. UNCHANGED <<Config, procVars, ended>>
    BY <1>23 DEF ProcessOpensFile
  <2>3. QED
    BY <2>1, <2>2
<1>24. ASSUME NEW t \in Take, ProcessWrites(t) PROVE DeviceTypes'
  BY <1>24, Names, MaxTakesAssumption DEF ProcessWrites
<1>25. ASSUME NEW t \in Take, CaptureExits(t) PROVE DeviceTypes'
  BY <1>25, Names, MaxTakesAssumption DEF CaptureExits
<1>26. ASSUME NEW t \in Take, WakeExits(t) PROVE DeviceTypes'
  BY <1>26, Names, MaxTakesAssumption DEF WakeExits
<1>27. ASSUME NEW t \in Take, KillByContext(t) PROVE DeviceTypes'
  BY <1>27, Names, MaxTakesAssumption DEF KillByContext
<1>28. ASSUME NEW x \in Context, EndContext(x) PROVE DeviceTypes'
  BY <1>28, Names, MaxTakesAssumption DEF EndContext
<1>29. CASE RecordingRemoved
  BY <1>29, Names, MaxTakesAssumption DEF RecordingRemoved
<1>30. ASSUME NEW c \in Caller, NEW method \in {"start", "stop"}, NEW x \in Context,
              Call(c, method, x)
       PROVE  DeviceTypes'
  BY <1>30, Names, MaxTakesAssumption DEF Call, Enter
<1>31. CASE UNCHANGED vars
  BY <1>31 DEF vars, Inside
<1>32. QED
  BY <1>1, <1>2, <1>3, <1>4, <1>5, <1>6, <1>7, <1>8, <1>9, <1>10, <1>11, <1>12,
     <1>13, <1>14, <1>15, <1>16, <1>17, <1>18, <1>19, <1>20, <1>21, <1>22, <1>23,
     <1>24, <1>25, <1>26, <1>27, <1>28, <1>29, <1>30, <1>31 DEF Next, Step,
     Environment

\* Locked is kept by every step.
LEMMA LockedInductive == IInv /\ [Next]_vars => Locked'
<1> SUFFICES ASSUME IInv, [Next]_vars PROVE Locked'
  OBVIOUS
<1> USE DEF IInv, CallTypes, FieldTypes, Locked, Goto, Config, fieldVars, fileVars,
            procVars, callVars
<1>1. ASSUME NEW c \in Caller, Unlock(c) PROVE Locked'
  BY <1>1, Names DEF Unlock, Forget
<1>2. ASSUME NEW c \in Caller, StartChecks(c) PROVE Locked'
  BY <1>2, Names DEF StartChecks, Return
<1>3. ASSUME NEW c \in Caller, RemoveOldFile(c) PROVE Locked'
  BY <1>3, Names DEF RemoveOldFile, Return
<1>4. ASSUME NEW c \in Caller, Spawn(c) PROVE Locked'
  BY <1>4, Names DEF Spawn, Return
<1>5. ASSUME NEW c \in Caller, SpawnFails(c) PROVE Locked'
  BY <1>5, Names DEF SpawnFails, Return
<1>6. ASSUME NEW c \in Caller, WaitForAudioFrames(c) PROVE Locked'
  BY <1>6, Names DEF WaitForAudioFrames, Return, WakeUnchanged
<1>7. ASSUME NEW c \in Caller, ResolveVideo(c) PROVE Locked'
  BY <1>7, Names DEF ResolveVideo, Return, WakeUnchanged
<1>8. ASSUME NEW c \in Caller, StartWake(c) PROVE Locked'
  BY <1>8, Names DEF StartWake, Return, WakeUnchanged
<1>9. ASSUME NEW c \in Caller, HeadStart(c) PROVE Locked'
  BY <1>9, Names DEF HeadStart, Return, WakeUnchanged
<1>10. ASSUME NEW c \in Caller, Undo(c) PROVE Locked'
  BY <1>10, Names DEF Undo
<1>11. ASSUME NEW c \in Caller, Discard(c) PROVE Locked'
  BY <1>11, Names DEF Discard
<1>12. ASSUME NEW c \in Caller, Discarded(c) PROVE Locked'
  BY <1>12, Names DEF Discarded
<1>13. ASSUME NEW c \in Caller, StopWake(c) PROVE Locked'
  BY <1>13, Names DEF StopWake, StopWakeUnchanged
<1>14. ASSUME NEW c \in Caller, WakeTimesOut(c) PROVE Locked'
  BY <1>14, Names DEF WakeTimesOut, StopWakeUnchanged
<1>15. ASSUME NEW c \in Caller, WakeStopped(c) PROVE Locked'
  BY <1>15, Names DEF WakeStopped, AfterWake, StopWakeUnchanged
<1>16. ASSUME NEW c \in Caller, StopTakesProcess(c) PROVE Locked'
  BY <1>16, Names DEF StopTakesProcess, Return
<1>17. ASSUME NEW c \in Caller, Interrupt(c) PROVE Locked'
  BY <1>17, Names DEF Interrupt, KillOrFail, StopReturns, Return, StopUnchanged
<1>18. ASSUME NEW c \in Caller, ProcessWaited(c) PROVE Locked'
  BY <1>18, Names DEF ProcessWaited, StopUnchanged
<1>19. ASSUME NEW c \in Caller, StopTimesOut(c) PROVE Locked'
  BY <1>19, Names DEF StopTimesOut, KillOrFail, StopReturns, Return, StopUnchanged
<1>20. ASSUME NEW c \in Caller, StopCancelled(c) PROVE Locked'
  BY <1>20, Names DEF StopCancelled, StopUnchanged
<1>21. ASSUME NEW c \in Caller, CleanupEnds(c) PROVE Locked'
  BY <1>21, Names DEF CleanupEnds, StopReturns, Return, StopUnchanged
<1>22. ASSUME NEW c \in Caller, Check(c) PROVE Locked'
  BY <1>22, Names DEF Check, StopReturns, Return, Usable, StopUnchanged
<1>23. ASSUME NEW t \in Take, ProcessOpensFile(t) PROVE Locked'
  BY <1>23, Names DEF ProcessOpensFile
<1>24. ASSUME NEW t \in Take, ProcessWrites(t) PROVE Locked'
  BY <1>24, Names DEF ProcessWrites
<1>25. ASSUME NEW t \in Take, CaptureExits(t) PROVE Locked'
  BY <1>25, Names DEF CaptureExits
<1>26. ASSUME NEW t \in Take, WakeExits(t) PROVE Locked'
  BY <1>26, Names DEF WakeExits
<1>27. ASSUME NEW t \in Take, KillByContext(t) PROVE Locked'
  BY <1>27, Names DEF KillByContext
<1>28. ASSUME NEW x \in Context, EndContext(x) PROVE Locked'
  BY <1>28, Names DEF EndContext
<1>29. CASE RecordingRemoved
  BY <1>29, Names DEF RecordingRemoved
<1>30. ASSUME NEW c \in Caller, NEW method \in {"start", "stop"}, NEW x \in Context,
              Call(c, method, x)
       PROVE  Locked'
  BY <1>30, Names DEF Call, Enter
<1>31. CASE UNCHANGED vars
  BY <1>31 DEF vars, Inside
<1>32. QED
  BY <1>1, <1>2, <1>3, <1>4, <1>5, <1>6, <1>7, <1>8, <1>9, <1>10, <1>11, <1>12,
     <1>13, <1>14, <1>15, <1>16, <1>17, <1>18, <1>19, <1>20, <1>21, <1>22, <1>23,
     <1>24, <1>25, <1>26, <1>27, <1>28, <1>29, <1>30, <1>31 DEF Next, Step,
     Environment

\* Whoever holds the lock runs the method of its point.
LEMMA MethodAtInductive ==
  IInv /\ [Next]_vars => (operation # NoCaller => MethodAt(operation))'
<1> SUFFICES ASSUME IInv, [Next]_vars
             PROVE  (operation # NoCaller => MethodAt(operation))'
  OBVIOUS
<1> USE DEF IInv, CallTypes, FieldTypes, MethodAt, Starting, Stopping, StoppingWake,
            Goto, Config, fieldVars, fileVars, procVars, callVars
<1>1. ASSUME NEW c \in Caller, Unlock(c)
      PROVE  (operation # NoCaller => MethodAt(operation))'
  BY <1>1, Names, HolderKnows DEF Unlock, Forget
<1>2. ASSUME NEW c \in Caller, StartChecks(c)
      PROVE  (operation # NoCaller => MethodAt(operation))'
  BY <1>2, Names, HolderKnows DEF StartChecks, Return
<1>3. ASSUME NEW c \in Caller, RemoveOldFile(c)
      PROVE  (operation # NoCaller => MethodAt(operation))'
  BY <1>3, Names, HolderKnows DEF RemoveOldFile, Return
<1>4. ASSUME NEW c \in Caller, Spawn(c)
      PROVE  (operation # NoCaller => MethodAt(operation))'
  BY <1>4, Names, HolderKnows DEF Spawn, Return
<1>5. ASSUME NEW c \in Caller, SpawnFails(c)
      PROVE  (operation # NoCaller => MethodAt(operation))'
  BY <1>5, Names, HolderKnows DEF SpawnFails, Return
<1>6. ASSUME NEW c \in Caller, WaitForAudioFrames(c)
      PROVE  (operation # NoCaller => MethodAt(operation))'
  BY <1>6, Names, HolderKnows DEF WaitForAudioFrames, Return, WakeUnchanged
<1>7. ASSUME NEW c \in Caller, ResolveVideo(c)
      PROVE  (operation # NoCaller => MethodAt(operation))'
  BY <1>7, Names, HolderKnows DEF ResolveVideo, Return, WakeUnchanged
<1>8. ASSUME NEW c \in Caller, StartWake(c)
      PROVE  (operation # NoCaller => MethodAt(operation))'
  BY <1>8, Names, HolderKnows DEF StartWake, Return, WakeUnchanged
<1>9. ASSUME NEW c \in Caller, HeadStart(c)
      PROVE  (operation # NoCaller => MethodAt(operation))'
  BY <1>9, Names, HolderKnows DEF HeadStart, Return, WakeUnchanged
<1>10. ASSUME NEW c \in Caller, Undo(c)
       PROVE  (operation # NoCaller => MethodAt(operation))'
  BY <1>10, Names, HolderKnows DEF Undo
<1>11. ASSUME NEW c \in Caller, Discard(c)
       PROVE  (operation # NoCaller => MethodAt(operation))'
  BY <1>11, Names, HolderKnows DEF Discard
<1>12. ASSUME NEW c \in Caller, Discarded(c)
       PROVE  (operation # NoCaller => MethodAt(operation))'
  BY <1>12, Names, HolderKnows DEF Discarded
<1>13. ASSUME NEW c \in Caller, StopWake(c)
       PROVE  (operation # NoCaller => MethodAt(operation))'
  BY <1>13, Names, HolderKnows DEF StopWake, StopWakeUnchanged
<1>14. ASSUME NEW c \in Caller, WakeTimesOut(c)
       PROVE  (operation # NoCaller => MethodAt(operation))'
  BY <1>14, Names, HolderKnows DEF WakeTimesOut, StopWakeUnchanged
<1>15. ASSUME NEW c \in Caller, WakeStopped(c)
       PROVE  (operation # NoCaller => MethodAt(operation))'
  BY <1>15, Names, HolderKnows DEF WakeStopped, AfterWake, StopWakeUnchanged
<1>16. ASSUME NEW c \in Caller, StopTakesProcess(c)
       PROVE  (operation # NoCaller => MethodAt(operation))'
  BY <1>16, Names, HolderKnows DEF StopTakesProcess, Return
<1>17. ASSUME NEW c \in Caller, Interrupt(c)
       PROVE  (operation # NoCaller => MethodAt(operation))'
  BY <1>17, Names, HolderKnows
     DEF Interrupt, KillOrFail, StopReturns, Return, StopUnchanged
<1>18. ASSUME NEW c \in Caller, ProcessWaited(c)
       PROVE  (operation # NoCaller => MethodAt(operation))'
  BY <1>18, Names, HolderKnows DEF ProcessWaited, StopUnchanged
<1>19. ASSUME NEW c \in Caller, StopTimesOut(c)
       PROVE  (operation # NoCaller => MethodAt(operation))'
  BY <1>19, Names, HolderKnows
     DEF StopTimesOut, KillOrFail, StopReturns, Return, StopUnchanged
<1>20. ASSUME NEW c \in Caller, StopCancelled(c)
       PROVE  (operation # NoCaller => MethodAt(operation))'
  BY <1>20, Names, HolderKnows DEF StopCancelled, StopUnchanged
<1>21. ASSUME NEW c \in Caller, CleanupEnds(c)
       PROVE  (operation # NoCaller => MethodAt(operation))'
  BY <1>21, Names, HolderKnows DEF CleanupEnds, StopReturns, Return, StopUnchanged
<1>22. ASSUME NEW c \in Caller, Check(c)
       PROVE  (operation # NoCaller => MethodAt(operation))'
  BY <1>22, Names, HolderKnows DEF Check, StopReturns, Return, Usable, StopUnchanged
<1>23. ASSUME NEW t \in Take, ProcessOpensFile(t)
       PROVE  (operation # NoCaller => MethodAt(operation))'
  BY <1>23, Names DEF ProcessOpensFile, Inside
<1>24. ASSUME NEW t \in Take, ProcessWrites(t)
       PROVE  (operation # NoCaller => MethodAt(operation))'
  BY <1>24, Names DEF ProcessWrites, Inside
<1>25. ASSUME NEW t \in Take, CaptureExits(t)
       PROVE  (operation # NoCaller => MethodAt(operation))'
  BY <1>25, Names DEF CaptureExits, Inside
<1>26. ASSUME NEW t \in Take, WakeExits(t)
       PROVE  (operation # NoCaller => MethodAt(operation))'
  BY <1>26, Names DEF WakeExits, Inside
<1>27. ASSUME NEW t \in Take, KillByContext(t)
       PROVE  (operation # NoCaller => MethodAt(operation))'
  BY <1>27, Names DEF KillByContext, Inside
<1>28. ASSUME NEW x \in Context, EndContext(x)
       PROVE  (operation # NoCaller => MethodAt(operation))'
  BY <1>28, Names DEF EndContext, Inside
<1>29. CASE RecordingRemoved
  BY <1>29, Names DEF RecordingRemoved, Inside
<1>30. ASSUME NEW c \in Caller, NEW method \in {"start", "stop"}, NEW x \in Context,
              Call(c, method, x)
       PROVE  (operation # NoCaller => MethodAt(operation))'
  BY <1>30, Names DEF Call, Enter, Inside
<1>31. CASE UNCHANGED vars
  BY <1>31 DEF vars, Inside
<1>32. QED
  BY <1>1, <1>2, <1>3, <1>4, <1>5, <1>6, <1>7, <1>8, <1>9, <1>10, <1>11, <1>12,
     <1>13, <1>14, <1>15, <1>16, <1>17, <1>18, <1>19, <1>20, <1>21, <1>22, <1>23,
     <1>24, <1>25, <1>26, <1>27, <1>28, <1>29, <1>30, <1>31 DEF Next, Step,
     Environment

\* What the holder of the lock knows of the processes.
LEMMA ProcessAtInductive ==
  IInv /\ [Next]_vars => (operation # NoCaller => ProcessAt(operation))'
<1> SUFFICES ASSUME IInv, [Next]_vars
             PROVE  (operation # NoCaller => ProcessAt(operation))'
  OBVIOUS
<1> USE DEF IInv, CallTypes, FieldTypes, DeviceTypes, ProcessAt, Starting, Stopping,
            StoppingWake, GivingUp, Goto, Config, fieldVars, fileVars, procVars,
            callVars
<1>1. ASSUME NEW c \in Caller, Unlock(c)
      PROVE  (operation # NoCaller => ProcessAt(operation))'
  BY <1>1, Names, HolderKnows DEF Unlock, Forget
<1>2. ASSUME NEW c \in Caller, StartChecks(c)
      PROVE  (operation # NoCaller => ProcessAt(operation))'
  BY <1>2, Names, HolderKnows DEF StartChecks, Return
<1>3. ASSUME NEW c \in Caller, RemoveOldFile(c)
      PROVE  (operation # NoCaller => ProcessAt(operation))'
  BY <1>3, Names, HolderKnows DEF RemoveOldFile, Return
<1>4. ASSUME NEW c \in Caller, Spawn(c)
      PROVE  (operation # NoCaller => ProcessAt(operation))'
  BY <1>4, Names, HolderKnows DEF Spawn, Return
<1>5. ASSUME NEW c \in Caller, SpawnFails(c)
      PROVE  (operation # NoCaller => ProcessAt(operation))'
  BY <1>5, Names, HolderKnows DEF SpawnFails, Return
<1>6. ASSUME NEW c \in Caller, WaitForAudioFrames(c)
      PROVE  (operation # NoCaller => ProcessAt(operation))'
  BY <1>6, Names, HolderKnows DEF WaitForAudioFrames, Return, WakeUnchanged
<1>7. ASSUME NEW c \in Caller, ResolveVideo(c)
      PROVE  (operation # NoCaller => ProcessAt(operation))'
  BY <1>7, Names, HolderKnows DEF ResolveVideo, Return, WakeUnchanged
<1>8. ASSUME NEW c \in Caller, StartWake(c)
      PROVE  (operation # NoCaller => ProcessAt(operation))'
  BY <1>8, Names, HolderKnows DEF StartWake, Return, WakeUnchanged
<1>9. ASSUME NEW c \in Caller, HeadStart(c)
      PROVE  (operation # NoCaller => ProcessAt(operation))'
  BY <1>9, Names, HolderKnows DEF HeadStart, Return, WakeUnchanged
<1>10. ASSUME NEW c \in Caller, Undo(c)
       PROVE  (operation # NoCaller => ProcessAt(operation))'
  BY <1>10, Names, HolderKnows DEF Undo
<1>11. ASSUME NEW c \in Caller, Discard(c)
       PROVE  (operation # NoCaller => ProcessAt(operation))'
  BY <1>11, Names, HolderKnows DEF Discard
<1>12. ASSUME NEW c \in Caller, Discarded(c)
       PROVE  (operation # NoCaller => ProcessAt(operation))'
  BY <1>12, Names, HolderKnows DEF Discarded
<1>13. ASSUME NEW c \in Caller, StopWake(c)
       PROVE  (operation # NoCaller => ProcessAt(operation))'
  BY <1>13, Names, HolderKnows DEF StopWake, StopWakeUnchanged
<1>14. ASSUME NEW c \in Caller, WakeTimesOut(c)
       PROVE  (operation # NoCaller => ProcessAt(operation))'
  BY <1>14, Names, HolderKnows DEF WakeTimesOut, StopWakeUnchanged
<1>15. ASSUME NEW c \in Caller, WakeStopped(c)
       PROVE  (operation # NoCaller => ProcessAt(operation))'
  BY <1>15, Names, HolderKnows DEF WakeStopped, AfterWake, StopWakeUnchanged
<1>16. ASSUME NEW c \in Caller, StopTakesProcess(c)
       PROVE  (operation # NoCaller => ProcessAt(operation))'
  <2>1. operation = c /\ pc[c] = "stop" /\ mine[c] = 0 /\ held[c] = 0
    BY <1>16, HolderKnows DEF StopTakesProcess
  <2>2. CASE ~recording \/ process = 0
    BY <1>16, <2>1, <2>2, HolderKnows DEF StopTakesProcess, Return
  <2>3. CASE recording /\ process # 0
    BY <1>16, <2>1, <2>3, HolderKnows DEF StopTakesProcess, Return, Accounted
  <2>4. QED
    BY <2>2, <2>3
<1>17. ASSUME NEW c \in Caller, Interrupt(c)
       PROVE  (operation # NoCaller => ProcessAt(operation))'
  BY <1>17, Names, HolderKnows
     DEF Interrupt, KillOrFail, StopReturns, Return, StopUnchanged
<1>18. ASSUME NEW c \in Caller, ProcessWaited(c)
       PROVE  (operation # NoCaller => ProcessAt(operation))'
  BY <1>18, Names, HolderKnows DEF ProcessWaited, StopUnchanged
<1>19. ASSUME NEW c \in Caller, StopTimesOut(c)
       PROVE  (operation # NoCaller => ProcessAt(operation))'
  BY <1>19, Names, HolderKnows
     DEF StopTimesOut, KillOrFail, StopReturns, Return, StopUnchanged
<1>20. ASSUME NEW c \in Caller, StopCancelled(c)
       PROVE  (operation # NoCaller => ProcessAt(operation))'
  BY <1>20, Names, HolderKnows DEF StopCancelled, StopUnchanged
<1>21. ASSUME NEW c \in Caller, CleanupEnds(c)
       PROVE  (operation # NoCaller => ProcessAt(operation))'
  BY <1>21, Names, HolderKnows DEF CleanupEnds, StopReturns, Return, StopUnchanged
<1>22. ASSUME NEW c \in Caller, Check(c)
       PROVE  (operation # NoCaller => ProcessAt(operation))'
  BY <1>22, Names, HolderKnows DEF Check, StopReturns, Return, Usable, StopUnchanged
<1>23. ASSUME NEW t \in Take, ProcessOpensFile(t)
       PROVE  (operation # NoCaller => ProcessAt(operation))'
  <2>1. UNCHANGED <<fieldVars, take, op, mine, held, pc, res>>
    BY <1>23 DEF ProcessOpensFile
  <2>2. ASSUME operation # NoCaller
        PROVE  /\ t \in {take, mine[operation]}
               /\ mine[operation] # 0 => t = mine[operation]
               /\ pc[operation] # "spawn"
    <3>1. ProcessAt(operation)
      BY <2>2 DEF Inside
    <3>2. \/ recording /\ process = t
          \/ /\ mine[operation] = t
             /\ pc[operation] \in {"discard", "interrupt", "wait"} \cup StoppingWake
      BY <1>23, RunsForSomebody DEF ProcessOpensFile
    <3>3. mine[operation] # 0 => t = mine[operation]
      BY <3>1, <3>2 DEF Accounted
    <3>4. t \in {take, mine[operation]} /\ pc[operation] # "spawn"
      BY <3>1, <3>2 DEF Accounted
    <3>5. QED
      BY <3>3, <3>4
  <2>3. QED
    BY <1>23, <2>1, <2>2 DEF ProcessOpensFile, Inside
<1>24. ASSUME NEW t \in Take, ProcessWrites(t)
       PROVE  (operation # NoCaller => ProcessAt(operation))'
  BY <1>24, Names DEF ProcessWrites, Inside
<1>25. ASSUME NEW t \in Take, CaptureExits(t)
       PROVE  (operation # NoCaller => ProcessAt(operation))'
  BY <1>25, Names DEF CaptureExits, Inside
<1>26. ASSUME NEW t \in Take, WakeExits(t)
       PROVE  (operation # NoCaller => ProcessAt(operation))'
  BY <1>26, Names DEF WakeExits, Inside
<1>27. ASSUME NEW t \in Take, KillByContext(t)
       PROVE  (operation # NoCaller => ProcessAt(operation))'
  <2>1. UNCHANGED <<fieldVars, take, op, mine, held, pc, res>>
    BY <1>27 DEF KillByContext
  <2>2. UNCHANGED fileVars
    BY <1>27 DEF KillByContext
  <2>3. \A u \in Take : capture[u] = "exited" => capture'[u] = "exited"
    BY <1>27 DEF KillByContext
  <2>4. QED
    BY <2>1, <2>2, <2>3 DEF Inside, Take
<1>28. ASSUME NEW x \in Context, EndContext(x)
       PROVE  (operation # NoCaller => ProcessAt(operation))'
  BY <1>28, Names DEF EndContext, Inside
<1>29. CASE RecordingRemoved
  BY <1>29, Names DEF RecordingRemoved, Inside
<1>30. ASSUME NEW c \in Caller, NEW method \in {"start", "stop"}, NEW x \in Context,
              Call(c, method, x)
       PROVE  (operation # NoCaller => ProcessAt(operation))'
  <2>1. operation' = c /\ pc'[c] = method /\ mine'[c] = 0 /\ held'[c] = 0
    BY <1>30 DEF Call, Enter, Locked
  <2>2. QED
    BY <2>1, NoCallerAssumption, MaxTakesAssumption
<1>31. CASE UNCHANGED vars
  BY <1>31 DEF vars, Inside
<1>32. QED
  BY <1>1, <1>2, <1>3, <1>4, <1>5, <1>6, <1>7, <1>8, <1>9, <1>10, <1>11, <1>12,
     <1>13, <1>14, <1>15, <1>16, <1>17, <1>18, <1>19, <1>20, <1>21, <1>22, <1>23,
     <1>24, <1>25, <1>26, <1>27, <1>28, <1>29, <1>30, <1>31 DEF Next, Step,
     Environment

\* What the holder of the lock is going to return.
LEMMA ResultAtInductive ==
  IInv /\ [Next]_vars => (operation # NoCaller => ResultAt(operation))'
<1> SUFFICES ASSUME IInv, [Next]_vars
             PROVE  (operation # NoCaller => ResultAt(operation))'
  OBVIOUS
<1> USE DEF IInv, CallTypes, FieldTypes, DeviceTypes, ResultAt, Starting, Stopping,
            StoppingWake, GivingUp, Goto, Config, fieldVars, fileVars, procVars,
            callVars
<1>1. ASSUME NEW c \in Caller, Unlock(c)
      PROVE  (operation # NoCaller => ResultAt(operation))'
  BY <1>1, Names, HolderKnows DEF Unlock, Forget, ProcessAt, MethodAt
<1>2. ASSUME NEW c \in Caller, StartChecks(c)
      PROVE  (operation # NoCaller => ResultAt(operation))'
  BY <1>2, Names, HolderKnows DEF StartChecks, Return, ProcessAt, MethodAt
<1>3. ASSUME NEW c \in Caller, RemoveOldFile(c)
      PROVE  (operation # NoCaller => ResultAt(operation))'
  BY <1>3, Names, HolderKnows DEF RemoveOldFile, Return, ProcessAt, MethodAt
<1>4. ASSUME NEW c \in Caller, Spawn(c)
      PROVE  (operation # NoCaller => ResultAt(operation))'
  BY <1>4, Names, HolderKnows DEF Spawn, Return, ProcessAt, MethodAt
<1>5. ASSUME NEW c \in Caller, SpawnFails(c)
      PROVE  (operation # NoCaller => ResultAt(operation))'
  BY <1>5, Names, HolderKnows DEF SpawnFails, Return, ProcessAt, MethodAt
<1>6. ASSUME NEW c \in Caller, WaitForAudioFrames(c)
      PROVE  (operation # NoCaller => ResultAt(operation))'
  BY <1>6, Names, HolderKnows
     DEF WaitForAudioFrames, Return, WakeUnchanged, ProcessAt, MethodAt
<1>7. ASSUME NEW c \in Caller, ResolveVideo(c)
      PROVE  (operation # NoCaller => ResultAt(operation))'
  BY <1>7, Names, HolderKnows
     DEF ResolveVideo, Return, WakeUnchanged, ProcessAt, MethodAt
<1>8. ASSUME NEW c \in Caller, StartWake(c)
      PROVE  (operation # NoCaller => ResultAt(operation))'
  BY <1>8, Names, HolderKnows DEF StartWake, Return, WakeUnchanged, ProcessAt, MethodAt
<1>9. ASSUME NEW c \in Caller, HeadStart(c)
      PROVE  (operation # NoCaller => ResultAt(operation))'
  BY <1>9, Names, HolderKnows DEF HeadStart, Return, WakeUnchanged, ProcessAt, MethodAt
<1>10. ASSUME NEW c \in Caller, Undo(c)
       PROVE  (operation # NoCaller => ResultAt(operation))'
  BY <1>10, Names, HolderKnows DEF Undo, ProcessAt, MethodAt
<1>11. ASSUME NEW c \in Caller, Discard(c)
       PROVE  (operation # NoCaller => ResultAt(operation))'
  BY <1>11, Names, HolderKnows DEF Discard, ProcessAt, MethodAt
<1>12. ASSUME NEW c \in Caller, Discarded(c)
       PROVE  (operation # NoCaller => ResultAt(operation))'
  BY <1>12, Names, HolderKnows DEF Discarded, ProcessAt, MethodAt
<1>13. ASSUME NEW c \in Caller, StopWake(c)
       PROVE  (operation # NoCaller => ResultAt(operation))'
  BY <1>13, Names, HolderKnows DEF StopWake, StopWakeUnchanged, ProcessAt, MethodAt
<1>14. ASSUME NEW c \in Caller, WakeTimesOut(c)
       PROVE  (operation # NoCaller => ResultAt(operation))'
  BY <1>14, Names, HolderKnows DEF WakeTimesOut, StopWakeUnchanged, ProcessAt, MethodAt
<1>15. ASSUME NEW c \in Caller, WakeStopped(c)
       PROVE  (operation # NoCaller => ResultAt(operation))'
  BY <1>15, Names, HolderKnows
     DEF WakeStopped, AfterWake, StopWakeUnchanged, ProcessAt, MethodAt
<1>16. ASSUME NEW c \in Caller, StopTakesProcess(c)
       PROVE  (operation # NoCaller => ResultAt(operation))'
  BY <1>16, Names, HolderKnows DEF StopTakesProcess, Return, ProcessAt, MethodAt
<1>17. ASSUME NEW c \in Caller, Interrupt(c)
       PROVE  (operation # NoCaller => ResultAt(operation))'
  BY <1>17, Names, HolderKnows
     DEF Interrupt, KillOrFail, StopReturns, Return, StopUnchanged, ProcessAt,
         MethodAt
<1>18. ASSUME NEW c \in Caller, ProcessWaited(c)
       PROVE  (operation # NoCaller => ResultAt(operation))'
  BY <1>18, Names, HolderKnows DEF ProcessWaited, StopUnchanged, ProcessAt, MethodAt
<1>19. ASSUME NEW c \in Caller, StopTimesOut(c)
       PROVE  (operation # NoCaller => ResultAt(operation))'
  BY <1>19, Names, HolderKnows
     DEF StopTimesOut, KillOrFail, StopReturns, Return, StopUnchanged, ProcessAt,
         MethodAt
<1>20. ASSUME NEW c \in Caller, StopCancelled(c)
       PROVE  (operation # NoCaller => ResultAt(operation))'
  BY <1>20, Names, HolderKnows DEF StopCancelled, StopUnchanged, ProcessAt, MethodAt
<1>21. ASSUME NEW c \in Caller, CleanupEnds(c)
       PROVE  (operation # NoCaller => ResultAt(operation))'
  BY <1>21, Names, HolderKnows
     DEF CleanupEnds, StopReturns, Return, StopUnchanged, ProcessAt, MethodAt
<1>22. ASSUME NEW c \in Caller, Check(c)
       PROVE  (operation # NoCaller => ResultAt(operation))'
  BY <1>22, Names, HolderKnows
     DEF Check, StopReturns, Return, Usable, StopUnchanged, ProcessAt, MethodAt
<1>23. ASSUME NEW t \in Take, ProcessOpensFile(t)
       PROVE  (operation # NoCaller => ResultAt(operation))'
  <2>1. UNCHANGED <<fieldVars, take, op, mine, held, pc, res>>
    BY <1>23 DEF ProcessOpensFile
  <2>2. ASSUME operation # NoCaller, mine[operation] # 0, ~recording
        PROVE  capture[mine[operation]] # "exited"
    <3>1. mine[operation] = t
      BY <1>23, <2>2 DEF ProcessOpensFile, Accounted
    <3>2. QED
      BY <1>23, <3>1 DEF ProcessOpensFile
  <2>3. QED
    BY <2>1, <2>2 DEF Inside
<1>24. ASSUME NEW t \in Take, ProcessWrites(t)
       PROVE  (operation # NoCaller => ResultAt(operation))'
  BY <1>24, Names DEF ProcessWrites, Inside, ProcessAt
<1>25. ASSUME NEW t \in Take, CaptureExits(t)
       PROVE  (operation # NoCaller => ResultAt(operation))'
  BY <1>25, Names DEF CaptureExits, Inside, ProcessAt
<1>26. ASSUME NEW t \in Take, WakeExits(t)
       PROVE  (operation # NoCaller => ResultAt(operation))'
  BY <1>26, Names DEF WakeExits, Inside, ProcessAt
<1>27. ASSUME NEW t \in Take, KillByContext(t)
       PROVE  (operation # NoCaller => ResultAt(operation))'
  <2>1. UNCHANGED <<fieldVars, take, op, mine, held, pc, res>>
    BY <1>27 DEF KillByContext
  <2>2. UNCHANGED fileVars
    BY <1>27 DEF KillByContext
  <2>3. \A u \in Take : capture[u] = "exited" => capture'[u] = "exited"
    BY <1>27 DEF KillByContext
  <2>4. QED
    BY <2>1, <2>2, <2>3 DEF Inside, ProcessAt, Take
<1>28. ASSUME NEW x \in Context, EndContext(x)
       PROVE  (operation # NoCaller => ResultAt(operation))'
  BY <1>28, Names DEF EndContext, Inside, ProcessAt
<1>29. CASE RecordingRemoved
  BY <1>29, Names DEF RecordingRemoved, Inside, ProcessAt
<1>30. ASSUME NEW c \in Caller, NEW method \in {"start", "stop"}, NEW x \in Context,
              Call(c, method, x)
       PROVE  (operation # NoCaller => ResultAt(operation))'
  <2>1. operation' = c /\ pc'[c] = method /\ res'[c] = "none"
    BY <1>30 DEF Call, Enter, Locked
  <2>2. QED
    BY <2>1
<1>31. CASE UNCHANGED vars
  BY <1>31 DEF vars, Inside
<1>32. QED
  BY <1>1, <1>2, <1>3, <1>4, <1>5, <1>6, <1>7, <1>8, <1>9, <1>10, <1>11, <1>12,
     <1>13, <1>14, <1>15, <1>16, <1>17, <1>18, <1>19, <1>20, <1>21, <1>22, <1>23,
     <1>24, <1>25, <1>26, <1>27, <1>28, <1>29, <1>30, <1>31 DEF Next, Step,
     Environment

\* Accounted is kept by every step.
LEMMA AccountedInductive == IInv /\ [Next]_vars => Accounted'
<1> SUFFICES ASSUME IInv, [Next]_vars PROVE Accounted'
  OBVIOUS
<1> USE DEF IInv, CallTypes, FieldTypes, DeviceTypes, Accounted, WillStopCapture,
            WillStopWake, Starting, Stopping, StoppingWake, GivingUp, Goto, Config,
            fieldVars, fileVars, procVars, callVars
<1>1. ASSUME NEW c \in Caller, Unlock(c) PROVE Accounted'
  BY <1>1, Names, HolderKnows, KillDoes DEF Unlock, Forget, ProcessAt, MethodAt
<1>2. ASSUME NEW c \in Caller, StartChecks(c) PROVE Accounted'
  BY <1>2, Names, HolderKnows, KillDoes DEF StartChecks, Return, ProcessAt, MethodAt
<1>3. ASSUME NEW c \in Caller, RemoveOldFile(c) PROVE Accounted'
  BY <1>3, Names, HolderKnows, KillDoes DEF RemoveOldFile, Return, ProcessAt, MethodAt
<1>4. ASSUME NEW c \in Caller, Spawn(c) PROVE Accounted'
  BY <1>4, Names, HolderKnows, KillDoes DEF Spawn, Return, ProcessAt, MethodAt
<1>5. ASSUME NEW c \in Caller, SpawnFails(c) PROVE Accounted'
  BY <1>5, Names, HolderKnows, KillDoes DEF SpawnFails, Return, ProcessAt, MethodAt
<1>6. ASSUME NEW c \in Caller, WaitForAudioFrames(c) PROVE Accounted'
  BY <1>6, Names, HolderKnows, KillDoes
     DEF WaitForAudioFrames, Return, WakeUnchanged, ProcessAt, MethodAt
<1>7. ASSUME NEW c \in Caller, ResolveVideo(c) PROVE Accounted'
  BY <1>7, Names, HolderKnows, KillDoes
     DEF ResolveVideo, Return, WakeUnchanged, ProcessAt, MethodAt
<1>8. ASSUME NEW c \in Caller, StartWake(c) PROVE Accounted'
  <2>1. /\ operation = c /\ recording /\ mine[c] = process /\ held[c] = 0
        /\ process = take /\ mine[c] \in Take /\ wakeProcess = 0 /\ pc[c] = "mpv"
    BY <1>8, HolderKnows DEF StartWake, ProcessAt, Take
  <2>2. UNCHANGED <<operation, recording, process, take, capture, file, op, mine, held>>
    BY <1>8 DEF StartWake, WakeUnchanged
  <2>3. ASSUME NEW t \in Take, capture'[t] = "running"
        PROVE  process = t
    BY <1>8, <2>1, <2>2, <2>3 DEF StartWake
  <2>4. ASSUME NEW t \in Take, wake'[t] = "running"
        PROVE  wakeProcess' = t
    <3>1. wake[t] # "running"
      BY <2>1 DEF Take
    <3>2. wake' = [wake EXCEPT ![mine[c]] = "running"] /\ wakeProcess' = mine[c]
      BY <1>8, <2>4, <3>1 DEF StartWake
    <3>3. QED
      BY <2>4, <3>1, <3>2
  <2>5. QED
    BY <2>1, <2>2, <2>3, <2>4
<1>9. ASSUME NEW c \in Caller, HeadStart(c) PROVE Accounted'
  BY <1>9, Names, HolderKnows, KillDoes
     DEF HeadStart, Return, WakeUnchanged, ProcessAt, MethodAt
<1>10. ASSUME NEW c \in Caller, Undo(c) PROVE Accounted'
  <2>1. /\ operation = c /\ op[c] = "start"
        /\ recording /\ mine[c] = process /\ held[c] = 0
    BY <1>10, HolderKnows DEF Undo, ProcessAt, MethodAt
  <2>2. /\ held'[c] = wakeProcess /\ recording' = FALSE
        /\ pc'[c] \in {"discard", "stop_wake"}
        /\ wakeProcess # 0 => pc'[c] = "stop_wake"
        /\ UNCHANGED <<operation, op, take, capture, wake, mine>>
    BY <1>10 DEF Undo
  <2>3. ASSUME NEW t \in Take, capture[t] = "running"
        PROVE  mine[c] = t
    BY <2>1, <2>3
  <2>4. ASSUME NEW t \in Take, wake[t] = "running"
        PROVE  wakeProcess = t
    BY <1>10, <2>1, <2>4 DEF Undo
  <2>5. QED
    BY <2>1, <2>2, <2>3, <2>4, NoCallerAssumption DEF Take
<1>11. ASSUME NEW c \in Caller, Discard(c) PROVE Accounted'
  <2>1. /\ operation = c /\ mine[c] \in {0, take} /\ held[c] \in {0, mine[c]}
        /\ ~recording /\ mine[c] \in Take /\ pc[c] = "discard"
    BY <1>11, HolderKnows DEF Discard, ProcessAt, MethodAt, Take
  <2>2. UNCHANGED <<fieldVars, take, fileVars, op, mine, held>>
    BY <1>11, <2>1 DEF Discard
  <2>3. ASSUME NEW t \in Take, capture'[t] = "running"
        PROVE  FALSE
    <3>1. capture' = Kill(capture, mine[c])
      BY <1>11 DEF Discard
    <3>2. t # mine[c] /\ capture[t] = "running"
      BY <2>1, <2>3, <3>1, KillStops
    <3>3. QED
      BY <2>1, <3>2
  <2>4. ASSUME NEW t \in Take, wake'[t] = "running"
        PROVE  FALSE
    BY <1>11, <2>1, <2>4 DEF Discard, Take
  <2>5. QED
    BY <2>1, <2>2, <2>3, <2>4, NoCallerAssumption
<1>12. ASSUME NEW c \in Caller, Discarded(c) PROVE Accounted'
  BY <1>12, Names, HolderKnows, KillDoes DEF Discarded, ProcessAt, MethodAt
<1>13. ASSUME NEW c \in Caller, StopWake(c) PROVE Accounted'
  <2>1. /\ operation = c /\ mine[c] \in {0, take} /\ held[c] \in {0, mine[c]}
        /\ ~recording /\ mine[c] \in Take /\ held[c] \in Take /\ pc[c] = "stop_wake"
    BY <1>13, HolderKnows DEF StopWake, ProcessAt, MethodAt, Take
  <2>2. UNCHANGED <<fieldVars, take, fileVars, op, mine, held>> /\ pc'[c] = "wake_wait"
    BY <1>13, <2>1 DEF StopWake, StopWakeUnchanged
  <2>3. ASSUME NEW t \in Take, capture'[t] = "running"
        PROVE  mine[c] = t /\ op[c] = "start"
    BY <1>13, <2>1, <2>3 DEF StopWake, StopWakeUnchanged, Take
  <2>4. ASSUME NEW t \in Take, wake'[t] = "running"
        PROVE  held[c] = t
    <3>1. \/ wake' = wake
          \/ wake' = Kill(wake, held[c])
      BY <1>13 DEF StopWake, StopWakeUnchanged
    <3>2. CASE wake' = Kill(wake, held[c])
      <4>1. t # held[c] /\ wake[t] = "running"
        BY <2>1, <2>4, <3>2, KillStops
      <4>2. QED
        BY <2>1, <4>1
    <3>3. CASE wake' = wake
      BY <2>1, <2>4, <3>3
    <3>4. QED
      BY <3>1, <3>2, <3>3
  <2>5. QED
    BY <2>1, <2>2, <2>3, <2>4, NoCallerAssumption
<1>14. ASSUME NEW c \in Caller, WakeTimesOut(c) PROVE Accounted'
  <2>1. /\ operation = c /\ mine[c] \in {0, take} /\ held[c] \in {0, mine[c]}
        /\ ~recording /\ mine[c] \in Take /\ held[c] \in Take /\ pc[c] = "wake_wait"
    BY <1>14, HolderKnows DEF WakeTimesOut, ProcessAt, MethodAt, Take
  <2>2. UNCHANGED <<fieldVars, take, fileVars, op, mine, held>> /\ pc'[c] = "wake_killed"
    BY <1>14, <2>1 DEF WakeTimesOut, StopWakeUnchanged
  <2>3. ASSUME NEW t \in Take, capture'[t] = "running"
        PROVE  mine[c] = t /\ op[c] = "start"
    BY <1>14, <2>1, <2>3 DEF WakeTimesOut, StopWakeUnchanged, Take
  <2>4. ASSUME NEW t \in Take, wake'[t] = "running"
        PROVE  FALSE
    <3>1. wake' = Kill(wake, held[c])
      BY <1>14 DEF WakeTimesOut, StopWakeUnchanged
    <3>2. t # held[c] /\ wake[t] = "running"
      BY <2>1, <2>4, <3>1, KillStops
    <3>3. QED
      BY <2>1, <3>2
  <2>5. QED
    BY <2>1, <2>2, <2>3, <2>4, NoCallerAssumption
<1>15. ASSUME NEW c \in Caller, WakeStopped(c) PROVE Accounted'
  BY <1>15, Names, HolderKnows, KillDoes
     DEF WakeStopped, AfterWake, StopWakeUnchanged, ProcessAt, MethodAt
<1>16. ASSUME NEW c \in Caller, StopTakesProcess(c) PROVE Accounted'
  BY <1>16, Names, HolderKnows, KillDoes
     DEF StopTakesProcess, Return, ProcessAt, MethodAt
<1>17. ASSUME NEW c \in Caller, Interrupt(c) PROVE Accounted'
  <2>1. /\ operation = c /\ mine[c] \in {0, take} /\ held[c] \in {0, mine[c]}
        /\ ~recording /\ mine[c] \in Take /\ pc[c] = "interrupt"
    BY <1>17, HolderKnows DEF Interrupt, ProcessAt, MethodAt, Take
  <2>2. UNCHANGED <<fieldVars, take, fileVars, op, mine, held>>
    BY <1>17, <2>1 DEF Interrupt, KillOrFail, StopReturns, Return, StopUnchanged
  <2>3. ASSUME NEW t \in Take, capture'[t] = "running"
        PROVE  mine[c] = t /\ pc'[c] = "wait"
    <3>1. \/ capture' = capture /\ pc'[c] = "wait"
          \/ capture' = Kill(capture, mine[c])
      BY <1>17 DEF Interrupt, KillOrFail, StopReturns, Return, StopUnchanged
    <3>2. CASE capture' = Kill(capture, mine[c])
      <4>1. t # mine[c] /\ capture[t] = "running"
        BY <2>1, <2>3, <3>2, KillStops
      <4>2. QED
        BY <2>1, <4>1
    <3>3. CASE capture' = capture /\ pc'[c] = "wait"
      BY <2>1, <2>3, <3>3
    <3>4. QED
      BY <3>1, <3>2, <3>3
  <2>4. ASSUME NEW t \in Take, wake'[t] = "running"
        PROVE  held[c] = t /\ WillStopWake(c)'
    BY <1>17, <2>1, <2>4
       DEF Interrupt, KillOrFail, StopReturns, Return, StopUnchanged, Take
  <2>5. QED
    BY <2>1, <2>2, <2>3, <2>4, NoCallerAssumption
<1>18. ASSUME NEW c \in Caller, ProcessWaited(c) PROVE Accounted'
  BY <1>18, Names, HolderKnows, KillDoes
     DEF ProcessWaited, StopUnchanged, ProcessAt, MethodAt
<1>19. ASSUME NEW c \in Caller, StopTimesOut(c) PROVE Accounted'
  <2>1. /\ operation = c /\ mine[c] \in {0, take} /\ held[c] \in {0, mine[c]}
        /\ ~recording /\ mine[c] \in Take /\ pc[c] = "wait"
    BY <1>19, HolderKnows DEF StopTimesOut, ProcessAt, MethodAt, Take
  <2>2. UNCHANGED <<fieldVars, take, fileVars, op, mine, held>>
    BY <1>19, <2>1 DEF StopTimesOut, KillOrFail, StopReturns, Return, StopUnchanged
  <2>3. ASSUME NEW t \in Take, capture'[t] = "running"
        PROVE  FALSE
    <3>1. capture' = Kill(capture, mine[c])
      BY <1>19 DEF StopTimesOut, KillOrFail, StopReturns, Return, StopUnchanged
    <3>2. t # mine[c] /\ capture[t] = "running"
      BY <2>1, <2>3, <3>1, KillStops
    <3>3. QED
      BY <2>1, <3>2
  <2>4. ASSUME NEW t \in Take, wake'[t] = "running"
        PROVE  held[c] = t /\ WillStopWake(c)'
    BY <1>19, <2>1, <2>4
       DEF StopTimesOut, KillOrFail, StopReturns, Return, StopUnchanged, Take
  <2>5. QED
    BY <2>1, <2>2, <2>3, <2>4, NoCallerAssumption
<1>20. ASSUME NEW c \in Caller, StopCancelled(c) PROVE Accounted'
  <2>1. /\ operation = c /\ mine[c] \in {0, take} /\ held[c] \in {0, mine[c]}
        /\ ~recording /\ mine[c] \in Take /\ pc[c] = "wait"
    BY <1>20, HolderKnows DEF StopCancelled, ProcessAt, MethodAt, Take
  <2>2. UNCHANGED <<fieldVars, take, fileVars, op, mine, held>>
    BY <1>20, <2>1 DEF StopCancelled, StopUnchanged
  <2>3. ASSUME NEW t \in Take, capture'[t] = "running"
        PROVE  FALSE
    <3>1. capture' = Kill(capture, mine[c])
      BY <1>20 DEF StopCancelled, StopUnchanged
    <3>2. t # mine[c] /\ capture[t] = "running"
      BY <2>1, <2>3, <3>1, KillStops
    <3>3. QED
      BY <2>1, <3>2
  <2>4. ASSUME NEW t \in Take, wake'[t] = "running"
        PROVE  held[c] = t /\ WillStopWake(c)'
    BY <1>20, <2>1, <2>4 DEF StopCancelled, StopUnchanged, Take
  <2>5. QED
    BY <2>1, <2>2, <2>3, <2>4, NoCallerAssumption
<1>21. ASSUME NEW c \in Caller, CleanupEnds(c) PROVE Accounted'
  <2>1. /\ operation = c /\ mine[c] \in {0, take} /\ held[c] \in {0, mine[c]}
        /\ ~recording /\ mine[c] \in Take /\ pc[c] \in {"killed", "cancelled"}
    BY <1>21, HolderKnows DEF CleanupEnds, ProcessAt, MethodAt, Take
  <2>2. UNCHANGED <<fieldVars, take, fileVars, op, mine, held>>
    BY <1>21, <2>1 DEF CleanupEnds, StopReturns, Return, StopUnchanged
  <2>3. ASSUME NEW t \in Take, capture'[t] = "running"
        PROVE  FALSE
    BY <1>21, <2>1, <2>3 DEF CleanupEnds, StopReturns, Return, StopUnchanged, Take
  <2>4. ASSUME NEW t \in Take, wake'[t] = "running"
        PROVE  held[c] = t /\ WillStopWake(c)'
    BY <1>21, <2>1, <2>4 DEF CleanupEnds, StopReturns, Return, StopUnchanged, Take
  <2>5. QED
    BY <2>1, <2>2, <2>3, <2>4, NoCallerAssumption
<1>22. ASSUME NEW c \in Caller, Check(c) PROVE Accounted'
  <2>1. /\ operation = c /\ mine[c] \in {0, take} /\ held[c] \in {0, mine[c]}
        /\ ~recording /\ mine[c] \in Take /\ pc[c] = "check"
    BY <1>22, HolderKnows DEF Check, ProcessAt, MethodAt, Take
  <2>2. UNCHANGED <<fieldVars, take, fileVars, op, mine, held>>
    BY <1>22, <2>1 DEF Check, StopReturns, Return, Usable, StopUnchanged
  <2>3. ASSUME NEW t \in Take, capture'[t] = "running"
        PROVE  FALSE
    BY <1>22, <2>1, <2>3 DEF Check, StopReturns, Return, Usable, StopUnchanged, Take
  <2>4. ASSUME NEW t \in Take, wake'[t] = "running"
        PROVE  held[c] = t /\ WillStopWake(c)'
    BY <1>22, <2>1, <2>4 DEF Check, StopReturns, Return, Usable, StopUnchanged, Take
  <2>5. QED
    BY <2>1, <2>2, <2>3, <2>4, NoCallerAssumption
<1>23. ASSUME NEW t \in Take, ProcessOpensFile(t) PROVE Accounted'
  BY <1>23, Names DEF ProcessOpensFile, Inside, ProcessAt
<1>24. ASSUME NEW t \in Take, ProcessWrites(t) PROVE Accounted'
  BY <1>24, Names DEF ProcessWrites, Inside, ProcessAt
<1>25. ASSUME NEW t \in Take, CaptureExits(t) PROVE Accounted'
  BY <1>25, Names DEF CaptureExits, Inside, ProcessAt
<1>26. ASSUME NEW t \in Take, WakeExits(t) PROVE Accounted'
  BY <1>26, Names DEF WakeExits, Inside, ProcessAt
<1>27. ASSUME NEW t \in Take, KillByContext(t) PROVE Accounted'
  BY <1>27, Names DEF KillByContext, Inside, ProcessAt
<1>28. ASSUME NEW x \in Context, EndContext(x) PROVE Accounted'
  BY <1>28, Names DEF EndContext, Inside, ProcessAt
<1>29. CASE RecordingRemoved
  BY <1>29, Names DEF RecordingRemoved, Inside, ProcessAt
<1>30. ASSUME NEW c \in Caller, NEW method \in {"start", "stop"}, NEW x \in Context,
              Call(c, method, x)
       PROVE  Accounted'
  BY <1>30, Names DEF Call, Enter, Inside, ProcessAt
<1>31. CASE UNCHANGED vars
  BY <1>31 DEF vars, Inside
<1>32. QED
  BY <1>1, <1>2, <1>3, <1>4, <1>5, <1>6, <1>7, <1>8, <1>9, <1>10, <1>11, <1>12,
     <1>13, <1>14, <1>15, <1>16, <1>17, <1>18, <1>19, <1>20, <1>21, <1>22, <1>23,
     <1>24, <1>25, <1>26, <1>27, <1>28, <1>29, <1>30, <1>31 DEF Next, Step,
     Environment

-----------------------------------------------------------------------------
(* The invariant holds of the new recorder and of every state it reaches.  *)

LEMMA InitIInv == Init => IInv
<1> SUFFICES ASSUME Init PROVE IInv
  OBVIOUS
<1>1. CallTypes
  BY Names DEF Init, CallTypes
<1>2. FieldTypes
  BY Names DEF Init, FieldTypes
<1>3. DeviceTypes
  <2>1. capture \in [Take -> Process] /\ wake \in [Take -> Process]
    BY DEF Init, Process
  <2>2. take \in 0..MaxTakes /\ file \in 0..MaxTakes
    BY MaxTakesAssumption DEF Init
  <2>3. content \in Content /\ ended \subseteq Context
    BY DEF Init, Content
  <2>4. QED
    BY <2>1, <2>2, <2>3 DEF Init, DeviceTypes
<1>4. Locked /\ Inside
  <2>1. Locked
    <3> SUFFICES ASSUME Init, NEW c \in Caller
                 PROVE  /\ operation # c
                        /\ pc[c] = "out" /\ op[c] = "start" /\ ctx[c] = "root"
                        /\ res[c] = "none" /\ mine[c] = 0 /\ held[c] = 0
      BY DEF Locked
    <3>1. QED
      BY NoCallerAssumption DEF Init
  <2>2. Inside
    BY DEF Init, Inside
  <2>3. QED
    BY <2>1, <2>2
<1>5. Accounted
  BY DEF Init, Accounted
<1>6. QED
  BY <1>1, <1>2, <1>3, <1>4, <1>5 DEF IInv

LEMMA IInvInductive == IInv /\ [Next]_vars => IInv'
<1> SUFFICES ASSUME IInv, [Next]_vars PROVE IInv'
  OBVIOUS
<1>1. CallTypes' /\ FieldTypes' /\ DeviceTypes'
  BY CallTypesInductive, FieldTypesInductive, DeviceTypesInductive DEF IInv
<1>2. Locked' /\ Accounted'
  BY LockedInductive, AccountedInductive
<1>3. Inside'
  BY MethodAtInductive, ProcessAtInductive, ResultAtInductive DEF Inside
<1>4. QED
  BY <1>1, <1>2, <1>3 DEF IInv

\* The invariant, for any set of callers and any number of recordings.
THEOREM Invariance == Spec => []IInv
BY InitIInv, IInvInductive, PTL DEF Spec

\* The fields have their types and are set and cleared together: a recorder
\* that records has a process, and its camera wake is that recording's.
THEOREM TypeCorrect == Spec => []TypeOK
<1>1. IInv => TypeOK
  BY DEF IInv, CallTypes, FieldTypes, DeviceTypes, TypeOK
<1>2. QED
  BY <1>1, Invariance, PTL

\* Stop hands over the file of the process it stopped, complete.
THEOREM HandsOverOwnFrames == Spec => []OwnFrames
<1>1. IInv => OwnFrames
  <2> SUFFICES ASSUME IInv, NEW c \in Caller,
                      pc[c] = "unlock", op[c] = "stop", res[c] = "ok"
               PROVE  file = mine[c] /\ content = "usable" /\ capture[file] = "exited"
    BY DEF OwnFrames
  <2>1. ResultAt(c)
    BY HolderKnows
  <2>2. QED
    BY <2>1 DEF ResultAt
<1>2. QED
  BY <1>1, Invariance, PTL

\* Between calls no process is left running that the recorder has forgotten.
THEOREM NothingLeftRunning == Spec => []NothingRunsOn
<1>1. IInv => NothingRunsOn
  BY DEF IInv, Accounted, NothingRunsOn
<1>2. QED
  BY <1>1, Invariance, PTL

-----------------------------------------------------------------------------
(* The recorder implements the contract of Recorder                        *)

\* The call that holds the lock is one of the method, and has a process.
At(method) == operation # NoCaller /\ op[operation] = method /\ mine[operation] # 0

\* Only the holder of the lock can have a process.
LEMMA OnlyTheHolderWorks ==
  ASSUME IInv, NEW method \in {"start", "stop"}
  PROVE  Working(method) <=> At(method)
<1>1. ASSUME NEW c \in Caller, op[c] = method, pc[c] # "out", mine[c] # 0
      PROVE  At(method)
  BY <1>1, HolderKnows, NoCallerAssumption DEF At
<1>2. ASSUME At(method)
      PROVE  operation \in Caller /\ pc[operation] # "out"
  BY <1>2 DEF At, IInv, FieldTypes, Locked
<1>3. QED
  BY <1>1, <1>2 DEF Working, At

\* What the session sees of the recorder, in the states before and after a step.
View ==
    /\ Working("start") <=> At("start")
    /\ Working("stop") <=> At("stop")

LEMMA Viewed == IInv => View
BY OnlyTheHolderWorks DEF View

\* What happens while a call has a process in its hands, or during a
\* recording, is not seen.
LEMMA Hidden ==
  ASSUME View, View', UNCHANGED <<operation, op, mine, take>>,
         \/ UNCHANGED <<recording, file, content>>
         \/ At("start") \/ At("stop")
         \/ recording /\ recording'
  PROVE  UNCHANGED Contract!recVars
<1>1. (Working("start") <=> Working("start")') /\ (Working("stop") <=> Working("stop")')
  BY DEF View, At
<1>2. QED
  BY <1>1 DEF Contract!recVars, View, At, Usable

LEMMA StepRefines ==
  IInv /\ View /\ View' /\ [Next]_vars => [Contract!RecNext]_(Contract!recVars)
<1> SUFFICES ASSUME IInv, View, View', [Next]_vars
             PROVE  [Contract!RecNext]_(Contract!recVars)
  OBVIOUS
<1> DEFINE Same == UNCHANGED Contract!recVars
<1> USE DEF Goto, Config, fieldVars, fileVars, procVars, callVars
<1>1. ASSUME NEW c \in Caller, Unlock(c) PROVE [Contract!RecNext]_(Contract!recVars)
  <2>1. operation = c /\ mine[c] \in {0, take} /\ (mine[c] # 0 => file \in {0, mine[c]})
    BY <1>1, HolderKnows DEF Unlock, ProcessAt
  <2>2. /\ UNCHANGED <<recording, take, file, content>>
        /\ ~Working("start")' /\ ~Working("stop")'
    BY <1>1 DEF Unlock, View, At
  <2>3. take \in 0..MaxTakes /\ recording \in BOOLEAN /\ op[c] \in {"start", "stop"}
    BY DEF IInv, CallTypes, FieldTypes, DeviceTypes
  <2>4. CASE mine[c] = 0
    <3>1. ~Working("start") /\ ~Working("stop")
      BY <2>1, <2>4 DEF View, At
    <3>2. QED
      BY <2>2, <3>1 DEF Contract!recVars, Usable
  <2>5. CASE mine[c] # 0 /\ op[c] = "start"
    <3>1. Working("start") /\ ~Working("stop") /\ take # 0
      BY <2>1, <2>5, NoCallerAssumption DEF View, At
    <3>2. recording \/ (~recording /\ res[c] = "failed")
      <4>1. ResultAt(c) /\ pc[c] = "unlock"
        BY <1>1, HolderKnows DEF Unlock
      <4>2. QED
        BY <2>3, <2>5, <4>1 DEF ResultAt
    <3>3. CASE recording
      <4>1. Contract!RecorderStarted
        BY <2>2, <2>3, <3>1, <3>3, MaxTakesAssumption DEF Contract!RecorderStarted
      <4>2. QED
        BY <4>1 DEF Contract!RecNext
    <3>4. CASE ~recording
      <4>1. Contract!RecorderStartFailed
        BY <2>1, <2>2, <2>3, <2>5, <3>1, <3>4, MaxTakesAssumption
           DEF Contract!RecorderStartFailed, Usable
      <4>2. QED
        BY <4>1 DEF Contract!RecNext
    <3>5. QED
      BY <3>2, <3>3, <3>4
  <2>6. CASE mine[c] # 0 /\ op[c] = "stop"
    <3>1. Working("stop") /\ ~Working("start") /\ take # 0
      BY <2>1, <2>6, NoCallerAssumption DEF View, At
    <3>2. /\ ~recording
          /\ \/ res[c] = "failed"
             \/ res[c] = "ok" /\ file = mine[c] /\ content = "usable"
      <4>1. ResultAt(c) /\ pc[c] = "unlock"
        BY <1>1, HolderKnows DEF Unlock
      <4>2. QED
        BY <2>3, <2>6, <4>1 DEF ResultAt
    <3>3. Contract!RecorderStopFailed(Usable)
      BY <2>1, <2>2, <2>6, <3>1, <3>2 DEF Contract!RecorderStopFailed, Usable
    <3>4. CASE res[c] = "ok"
      <4>1. Contract!RecorderStopped(TRUE)
        BY <2>1, <2>2, <2>6, <3>1, <3>2, <3>4 DEF Contract!RecorderStopped, Usable
      <4>2. QED
        BY <4>1 DEF Contract!RecNext
    <3>5. CASE res[c] = "failed"
      BY <3>3 DEF Contract!RecNext, Usable
    <3>6. QED
      BY <3>2, <3>4, <3>5
  <2>7. QED
    BY <2>3, <2>4, <2>5, <2>6
<1>2. ASSUME NEW c \in Caller, StartChecks(c) PROVE Same
  BY <1>2, Hidden DEF StartChecks, Return
<1>3. ASSUME NEW c \in Caller, RemoveOldFile(c)
      PROVE  [Contract!RecNext]_(Contract!recVars)
  <2>1. operation = c /\ op[c] = "start" /\ mine[c] = 0 /\ ~recording
    BY <1>3, HolderKnows DEF RemoveOldFile, ProcessAt, MethodAt, Starting
  <2>2. UNCHANGED <<operation, recording, op, mine, take>>
    BY <1>3 DEF RemoveOldFile
  <2>3. CASE UNCHANGED fileVars
    BY <2>2, <2>3, Hidden
  <2>4. CASE file' = 0
    <3>1. ~Working("start") /\ ~Working("stop") /\ ~Working("start")' /\ ~Working("stop")'
      BY <2>1, <2>2 DEF View, At
    <3>2. Contract!RecordingRemoved
      BY <2>1, <2>2, <2>4, <3>1 DEF Contract!RecordingRemoved, Usable
    <3>3. QED
      BY <3>2 DEF Contract!RecNext
  <2>5. QED
    BY <1>3, <2>3, <2>4 DEF RemoveOldFile
<1>4. ASSUME NEW c \in Caller, Spawn(c) PROVE Same
  <2>1. operation = c /\ op[c] = "start" /\ mine[c] = 0 /\ ~recording /\ file = 0
    BY <1>4, HolderKnows DEF Spawn, ProcessAt, MethodAt, Starting
  <2>2. /\ recording' = TRUE /\ take' = take + 1 /\ mine'[c] = take + 1
        /\ take \in Nat
        /\ UNCHANGED <<operation, op, file, content>>
    BY <1>4, <2>1 DEF Spawn, IInv, CallTypes, DeviceTypes
  <2>3. ~Working("start") /\ ~Working("stop")
    BY <2>1 DEF View, At
  <2>4. Working("start")'
    BY <2>1, <2>2, NoCallerAssumption DEF View, At
  <2>5. QED
    BY <2>1, <2>2, <2>3, <2>4 DEF Contract!recVars, Usable
<1>5. ASSUME NEW c \in Caller, SpawnFails(c) PROVE Same
  BY <1>5, Hidden DEF SpawnFails, Return
<1>6. ASSUME NEW c \in Caller, WaitForAudioFrames(c) PROVE Same
  <2>1. At("start") \/ At("stop")
    BY <1>6, HolderKnows, NoCallerAssumption
       DEF WaitForAudioFrames, At, ProcessAt, MethodAt, IInv, CallTypes, FieldTypes,
           Starting, Stopping, StoppingWake, GivingUp
  <2>2. UNCHANGED <<operation, op, mine, take>>
    BY <1>6 DEF WaitForAudioFrames, Return, WakeUnchanged
  <2>3. QED
    BY <2>1, <2>2, Hidden
<1>7. ASSUME NEW c \in Caller, ResolveVideo(c) PROVE Same
  <2>1. At("start") \/ At("stop")
    BY <1>7, HolderKnows, NoCallerAssumption
       DEF ResolveVideo, At, ProcessAt, MethodAt, IInv, CallTypes, FieldTypes,
           Starting, Stopping, StoppingWake, GivingUp
  <2>2. UNCHANGED <<operation, op, mine, take>>
    BY <1>7 DEF ResolveVideo, Return, WakeUnchanged
  <2>3. QED
    BY <2>1, <2>2, Hidden
<1>8. ASSUME NEW c \in Caller, StartWake(c) PROVE Same
  <2>1. At("start") \/ At("stop")
    BY <1>8, HolderKnows, NoCallerAssumption
       DEF StartWake, At, ProcessAt, MethodAt, IInv, CallTypes, FieldTypes,
           Starting, Stopping, StoppingWake, GivingUp
  <2>2. UNCHANGED <<operation, op, mine, take>>
    BY <1>8 DEF StartWake, Return, WakeUnchanged
  <2>3. QED
    BY <2>1, <2>2, Hidden
<1>9. ASSUME NEW c \in Caller, HeadStart(c) PROVE Same
  <2>1. At("start") \/ At("stop")
    BY <1>9, HolderKnows, NoCallerAssumption
       DEF HeadStart, At, ProcessAt, MethodAt, IInv, CallTypes, FieldTypes,
           Starting, Stopping, StoppingWake, GivingUp
  <2>2. UNCHANGED <<operation, op, mine, take>>
    BY <1>9 DEF HeadStart, Return, WakeUnchanged
  <2>3. QED
    BY <2>1, <2>2, Hidden
<1>10. ASSUME NEW c \in Caller, Undo(c) PROVE Same
  <2>1. At("start") \/ At("stop")
    BY <1>10, HolderKnows, NoCallerAssumption
       DEF Undo, At, ProcessAt, MethodAt, IInv, CallTypes, FieldTypes, Starting,
           Stopping, StoppingWake, GivingUp
  <2>2. UNCHANGED <<operation, op, mine, take>>
    BY <1>10 DEF Undo
  <2>3. QED
    BY <2>1, <2>2, Hidden
<1>11. ASSUME NEW c \in Caller, Discard(c) PROVE Same
  <2>1. At("start") \/ At("stop")
    BY <1>11, HolderKnows, NoCallerAssumption
       DEF Discard, At, ProcessAt, MethodAt, IInv, CallTypes, FieldTypes, Starting,
           Stopping, StoppingWake, GivingUp
  <2>2. UNCHANGED <<operation, op, mine, take>>
    BY <1>11 DEF Discard
  <2>3. QED
    BY <2>1, <2>2, Hidden
<1>12. ASSUME NEW c \in Caller, Discarded(c) PROVE Same
  <2>1. At("start") \/ At("stop")
    BY <1>12, HolderKnows, NoCallerAssumption
       DEF Discarded, At, ProcessAt, MethodAt, IInv, CallTypes, FieldTypes,
           Starting, Stopping, StoppingWake, GivingUp
  <2>2. UNCHANGED <<operation, op, mine, take>>
    BY <1>12 DEF Discarded
  <2>3. QED
    BY <2>1, <2>2, Hidden
<1>13. ASSUME NEW c \in Caller, StopWake(c) PROVE Same
  <2>1. At("start") \/ At("stop")
    BY <1>13, HolderKnows, NoCallerAssumption
       DEF StopWake, At, ProcessAt, MethodAt, IInv, CallTypes, FieldTypes, Starting,
           Stopping, StoppingWake, GivingUp
  <2>2. UNCHANGED <<operation, op, mine, take>>
    BY <1>13 DEF StopWake, StopWakeUnchanged
  <2>3. QED
    BY <2>1, <2>2, Hidden
<1>14. ASSUME NEW c \in Caller, WakeTimesOut(c) PROVE Same
  <2>1. At("start") \/ At("stop")
    BY <1>14, HolderKnows, NoCallerAssumption
       DEF WakeTimesOut, At, ProcessAt, MethodAt, IInv, CallTypes, FieldTypes,
           Starting, Stopping, StoppingWake, GivingUp
  <2>2. UNCHANGED <<operation, op, mine, take>>
    BY <1>14 DEF WakeTimesOut, StopWakeUnchanged
  <2>3. QED
    BY <2>1, <2>2, Hidden
<1>15. ASSUME NEW c \in Caller, WakeStopped(c) PROVE Same
  <2>1. At("start") \/ At("stop")
    BY <1>15, HolderKnows, NoCallerAssumption
       DEF WakeStopped, At, ProcessAt, MethodAt, IInv, CallTypes, FieldTypes,
           Starting, Stopping, StoppingWake, GivingUp
  <2>2. UNCHANGED <<operation, op, mine, take>>
    BY <1>15 DEF WakeStopped, AfterWake, StopWakeUnchanged
  <2>3. QED
    BY <2>1, <2>2, Hidden
<1>16. ASSUME NEW c \in Caller, StopTakesProcess(c) PROVE Same
  <2>1. operation = c /\ op[c] = "stop" /\ mine[c] = 0
    BY <1>16, HolderKnows DEF StopTakesProcess, ProcessAt, MethodAt, Stopping
  <2>2. CASE ~recording \/ process = 0
    BY <1>16, <2>2, Hidden DEF StopTakesProcess
  <2>3. CASE recording /\ process # 0
    <3>1. /\ recording' = FALSE /\ mine'[c] = process
          /\ UNCHANGED <<operation, op, take, file, content>>
      BY <1>16, <2>1, <2>3 DEF StopTakesProcess, IInv, CallTypes
    <3>2. ~Working("start") /\ ~Working("stop")
      BY <2>1 DEF View, At
    <3>3. ~Working("start")' /\ Working("stop")'
      BY <2>1, <2>3, <3>1, NoCallerAssumption DEF View, At
    <3>4. QED
      BY <2>3, <3>1, <3>2, <3>3 DEF Contract!recVars
  <2>4. QED
    BY <2>2, <2>3
<1>17. ASSUME NEW c \in Caller, Interrupt(c) PROVE Same
  <2>1. At("start") \/ At("stop")
    BY <1>17, HolderKnows, NoCallerAssumption
       DEF Interrupt, At, ProcessAt, MethodAt, IInv, CallTypes, FieldTypes,
           Starting, Stopping, StoppingWake, GivingUp
  <2>2. UNCHANGED <<operation, op, mine, take>>
    BY <1>17 DEF Interrupt, KillOrFail, StopReturns, Return, StopUnchanged
  <2>3. QED
    BY <2>1, <2>2, Hidden
<1>18. ASSUME NEW c \in Caller, ProcessWaited(c) PROVE Same
  <2>1. At("start") \/ At("stop")
    BY <1>18, HolderKnows, NoCallerAssumption
       DEF ProcessWaited, At, ProcessAt, MethodAt, IInv, CallTypes, FieldTypes,
           Starting, Stopping, StoppingWake, GivingUp
  <2>2. UNCHANGED <<operation, op, mine, take>>
    BY <1>18 DEF ProcessWaited, StopUnchanged
  <2>3. QED
    BY <2>1, <2>2, Hidden
<1>19. ASSUME NEW c \in Caller, StopTimesOut(c) PROVE Same
  <2>1. At("start") \/ At("stop")
    BY <1>19, HolderKnows, NoCallerAssumption
       DEF StopTimesOut, At, ProcessAt, MethodAt, IInv, CallTypes, FieldTypes,
           Starting, Stopping, StoppingWake, GivingUp
  <2>2. UNCHANGED <<operation, op, mine, take>>
    BY <1>19 DEF StopTimesOut, KillOrFail, StopReturns, Return, StopUnchanged
  <2>3. QED
    BY <2>1, <2>2, Hidden
<1>20. ASSUME NEW c \in Caller, StopCancelled(c) PROVE Same
  <2>1. At("start") \/ At("stop")
    BY <1>20, HolderKnows, NoCallerAssumption
       DEF StopCancelled, At, ProcessAt, MethodAt, IInv, CallTypes, FieldTypes,
           Starting, Stopping, StoppingWake, GivingUp
  <2>2. UNCHANGED <<operation, op, mine, take>>
    BY <1>20 DEF StopCancelled, StopUnchanged
  <2>3. QED
    BY <2>1, <2>2, Hidden
<1>21. ASSUME NEW c \in Caller, CleanupEnds(c) PROVE Same
  <2>1. At("start") \/ At("stop")
    BY <1>21, HolderKnows, NoCallerAssumption
       DEF CleanupEnds, At, ProcessAt, MethodAt, IInv, CallTypes, FieldTypes,
           Starting, Stopping, StoppingWake, GivingUp
  <2>2. UNCHANGED <<operation, op, mine, take>>
    BY <1>21 DEF CleanupEnds, StopReturns, Return, StopUnchanged
  <2>3. QED
    BY <2>1, <2>2, Hidden
<1>22. ASSUME NEW c \in Caller, Check(c) PROVE Same
  <2>1. At("start") \/ At("stop")
    BY <1>22, HolderKnows, NoCallerAssumption
       DEF Check, At, ProcessAt, MethodAt, IInv, CallTypes, FieldTypes, Starting,
           Stopping, StoppingWake, GivingUp
  <2>2. UNCHANGED <<operation, op, mine, take>>
    BY <1>22 DEF Check, StopReturns, Return, Usable, StopUnchanged
  <2>3. QED
    BY <2>1, <2>2, Hidden
<1>23. ASSUME NEW t \in Take, ProcessOpensFile(t) PROVE Same
  <2>1. recording \/ At("start") \/ At("stop")
    BY <1>23, RunsForSomebody, MaxTakesAssumption
       DEF ProcessOpensFile, At, Take, IInv, CallTypes, FieldTypes
  <2>2. QED
    BY <1>23, <2>1, Hidden DEF ProcessOpensFile
<1>24. ASSUME NEW t \in Take, ProcessWrites(t) PROVE Same
  <2>1. recording \/ At("start") \/ At("stop")
    BY <1>24, RunsForSomebody, MaxTakesAssumption
       DEF ProcessWrites, At, Take, IInv, CallTypes, FieldTypes
  <2>2. QED
    BY <1>24, <2>1, Hidden DEF ProcessWrites
<1>25. ASSUME NEW t \in Take, CaptureExits(t) PROVE Same
  BY <1>25, Hidden DEF CaptureExits
<1>26. ASSUME NEW t \in Take, WakeExits(t) PROVE Same
  BY <1>26, Hidden DEF WakeExits
<1>27. ASSUME NEW t \in Take, KillByContext(t) PROVE Same
  BY <1>27, Hidden DEF KillByContext
<1>28. ASSUME NEW x \in Context, EndContext(x) PROVE Same
  BY <1>28, Hidden DEF EndContext
<1>29. CASE RecordingRemoved
  <2>1. UNCHANGED <<operation, recording, op, mine, take>> /\ file' = 0 /\ ~recording
    BY <1>29 DEF RecordingRemoved
  <2>2. ~At("start") /\ ~At("stop")
    BY <1>29 DEF RecordingRemoved, At, IInv, FieldTypes, Locked
  <2>3. ~Working("start") /\ ~Working("stop") /\ ~Working("start")' /\ ~Working("stop")'
    BY <2>1, <2>2 DEF View, At
  <2>4. Contract!RecordingRemoved
    BY <2>1, <2>3 DEF Contract!RecordingRemoved, Usable
  <2>5. QED
    BY <2>4 DEF Contract!RecNext
<1>30. ASSUME NEW c \in Caller, NEW method \in {"start", "stop"}, NEW x \in Context,
              Call(c, method, x)
       PROVE  Same
  <2>1. /\ operation = NoCaller /\ operation' = c /\ mine'[c] = 0
        /\ UNCHANGED <<recording, take, file, content>>
    BY <1>30 DEF Call, Enter, IInv, Locked
  <2>2. ~Working("start") /\ ~Working("stop") /\ ~Working("start")' /\ ~Working("stop")'
    BY <2>1 DEF View, At
  <2>3. QED
    BY <2>1, <2>2 DEF Contract!recVars, Usable
<1>31. CASE UNCHANGED vars
  BY <1>31, Hidden DEF vars
<1>32. QED
  BY <1>1, <1>2, <1>3, <1>4, <1>5, <1>6, <1>7, <1>8, <1>9, <1>10, <1>11, <1>12,
     <1>13, <1>14, <1>15, <1>16, <1>17, <1>18, <1>19, <1>20, <1>21, <1>22, <1>23,
     <1>24, <1>25, <1>26, <1>27, <1>28, <1>29, <1>30, <1>31 DEF Next, Step,
     Environment

\* Start and Stop of the recorder of Linux, with their processes, keep the
\* promises of the recorder that the session relies on.
THEOREM Refinement == Spec => ImplementsRecorder
<1>1. Init => Contract!RecInit
  <2> SUFFICES ASSUME Init PROVE Contract!RecInit
    OBVIOUS
  <2>1. ~Working("start") /\ ~Working("stop")
    BY DEF Init, Working
  <2>2. QED
    BY <2>1 DEF Init, Contract!RecInit, Usable
<1>2. IInv => View
  BY Viewed
<1>3. QED
  BY <1>1, <1>2, Invariance, StepRefines, PTL
     DEF Spec, ImplementsRecorder, Contract!RecSpec
=============================================================================

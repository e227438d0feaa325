------------------------------ MODULE PWRecord ------------------------------
(***************************************************************************)
(* PWRecordRecorder: Start and Stop of the recorder of Linux, with the      *)
(* processes they run.  A recording is a pw-record process that writes the  *)
(* one file of the recorder; an mpv process may keep the camera awake whose  *)
(* microphone is used.  Both processes are killed when the context ends     *)
(* under which they were started, and may die on their own.  A process that  *)
(* was killed need not exit: it may be slow to, or out of reach of a signal. *)
(*                                                                         *)
(* The file holds no frame ("short"), frames that recordingLooksUsable does *)
(* not find, as behind an incomplete header ("broken"), or it is "usable".   *)
(***************************************************************************)
EXTENDS Naturals

CONSTANTS
    Caller,       \* goroutines that call Start and Stop
    NoCaller,
    MaxTakes      \* bound: how many pw-record processes are ever started

ASSUME NoCallerAssumption == NoCaller \notin Caller
ASSUME MaxTakesAssumption == MaxTakes \in Nat \ {0}

VARIABLES
    cameraWake, videoDevice,       \* the configuration: mode, is a device named
    operation,                     \* the mutex of that name: who holds it
    recording, process, wakeProcess, \* the fields; a process is its take, 0: nil
    take,                          \* how many pw-record processes were started
    capture, wake,                 \* the pw-record and mpv process of each take
    file,                          \* the take whose file is at the path, 0: no file
    content,                       \* what that file holds
    ended,                         \* the contexts that have ended
    pc, op, ctx, mine, held, res   \* per caller: point, method, context, its
                                   \* process, its camera wake, result

fieldVars == <<operation, recording, process, wakeProcess>>
fileVars  == <<file, content>>
procVars  == <<take, capture, wake>>
callVars  == <<pc, op, ctx, mine, held, res>>
vars == <<cameraWake, videoDevice, fieldVars, procVars, fileVars, ended, callVars>>

Take == 1..MaxTakes
Process == {"none", "running", "killed", "exited"}
Content == {"short", "broken", "usable"}
Context == {"root", "shutdown"}
Point == {"out", "start", "prepare", "spawn", "frames", "resolve", "mpv",
          "headstart", "undo", "stop_wake", "wake_wait", "wake_killed", "discard",
          "discarded", "stop", "interrupt", "wait", "killed", "cancelled",
          "check", "unlock"}
Result == {"none", "ok", "failed"}

\* The types, and that the fields of the recorder are set and cleared together.
TypeOK ==
    /\ cameraWake \in {"none", "auto"} /\ videoDevice \in BOOLEAN
    /\ operation \in Caller \cup {NoCaller} /\ recording \in BOOLEAN
    /\ process \in 0..MaxTakes /\ wakeProcess \in 0..MaxTakes
    /\ recording <=> process # 0
    /\ wakeProcess # 0 => wakeProcess = process
    /\ take \in 0..MaxTakes
    /\ capture \in [Take -> Process] /\ wake \in [Take -> Process]
    /\ file \in 0..MaxTakes /\ content \in Content
    /\ ended \subseteq Context
    /\ pc \in [Caller -> Point] /\ op \in [Caller -> {"start", "stop"}]
    /\ ctx \in [Caller -> Context] /\ res \in [Caller -> Result]
    /\ mine \in [Caller -> 0..MaxTakes] /\ held \in [Caller -> 0..MaxTakes]

\* The recorder is new; a daemon that died earlier may have left its file.
Init ==
    /\ cameraWake \in {"none", "auto"}
    /\ videoDevice \in BOOLEAN /\ (videoDevice => cameraWake = "auto")
    /\ operation = NoCaller /\ recording = FALSE /\ process = 0 /\ wakeProcess = 0
    /\ take \in 0..1 /\ file = take
    /\ capture = [t \in Take |-> IF t <= take THEN "exited" ELSE "none"]
    /\ wake = [t \in Take |-> "none"]
    /\ content \in (IF file = 0 THEN {"short"} ELSE {"broken", "usable"})
    /\ ended = {}
    /\ pc = [c \in Caller |-> "out"] /\ op = [c \in Caller |-> "start"]
    /\ ctx = [c \in Caller |-> "root"] /\ res = [c \in Caller |-> "none"]
    /\ mine = [c \in Caller |-> 0] /\ held = [c \in Caller |-> 0]

Config == <<cameraWake, videoDevice>>

Goto(c, point) == pc' = [pc EXCEPT ![c] = point]

\* The call is over but for its deferred calls, which start at the point.
Return(c, result, point) == Goto(c, point) /\ res' = [res EXCEPT ![c] = result]

Cancelled(c) == ctx[c] \in ended
Usable == file # 0 /\ content = "usable"

\* Kill comes too late (os.ErrProcessDone) for a process that has exited.  What
\* a process that Kill could not reach goes on to write is left out.
Kill(processes, t) ==
    IF processes[t] = "running" THEN [processes EXCEPT ![t] = "killed"] ELSE processes

-----------------------------------------------------------------------------
(* The processes and the contexts                                          *)

ProcessOpensFile(t) ==
    /\ capture[t] = "running" /\ file # t
    /\ file' = t /\ content' = "short"
    /\ UNCHANGED <<Config, fieldVars, procVars, ended, callVars>>

ProcessWrites(t) ==
    /\ capture[t] = "running" /\ file = t
    /\ \/ content = "short" /\ content' = "broken"
       \/ content = "broken" /\ content' = "usable"
    /\ UNCHANGED <<Config, fieldVars, procVars, file, ended, callVars>>

CaptureExits(t) ==
    /\ capture[t] \in {"running", "killed"} /\ capture' = [capture EXCEPT ![t] = "exited"]
    /\ UNCHANGED <<Config, fieldVars, take, wake, fileVars, ended, callVars>>

WakeExits(t) ==
    /\ wake[t] \in {"running", "killed"} /\ wake' = [wake EXCEPT ![t] = "exited"]
    /\ UNCHANGED <<Config, fieldVars, take, capture, fileVars, ended, callVars>>

\* exec.CommandContext: both kinds of process were started under the context
\* of a Start, which is the root context of the daemon.
KillByContext(t) ==
    /\ "root" \in ended
    /\ \/ /\ capture[t] = "running" /\ capture' = [capture EXCEPT ![t] = "killed"]
          /\ UNCHANGED wake
       \/ /\ wake[t] = "running" /\ wake' = [wake EXCEPT ![t] = "killed"]
          /\ UNCHANGED capture
    /\ UNCHANGED <<Config, fieldVars, take, fileVars, ended, callVars>>

EndContext(x) ==
    /\ x \notin ended /\ ended' = ended \cup {x}
    /\ UNCHANGED <<Config, fieldVars, procVars, fileVars, callVars>>

\* The session removes the file of a recording it has closed.
RecordingRemoved ==
    /\ ~recording /\ \A c \in Caller : pc[c] = "out"
    /\ file # 0 /\ file' = 0 /\ content' = "short"
    /\ UNCHANGED <<Config, fieldVars, procVars, ended, callVars>>

-----------------------------------------------------------------------------
(* The calls.  To wait for the mutex is the same as not to have called yet.  *)

Enter(c, method, x) ==
    /\ pc[c] = "out"
    /\ method = "start" => x = "root" /\ take < MaxTakes
    /\ op' = [op EXCEPT ![c] = method] /\ ctx' = [ctx EXCEPT ![c] = x]
    /\ Goto(c, method)
    /\ UNCHANGED <<Config, recording, process, wakeProcess, procVars, fileVars,
                   ended, mine, held, res>>

\* Mutant: Stop does not take the operation lock.
CallUnlockedStop(c, method, x) ==
    /\ \/ method = "start" /\ operation = NoCaller /\ operation' = c
       \/ method = "stop" /\ UNCHANGED operation
    /\ Enter(c, method, x)

\* Only the shutdown of the daemon stops under a context of its own.
Call(c, method, x) ==
    /\ operation = NoCaller /\ operation' = c
    /\ Enter(c, method, x)

\* What a call knows ends with it.
Forget(c) ==
    /\ op' = [op EXCEPT ![c] = "start"] /\ ctx' = [ctx EXCEPT ![c] = "root"]
    /\ res' = [res EXCEPT ![c] = "none"]
    /\ mine' = [mine EXCEPT ![c] = 0] /\ held' = [held EXCEPT ![c] = 0]

Unlock(c) ==
    /\ pc[c] = "unlock"
    /\ operation' = NoCaller
    /\ Goto(c, "out") /\ Forget(c)
    /\ UNCHANGED <<Config, recording, process, wakeProcess, procVars, fileVars, ended>>

-----------------------------------------------------------------------------
(* Start                                                                   *)

\* pw-record missing, or a directory that cannot be made or secured, is a
\* failure like any other.
StartChecks(c) ==
    /\ pc[c] = "start"
    /\ \/ Return(c, "failed", "unlock")
       \/ ~Cancelled(c) /\ ~recording /\ Goto(c, "prepare") /\ UNCHANGED res
    /\ UNCHANGED <<Config, fieldVars, procVars, fileVars, ended, op, ctx, mine, held>>

\* Mutant: the file of an earlier recording is not removed.
KeepOldFile(c) ==
    /\ pc[c] = "prepare" /\ Goto(c, "spawn")
    /\ UNCHANGED <<Config, fieldVars, procVars, fileVars, ended, op, ctx, mine, held, res>>

RemoveOldFile(c) ==
    /\ pc[c] = "prepare"
    /\ \/ file' = 0 /\ content' = "short" /\ Goto(c, "spawn") /\ UNCHANGED res
       \/ file # 0 /\ Return(c, "failed", "unlock") /\ UNCHANGED fileVars
    /\ UNCHANGED <<Config, fieldVars, procVars, ended, op, ctx, mine, held>>

Spawn(c) ==
    /\ pc[c] = "spawn" /\ ~Cancelled(c) /\ take < MaxTakes
    /\ take' = take + 1 /\ capture' = [capture EXCEPT ![take + 1] = "running"]
    /\ recording' = TRUE /\ process' = take + 1
    /\ mine' = [mine EXCEPT ![c] = take + 1]
    /\ IF cameraWake = "none"
         THEN Return(c, "ok", "unlock")
         ELSE Goto(c, "frames") /\ UNCHANGED res
    /\ UNCHANGED <<Config, operation, wakeProcess, wake, fileVars, ended, op, ctx, held>>

SpawnFails(c) ==
    /\ pc[c] = "spawn" /\ Return(c, "failed", "unlock")
    /\ UNCHANGED <<Config, fieldVars, procVars, fileVars, ended, op, ctx, mine, held>>

-----------------------------------------------------------------------------
(* startCameraWake: mpv is started unless pw-record delivers frames by      *)
(* itself or no camera belongs to the microphone.                          *)

WakeUnchanged ==
    UNCHANGED <<Config, operation, recording, process, take, capture, fileVars,
                ended, op, ctx, mine, held>>

WaitForAudioFrames(c) ==
    /\ pc[c] = "frames"
    /\ \/ file # 0 /\ content # "short" /\ Return(c, "ok", "unlock")
       \/ Goto(c, "resolve") /\ UNCHANGED res
       \/ Cancelled(c) /\ Return(c, "failed", "undo")
    /\ UNCHANGED wake /\ UNCHANGED wakeProcess /\ WakeUnchanged

\* A microphone whose camera is not found, for whatever reason, starts without.
ResolveVideo(c) ==
    /\ pc[c] = "resolve"
    /\ \/ Goto(c, "mpv") /\ UNCHANGED res
       \/ ~videoDevice /\ Return(c, "ok", "unlock")
       \/ ~videoDevice /\ Cancelled(c) /\ Return(c, "failed", "undo")
    /\ UNCHANGED wake /\ UNCHANGED wakeProcess /\ WakeUnchanged

StartWake(c) ==
    /\ pc[c] = "mpv"
    /\ \/ /\ ~Cancelled(c)
          /\ wake' = [wake EXCEPT ![mine[c]] = "running"] /\ wakeProcess' = mine[c]
          /\ Goto(c, "headstart") /\ UNCHANGED res
       \/ Return(c, "failed", "undo") /\ UNCHANGED <<wake, wakeProcess>>
    /\ WakeUnchanged

HeadStart(c) ==
    /\ pc[c] = "headstart"
    /\ \/ Return(c, "ok", "unlock")
       \/ Cancelled(c) /\ Return(c, "failed", "undo")
    /\ UNCHANGED wake /\ UNCHANGED wakeProcess /\ WakeUnchanged

\* Where a call goes on after its camera wake has been stopped.
AfterWake(c) == IF op[c] = "start" THEN "discard" ELSE "unlock"

\* Mutant: a failed start stops pw-record but not the camera wake.
UndoKeepingWake(c) ==
    /\ pc[c] = "undo" /\ Goto(c, "discard")
    /\ recording' = FALSE /\ process' = 0 /\ wakeProcess' = 0
    /\ UNCHANGED <<Config, operation, procVars, fileVars, ended, op, ctx, mine, held, res>>

\* Mutant: a failed start leaves the process in its field.
UndoKeepingProcess(c) ==
    /\ pc[c] = "undo"
    /\ held' = [held EXCEPT ![c] = wakeProcess]
    /\ recording' = FALSE /\ wakeProcess' = 0
    /\ Goto(c, IF wakeProcess = 0 THEN "discard" ELSE "stop_wake")
    /\ UNCHANGED <<Config, operation, process, procVars, fileVars, ended, op, ctx, mine, res>>

\* Start fails after pw-record has started: both processes are given up.
Undo(c) ==
    /\ pc[c] = "undo"
    /\ held' = [held EXCEPT ![c] = wakeProcess]
    /\ recording' = FALSE /\ process' = 0 /\ wakeProcess' = 0
    /\ Goto(c, IF wakeProcess = 0 THEN "discard" ELSE "stop_wake")
    /\ UNCHANGED <<Config, operation, procVars, fileVars, ended, op, ctx, mine, res>>

\* Interrupt and Kill, one after the other; the outcome of the wait is dropped.
Discard(c) ==
    /\ pc[c] = "discard" /\ Goto(c, "discarded")
    /\ capture' = Kill(capture, mine[c])
    /\ UNCHANGED <<Config, fieldVars, take, wake, fileVars, ended, op, ctx, mine, held, res>>

\* waitProcess: the process or its timer, so it need not have exited.
Discarded(c) ==
    /\ pc[c] = "discarded" /\ Goto(c, "unlock")
    /\ UNCHANGED <<Config, fieldVars, procVars, fileVars, ended, op, ctx, mine, held, res>>

-----------------------------------------------------------------------------
(* stopCameraWake: interrupt, wait, kill, wait; it reports nothing.         *)

StopWakeUnchanged ==
    UNCHANGED <<Config, fieldVars, take, capture, fileVars, ended, op, ctx, mine, held, res>>

StopWake(c) ==
    /\ pc[c] = "stop_wake" /\ Goto(c, "wake_wait")
    /\ wake' \in {wake, Kill(wake, held[c])}
    /\ StopWakeUnchanged

WakeTimesOut(c) ==
    /\ pc[c] = "wake_wait" /\ Goto(c, "wake_killed")
    /\ wake' = Kill(wake, held[c])
    /\ StopWakeUnchanged

\* After Kill there is a second timer, and nobody asks which of the two it was.
WakeStopped(c) ==
    /\ \/ pc[c] = "wake_wait" /\ wake[held[c]] = "exited"
       \/ pc[c] = "wake_killed"
    /\ Goto(c, AfterWake(c))
    /\ UNCHANGED wake /\ StopWakeUnchanged

-----------------------------------------------------------------------------
(* Stop                                                                    *)

\* stopCameraWake is deferred, so it runs last, on every path from here.
StopReturns(c, result) ==
    Return(c, result, IF held[c] = 0 THEN "unlock" ELSE "stop_wake")

StopUnchanged == UNCHANGED <<Config, fieldVars, take, wake, fileVars, ended, op, ctx, mine, held>>

\* Kill, and return at once when it is refused.
KillOrFail(c, next) ==
    /\ capture' = Kill(capture, mine[c])
    /\ \/ Goto(c, next) /\ UNCHANGED res
       \/ capture[mine[c]] # "exited" /\ StopReturns(c, "failed")

\* The fields are cleared before the process is stopped.
StopTakesProcess(c) ==
    /\ pc[c] = "stop"
    /\ IF ~recording \/ process = 0
         THEN /\ Return(c, "failed", "unlock")
              /\ UNCHANGED <<recording, process, wakeProcess, mine, held>>
         ELSE /\ mine' = [mine EXCEPT ![c] = process]
              /\ held' = [held EXCEPT ![c] = wakeProcess]
              /\ recording' = FALSE /\ process' = 0 /\ wakeProcess' = 0
              /\ Goto(c, "interrupt") /\ UNCHANGED res
    /\ UNCHANGED <<Config, operation, procVars, fileVars, ended, op, ctx>>

\* A process that takes no interrupt is killed at once.
Interrupt(c) ==
    /\ pc[c] = "interrupt"
    /\ \/ Goto(c, "wait") /\ UNCHANGED <<capture, res>>
       \/ KillOrFail(c, "wait")
    /\ StopUnchanged

ProcessWaited(c) ==
    /\ pc[c] \in {"wait", "killed"} /\ capture[mine[c]] = "exited"
    /\ Goto(c, "check")
    /\ UNCHANGED <<capture, res>> /\ StopUnchanged

StopTimesOut(c) ==
    /\ pc[c] = "wait"
    /\ KillOrFail(c, "killed")
    /\ StopUnchanged

\* The outcome of this Kill is ignored.
StopCancelled(c) ==
    /\ pc[c] = "wait" /\ Cancelled(c)
    /\ capture' = Kill(capture, mine[c]) /\ Goto(c, "cancelled")
    /\ UNCHANGED res /\ StopUnchanged

\* Mutant: after Kill the process is waited for as long as it takes.
CleanupWaits(c) ==
    /\ pc[c] \in {"killed", "cancelled"} /\ capture[mine[c]] = "exited"
    /\ StopReturns(c, "failed")
    /\ UNCHANGED capture /\ StopUnchanged

\* The cleanup timer: the process did not exit after Kill, or the context had
\* ended, which fails the call also when the process did exit.
CleanupEnds(c) ==
    /\ pc[c] \in {"killed", "cancelled"}
    /\ StopReturns(c, "failed")
    /\ UNCHANGED capture /\ StopUnchanged

\* The mode of the file cannot be set, or recordingLooksUsable decides,
\* whatever Wait returned.
Check(c) ==
    /\ pc[c] = "check"
    /\ \/ StopReturns(c, IF Usable THEN "ok" ELSE "failed")
       \/ file # 0 /\ StopReturns(c, "failed")
    /\ UNCHANGED capture /\ StopUnchanged

-----------------------------------------------------------------------------
Step(c) ==
    \/ Unlock(c)
    \/ StartChecks(c) \/ RemoveOldFile(c) \/ Spawn(c) \/ SpawnFails(c)
    \/ WaitForAudioFrames(c) \/ ResolveVideo(c) \/ StartWake(c) \/ HeadStart(c)
    \/ Undo(c) \/ Discard(c) \/ Discarded(c)
    \/ StopWake(c) \/ WakeTimesOut(c) \/ WakeStopped(c)
    \/ StopTakesProcess(c) \/ Interrupt(c) \/ ProcessWaited(c) \/ StopTimesOut(c)
    \/ StopCancelled(c) \/ CleanupEnds(c) \/ Check(c)

Environment ==
    \/ \E t \in Take :
          \/ ProcessOpensFile(t) \/ ProcessWrites(t)
          \/ CaptureExits(t) \/ WakeExits(t) \/ KillByContext(t)
    \/ \E x \in Context : EndContext(x)
    \/ RecordingRemoved
    \/ \E c \in Caller, method \in {"start", "stop"}, x \in Context : Call(c, method, x)

Next == Environment \/ \E c \in Caller : Step(c)

Spec == Init /\ [][Next]_vars

\* Without a configured device, ResolveVideo runs pactl and pw-dump to the end.
\* They have no timeout: only the end of the context kills them (camera_wake.go
\* 37-38).
MayHang(c) == pc[c] = "resolve" /\ ~videoDevice /\ ~Cancelled(c)

\* A goroutine runs on and timers fire.  No process is assumed to write, to
\* exit or to die, but a pactl or pw-dump that was killed.
FairSpec == Spec /\ \A c \in Caller : WF_vars(~MayHang(c) /\ Step(c))

(***************************************************************************)
(* Properties                                                              *)
(***************************************************************************)

\* A recording that Stop hands over is the file of the process it stopped,
\* complete and with frames, and that process is gone: not the file of an
\* earlier take, and not one that is still being written.
OwnFrames ==
    \A c \in Caller : pc[c] = "unlock" /\ op[c] = "stop" /\ res[c] = "ok" =>
        /\ file = mine[c] /\ content = "usable"
        /\ capture[file] = "exited"

\* Between calls, no pw-record and no mpv runs but the ones of the recording in
\* progress, unless it has been killed or could not be: the microphone and the
\* camera are never left on by a path that forgets a process.
NothingRunsOn ==
    operation = NoCaller => \A t \in Take :
        /\ capture[t] = "running" => recording /\ process = t
        /\ wake[t] = "running" => recording /\ wakeProcess = t

\* Start and Stop return although pw-record and mpv may ignore every signal.
\* Only a Start that looks for the camera can stay for ever, with the operation
\* lock, and only while its context lives (audio_pwrecord.go 242-252).
CallsReturn ==
    \A c \in Caller : []<>(pc[c] = "out") \/ <>[](operation = c /\ MayHang(c))

(***************************************************************************)
(* The recorder implements the contract the session relies on.  A call      *)
(* takes effect when it returns: until then a Start that has spawned its     *)
(* process does not count, and a Stop that has taken the process does not    *)
(* either.                                                                 *)
(***************************************************************************)
Working(method) == \E c \in Caller : op[c] = method /\ pc[c] # "out" /\ mine[c] # 0

Contract == INSTANCE Recorder WITH
    capturing <- ~Working("start") /\ (recording \/ Working("stop")),
    take <- IF Working("start") THEN take - 1 ELSE take,
    wav <- IF recording \/ Working("start") \/ Working("stop") \/ ~Usable
             THEN 0 ELSE file

ImplementsRecorder == Contract!RecSpec
=============================================================================

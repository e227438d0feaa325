---------------------------- MODULE DaemonProofs ----------------------------
(***************************************************************************)
(* Proofs about Daemon, for any set of control handlers, any number of      *)
(* recordings and of presses, and any capacity of the channels.  A step of  *)
(* the daemon is a step of the session, of the trigger or of both, so that  *)
(* the invariants of the two carry over; what is added says what the        *)
(* goroutine of Daemon.Run knows of them.                                  *)
(***************************************************************************)
EXTENDS Daemon, SessionProofs, SequenceTheorems

\* The theorems about the trigger, for the trigger of the daemon.
P == INSTANCE TriggerProofs

-----------------------------------------------------------------------------
(* The inductive invariant                                                 *)

\* The points that a call of each method passes.  A call of stop that has got
\* to its release has seen the microphone closed.
PathAt(c) ==
    /\ pc[c] = "out" => cmd[c] = "start"
    /\ cmd[c] = "start" => pc[c] \in {"out", "enter", "start", "open", "idle", "release"}
    /\ cmd[c] = "stop" => pc[c] \in {"enter", "queued", "stop", "close", "transcribe",
                                     "copy", "paste", "remove", "idle", "release"}
    /\ cmd[c] = "retry" => pc[c] \in {"enter", "retry", "copy", "paste", "release"}
    /\ cmd[c] = "stop" /\ pc[c] = "release" => ~capturing

Paths == \A c \in Caller : PathAt(c)

Ending == {"stopTrigger", "stopWatcher", "stopControl", "returned"}

\* Main calls the session from its loop, for the event it took last, and once
\* more at the end.
MainCalls ==
    /\ pc[Main] # "out" => main \in {"loop", "stopSession"}
    /\ main = "stopSession" /\ pc[Main] # "out" => cmd[Main] = "stop"
    /\ main = "loop" /\ pc[Main] # "out" =>
         received > 0 /\ cmd[Main] = MethodOf(log[received])
    /\ main \in Shutdown \cup Ending => ctxDone
    /\ main \in {"startTrigger", "startControl"} => received = 0

\* The context of a handler ends with the root context, that of the call of
\* the shutdown with its timeout.
Contexts ==
    /\ ctxDone => \A h \in Handler : pc[h] # "out" => cancelled[h]
    /\ main = "loop" /\ ~ctxDone => ~cancelled[Main]
    /\ main = "stopSession" /\ ~shutdownOver => ~cancelled[Main]
    /\ pc[Main] = "out" => ~cancelled[Main]

\* Without the server, and before it is started, there are no requests.
Requests ==
    /\ main \in {"startTrigger", "startControl"} => ~controlStarted
    /\ ~controlStarted => \A h \in Handler : pc[h] = "out"

\* Once the session is shut down only a stop can still have the microphone,
\* and it is closing it.
Settling ==
    ~shutdownOver =>
        /\ /\ main \in Ending \/ (main = "stopSession" /\ pc[Main] = "out")
           /\ capturing
           => op \in Handler /\ pc[op] = "close"
        /\ main = "returned" => \A h \in Handler : pc[h] = "out"

\* ReleaseClosesMicrophone.
Released ==
    Handler = {} /\ AtSelect /\ ~ctxDone /\ received > 0 /\ log[received].kind = "release"
    => ~capturing

\* The press up to which the loop has handled its events.
HandledId ==
    LET n == IF pc[Main] = "out" THEN received ELSE received - 1
    IN  IF n = 0 THEN 0 ELSE log[n].id

\* In toggle mode, a text that was not pasted is there until the next event is
\* handled: as the last transcript, and then in the hands of a retry.
Kept ==
    /\ main \in {"startTrigger", "startControl"} => failed.id = 0 /\ failed.take = 0
    /\ Handler = {} /\ mode = "toggle" /\ main = "loop" =>
        /\ failed.id <= HandledId
        /\ failed.take # 0 /\ failed.id = HandledId =>
             /\ pc[Main] \in {"out", "enter", "retry"} =>
                  ~capturing /\ lastTranscript = failed.take
             /\ cmd[Main] = "retry" /\ pc[Main] \in {"copy", "paste", "release"} =>
                  text[Main] = failed.take
SessionInv == TypeOK /\ IInv

RunIInv ==
    /\ SessionInv /\ P!IInv /\ RunTypeOK
    /\ Paths /\ MainCalls /\ Contexts /\ Requests
    /\ Settling /\ Released /\ Kept

-----------------------------------------------------------------------------
(* Steps of the daemon are steps of its parts                              *)

\* The trigger of the daemon is the trigger of the proofs.
LEMMA SameTrigger ==
    /\ T!vars = P!vars /\ (T!TypeOK <=> P!TypeOK) /\ (T!Init <=> P!Init)
    /\ (T!Receive <=> P!Receive) /\ (T!EndContext <=> P!EndContext)
    /\ (T!Key <=> P!Key) /\ (T!WindowEnds <=> P!WindowEnds)
    /\ (T!Source <=> P!Source) /\ (T!Watcher <=> P!Watcher)
<1> USE DEF T!keyVars, P!keyVars, T!stampVars, P!stampVars, T!sourceVars, P!sourceVars,
            T!localVars, P!localVars, T!watcherVars, P!watcherVars, T!outVars, P!outVars,
            T!Occurred, P!Occurred, T!Events, P!Events, T!Press, P!Press,
            T!RawEvent, P!RawEvent, T!Event, P!Event
<1>1. T!vars = P!vars /\ (T!TypeOK <=> P!TypeOK) /\ (T!Init <=> P!Init)
  BY DEF T!vars, P!vars, T!TypeOK, P!TypeOK, T!Init, P!Init
<1>2. (T!Receive <=> P!Receive) /\ (T!EndContext <=> P!EndContext)
  BY DEF T!Receive, P!Receive, T!EndContext, P!EndContext
<1>3. (T!Key <=> P!Key) /\ (T!WindowEnds <=> P!WindowEnds)
  BY DEF T!Key, P!Key, T!KeyDown, P!KeyDown, T!KeyUp, P!KeyUp, T!WindowEnds, P!WindowEnds
<1>4. T!Source <=> P!Source
  BY DEF T!Source, P!Source, T!SourcePress, P!SourcePress, T!SourceRelease, P!SourceRelease,
     T!SourceEmit, P!SourceEmit, T!SourceExits, P!SourceExits
<1>5. T!Watcher <=> P!Watcher
  <2> USE DEF T!Send, P!Send, T!IsDoubleTap, P!IsDoubleTap
  <2>1. ASSUME NEW press
        PROVE  /\ T!HoldPress(press) <=> P!HoldPress(press)
               /\ T!ToggleOff(press) <=> P!ToggleOff(press)
               /\ T!ToggleDoubleTap(press) <=> P!ToggleDoubleTap(press)
               /\ T!ToggleLatePress(press) <=> P!ToggleLatePress(press)
               /\ T!ToggleHoldBack(press) <=> P!ToggleHoldBack(press)
    BY DEF T!HoldPress, P!HoldPress, T!ToggleOff, P!ToggleOff,
       T!ToggleDoubleTap, P!ToggleDoubleTap, T!ToggleLatePress, P!ToggleLatePress,
       T!ToggleHoldBack, P!ToggleHoldBack
  <2>2. T!WatcherPress <=> P!WatcherPress
    BY <2>1 DEF T!WatcherPress, P!WatcherPress
  <2>3. T!WatcherRelease <=> P!WatcherRelease
    BY DEF T!WatcherRelease, P!WatcherRelease
  <2>4. /\ T!TimerFires <=> P!TimerFires
        /\ T!Emit <=> P!Emit
        /\ T!WatcherExits <=> P!WatcherExits
    BY DEF T!TimerFires, P!TimerFires, T!Emit, P!Emit, T!WatcherExits, P!WatcherExits
  <2>5. QED
    BY <2>2, <2>3, <2>4 DEF T!Watcher, P!Watcher
<1>6. QED
  BY <1>1, <1>2, <1>3, <1>4, <1>5

\* What a step of the daemon is to the trigger.
LEMMA TriggerMoves ==
  ASSUME [RunNext]_allVars
  PROVE  [P!Next]_(P!vars)
<1>1. CASE UNCHANGED triggerVars
  BY <1>1 DEF triggerVars, P!vars, P!keyVars, P!stampVars, P!sourceVars, P!watcherVars,
     P!localVars, P!outVars
<1>2. CASE T!Receive \/ T!EndContext \/ T!Key \/ T!WindowEnds \/ T!Source \/ T!Watcher
  BY <1>2, SameTrigger DEF P!Next
<1>3. CASE MainStep
  BY <1>1, <1>2, <1>3 DEF MainStep, StartTrigger, StartControl, HandleEvent, LeaveLoop,
     ShutdownSession, SessionShutDown, StopSource, StopWatcher, StopControl, SessionStep
<1>4. CASE (\E h \in Handler : SessionStep(h) \/ \E m \in Method : Request(h, m)) \/ ShutdownTimeout
  BY <1>1, <1>4 DEF SessionStep, Request, ShutdownTimeout
<1>5. CASE Signal \/ TriggerStep
  BY <1>2, <1>5 DEF Signal, TriggerStep
<1>6. CASE UNCHANGED allVars
  BY <1>1, <1>6 DEF allVars
<1>7. QED
  BY <1>3, <1>4, <1>5, <1>6 DEF RunNext

\* The end of contexts, to the session.
Cancelling ==
    /\ cancelled' \in [Caller -> BOOLEAN]
    /\ UNCHANGED <<serviceVars, pc, cmd, ahead, text, res, pasteVars, recVars>>

\* The event that the daemon takes is one the watcher has sent.
LEMMA TakenEvent ==
  ASSUME P!TypeOK, T!Receive
  PROVE  /\ received + 1 \in 1..Len(log) /\ log[received + 1] \in P!Event
         /\ received' = received + 1 /\ log' = log
         /\ MethodOf(log[received + 1]) \in Method
<1>1. received + 1 \in 1..Len(log) /\ received' = received + 1 /\ log' = log
  BY DEF T!Receive, T!Events, P!TypeOK
<1>2. log[received + 1] \in P!Event
  BY <1>1, ElementOfSeq DEF P!TypeOK
<1>3. MethodOf(log[received + 1]) \in Method
  BY <1>2 DEF P!Event, MethodOf, Method
<1>4. QED
  BY <1>1, <1>2, <1>3

\* What a step of the daemon is to the session.
LEMMA SessionMoves ==
  ASSUME [RunNext]_allVars, TypeOK, P!TypeOK
  PROVE  [Next]_vars \/ Cancelling
<1>1. CASE UNCHANGED sessionVars
  BY <1>1 DEF sessionVars
<1>2. ASSUME NEW c \in Caller, SessionStep(c)
      PROVE  [Next]_vars
  BY <1>2 DEF SessionStep, Next
<1>3. ASSUME NEW c \in Caller, NEW m \in Method, Call(c, m)
      PROVE  [Next]_vars
  BY <1>3 DEF Next
<1>4. CASE MainStep
  <2>1. CASE HandleEvent
    <3>1. MethodOf(log[received + 1]) \in Method
      BY <2>1, TakenEvent DEF HandleEvent
    <3>2. QED
      BY <1>3, <2>1, <3>1, MainAssumption DEF HandleEvent
  <2>2. CASE ShutdownSession
    BY <1>1, <1>3, <2>2, MainAssumption DEF ShutdownSession, Method
  <2>3. CASE SessionStep(Main)
    BY <1>2, <2>3, MainAssumption
  <2>4. QED
    BY <1>1, <1>4, <2>1, <2>2, <2>3 DEF MainStep, StartTrigger, StartControl, LeaveLoop,
       SessionShutDown, StopSource, StopWatcher, StopControl
<1>5. CASE \E h \in Handler : SessionStep(h) \/ \E m \in Method : Request(h, m)
  BY <1>2, <1>3, <1>5 DEF Handler, Request
<1>6. CASE Signal \/ ShutdownTimeout
  BY <1>6, MainAssumption DEF Signal, ShutdownTimeout, Cancelling, TypeOK, CallTypeOK
<1>7. CASE TriggerStep \/ UNCHANGED allVars
  BY <1>1, <1>7 DEF TriggerStep, allVars
<1>8. QED
  BY <1>4, <1>5, <1>6, <1>7 DEF RunNext

-----------------------------------------------------------------------------
(* What the steps of the session do                                        *)

\* The steps inside the operation.
Works(c) ==
    \/ ToggleRecording(c) \/ StartRecording(c) \/ Open(c) \/ StopRecording(c)
    \/ Close(c) \/ Transcribed(c) \/ TranscriptionFailed(c) \/ RetryLastPaste(c)
    \/ Copied(c) \/ CopyCancelled(c) \/ Pasted(c) \/ PasteFailed(c)
    \/ RemoveRecording(c) \/ SetIdle(c)

\* A step inside the operation keeps to the path of its method, and moves the
\* microphone only in two places.
LEMMA WorkDoes ==
  ASSUME TypeOK, IInv, NEW c \in Caller, Works(c), PathAt(c)
  PROVE  /\ op = c /\ InsideStep(c) /\ PathAt(c)' /\ cancelled' = cancelled
         /\ pc[c] # "release" /\ pc'[c] # "out"
         /\ capturing' => capturing \/ (pc[c] = "open" /\ ~cancelled[c])
         /\ pc[c] = "close" => ~capturing'
         /\ pc'[c] # "retry"
         /\ cmd[c] = "retry" =>
              /\ UNCHANGED <<capturing, lastTranscript>>
              /\ pc[c] # "retry" => text'[c] = text[c]
              /\ pc[c] = "retry" /\ RetryRefusal = "none" => text'[c] = lastTranscript
<1>1. InsideStep(c) /\ op = c
  BY InsideSteps DEF Works, IInv, OperationExclusive, InsideStep
<1>2. cancelled' = cancelled
  BY DEF Works, ToggleRecording, StartRecording, Open, StopRecording, Close, Transcribed,
     TranscriptionFailed, RetryLastPaste, Copied, CopyCancelled, Pasted, PasteFailed,
     RemoveRecording, SetIdle, InsideUnchanged
<1>3. cmd' = cmd /\ PointAt(c) /\ cmd[c] \in Method /\ c \in DOMAIN pc /\ capturing \in BOOLEAN
      /\ c \in DOMAIN text
  BY <1>1 DEF InsideStep, IInv, PointInv, TypeOK, CallTypeOK, RecTypeOK
<1> USE <1>3 DEF PathAt, Method, Goto, Leave, Become, PointAt, MethodAt, StateAt, AtRest
<1> DEFINE Goal == /\ PathAt(c)' /\ pc[c] # "release" /\ pc'[c] # "out"
                   /\ capturing' => capturing \/ (pc[c] = "open" /\ ~cancelled[c])
                   /\ pc[c] = "close" => ~capturing'
                   /\ pc'[c] # "retry"
                   /\ cmd[c] = "retry" =>
                        /\ UNCHANGED <<capturing, lastTranscript>>
                        /\ pc[c] # "retry" => text'[c] = text[c]
                        /\ pc[c] = "retry" /\ RetryRefusal = "none" =>
                             text'[c] = lastTranscript
<1>4. ASSUME ToggleRecording(c) PROVE Goal
  BY <1>4 DEF ToggleRecording, recVars
<1>5. ASSUME StartRecording(c) PROVE Goal
  BY <1>5 DEF StartRecording, recVars
<1>6. ASSUME Open(c) PROVE Goal
  BY <1>6 DEF Open, RecorderStarted, RecorderStartFailed
<1>7. ASSUME StopRecording(c) PROVE Goal
  BY <1>7 DEF StopRecording, recVars
<1>8. ASSUME Close(c) PROVE Goal
  BY <1>8 DEF Close, RecorderStopped, RecorderStopFailed
<1>9. ASSUME Transcribed(c) \/ TranscriptionFailed(c) PROVE Goal
  BY <1>9 DEF Transcribed, TranscriptionFailed, recVars
<1>10. ASSUME RetryLastPaste(c) PROVE Goal
  BY <1>10 DEF RetryLastPaste, recVars
<1>11. ASSUME Copied(c) \/ CopyCancelled(c) PROVE Goal
  BY <1>11 DEF Copied, CopyCancelled, AfterPaste, recVars, serviceVars
<1>12. ASSUME Pasted(c) \/ PasteFailed(c) PROVE Goal
  BY <1>12 DEF Pasted, PasteFailed, AfterPaste, recVars
<1>13. ASSUME RemoveRecording(c) \/ SetIdle(c) PROVE Goal
  BY <1>13 DEF RemoveRecording, RecordingRemoved, SetIdle, recVars
<1>14. Goal
  BY <1>4, <1>5, <1>6, <1>7, <1>8, <1>9, <1>10, <1>11, <1>12, <1>13 DEF Works
<1>15. QED
  BY <1>1, <1>2, <1>14

\* The steps at the door: in, out, and through the queue.
Passes(c) == Acquire(c) \/ Refuse(c) \/ Enqueue(c) \/ LeaveQueue(c) \/ Release(c)

\* A step at the door leaves the microphone alone and lets at most one waiting
\* stop in.
LEMMA PassDoes ==
  ASSUME TypeOK, IInv, NEW c \in Caller, Passes(c)
  PROVE  /\ pc[c] # "out" /\ pc[c] # "close" /\ pc[c] # "open"
         /\ UNCHANGED <<capturing, lastTranscript, current>>
         /\ \A d \in Caller \ {c} :
              /\ cmd'[d] = cmd[d] /\ cancelled'[d] = cancelled[d] /\ text'[d] = text[d]
              /\ pc'[d] = pc[d] \/ (pc[d] = "queued" /\ pc'[d] = "stop")
         /\ \/ /\ pc'[c] = "out" /\ cmd'[c] = "start" /\ ~cancelled'[c]
               /\ pc[c] = "release" \/ cancelled[c] \/ (pc[c] = "enter" /\ cmd[c] # "stop")
            \/ /\ cmd' = cmd /\ cancelled' = cancelled /\ text' = text /\ pc[c] = "enter"
               /\ pc'[c] = cmd[c] \/ (pc'[c] = "queued" /\ cmd[c] = "stop")
         /\ op # NoCaller /\ op # c => op' = op /\ pc'[op] = pc[op]
<1> USE DEF TypeOK, CallTypeOK, Goto, Forget, Become, serviceVars, recVars
<1>1. CASE Acquire(c)
  BY <1>1 DEF Acquire
<1>2. CASE Refuse(c)
  BY <1>2, NoCallerAssumption DEF Refuse, ServiceTypeOK
<1>3. CASE Enqueue(c)
  BY <1>3 DEF Enqueue, ServiceTypeOK
<1>4. CASE LeaveQueue(c)
  BY <1>4 DEF LeaveQueue, ServiceTypeOK
<1>5. CASE Release(c)
  <2>1. pc[c] = "release" /\ op = c
    BY <1>5 DEF Release, IInv, OperationExclusive, Inside
  <2>2. /\ pc'[c] = "out" /\ cmd'[c] = "start" /\ ~cancelled'[c]
        /\ \A d \in Caller \ {c} : pc'[d] = pc[d] \/ (pc[d] = "queued" /\ pc'[d] = "stop")
    <3>1. CASE ReleaseToNobody(c)
      BY <1>5, <3>1 DEF Release, ReleaseToNobody
    <3>2. CASE ReleaseToFirst(c)
      <4>1. PICK w \in Queued : pc' = [pc EXCEPT ![c] = "out", ![w] = "stop"]
        BY <3>2 DEF ReleaseToFirst
      <4>2. w \in Caller /\ w # c /\ pc[w] = "queued"
        BY <2>1, <4>1 DEF Queued
      <4>3. QED
        BY <1>5, <4>1, <4>2 DEF Release
    <3>3. QED
      BY <1>5, <3>1, <3>2 DEF Release
  <2>3. QED
    BY <1>5, <2>1, <2>2 DEF Release
<1>6. QED
  BY <1>1, <1>2, <1>3, <1>4, <1>5 DEF Passes

\* What a step of one caller means to itself, to the others, and to the
\* microphone.
LEMMA StepDoes ==
  ASSUME TypeOK, IInv, Paths, NEW c \in Caller, Step(c)
  PROVE  /\ pc[c] # "out"
         /\ \A d \in Caller \ {c} :
              /\ cmd'[d] = cmd[d] /\ cancelled'[d] = cancelled[d]
              /\ pc'[d] = pc[d] \/ (pc[d] = "queued" /\ pc'[d] = "stop")
         /\ pc'[c] # "out" => cmd'[c] = cmd[c] /\ cancelled'[c] = cancelled[c]
         /\ pc'[c] = "out" =>
              /\ ~cancelled'[c] /\ UNCHANGED <<capturing, lastTranscript>>
              /\ pc[c] = "release" \/ cancelled[c] \/ cmd[c] # "stop"
         /\ capturing' => capturing \/ (pc[c] = "open" /\ ~cancelled[c])
         /\ pc[c] = "close" => ~capturing'
         /\ op # NoCaller /\ op # c => op' = op /\ pc'[op] = pc[op]
         /\ Paths'
<1>1. PathAt(c) /\ op \in Caller \cup {NoCaller}
  BY DEF Paths, TypeOK, ServiceTypeOK
<1>2. CASE Works(c)
  <2>1. /\ op = c /\ InsideStep(c) /\ PathAt(c)' /\ cancelled' = cancelled
        /\ pc[c] # "out" /\ pc'[c] # "out"
        /\ capturing' => capturing \/ (pc[c] = "open" /\ ~cancelled[c])
        /\ pc[c] = "close" => ~capturing'
    BY <1>1, <1>2, WorkDoes DEF InsideStep, Inside
  <2>2. cmd' = cmd /\ \A d \in Caller \ {c} : pc'[d] = pc[d]
    BY <2>1 DEF InsideStep
  <2>3. ASSUME NEW d \in Caller \ {c} PROVE PathAt(d)'
    <3>1. pc[d] # "release"
      BY <2>1 DEF IInv, OperationExclusive, Inside
    <3>2. QED
      BY <2>2, <3>1 DEF Paths, PathAt
  <2>4. QED
    BY <2>1, <2>2, <2>3 DEF Paths
<1>3. CASE Passes(c)
  <2>1. ASSUME NEW d \in Caller \ {c} PROVE PathAt(d)'
    <3>1. /\ cmd'[d] = cmd[d] /\ capturing' = capturing
          /\ pc'[d] = pc[d] \/ (pc[d] = "queued" /\ pc'[d] = "stop")
      BY <1>3, PassDoes
    <3>2. pc[d] = "queued" => cmd[d] = "stop"
      BY DEF IInv, PointInv, PointAt, MethodAt
    <3>3. QED
      BY <3>1, <3>2 DEF Paths, PathAt
  <2>2. PathAt(c)'
    <3>1. \/ pc'[c] = "out" /\ cmd'[c] = "start"
          \/ /\ cmd' = cmd
             /\ pc'[c] = cmd[c] \/ (pc'[c] = "queued" /\ cmd[c] = "stop")
      BY <1>3, PassDoes
    <3>2. cmd[c] \in Method
      BY DEF TypeOK, CallTypeOK
    <3>3. QED
      BY <3>1, <3>2 DEF PathAt, Method
  <2>3. Paths'
    BY <2>1, <2>2 DEF Paths
  <2>4. /\ pc[c] # "out" /\ pc[c] # "close"
        /\ UNCHANGED <<capturing, lastTranscript>>
        /\ \A d \in Caller \ {c} :
              /\ cmd'[d] = cmd[d] /\ cancelled'[d] = cancelled[d]
              /\ pc'[d] = pc[d] \/ (pc[d] = "queued" /\ pc'[d] = "stop")
        /\ op # NoCaller /\ op # c => op' = op /\ pc'[op] = pc[op]
    BY <1>3, PassDoes
  <2>5. \/ /\ pc'[c] = "out" /\ ~cancelled'[c]
           /\ pc[c] = "release" \/ cancelled[c] \/ cmd[c] # "stop"
        \/ cmd' = cmd /\ cancelled' = cancelled /\ pc'[c] # "out"
    <3>1. cmd[c] # "out"
      BY DEF TypeOK, CallTypeOK, Method
    <3>2. QED
      BY <1>3, <3>1, PassDoes
  <2>6. QED
    BY <2>3, <2>4, <2>5
<1>4. QED
  BY <1>2, <1>3 DEF Step, Works, Passes

\* A call begins a path, and touches nobody else.
LEMMA CallDoes ==
  ASSUME TypeOK, IInv, Paths, NEW c \in Caller, NEW m \in Method, Call(c, m)
  PROVE  /\ pc[c] = "out" /\ pc'[c] = "enter" /\ cmd'[c] = m
         /\ \A d \in Caller \ {c} :
              pc'[d] = pc[d] /\ cmd'[d] = cmd[d] /\ cancelled'[d] = cancelled[d]
         /\ UNCHANGED <<capturing, lastTranscript, op>>
         /\ op # c
         /\ Paths'
<1>1. /\ pc[c] = "out" /\ pc'[c] = "enter" /\ cmd'[c] = m
      /\ \A d \in Caller \ {c} :
           pc'[d] = pc[d] /\ cmd'[d] = cmd[d] /\ cancelled'[d] = cancelled[d]
      /\ UNCHANGED <<capturing, lastTranscript, op>>
  BY DEF Call, Goto, TypeOK, CallTypeOK, serviceVars, recVars
<1>2. op # c
  BY <1>1 DEF IInv, OperationExclusive, Inside
<1>3. PathAt(c)'
  BY <1>1 DEF PathAt, Method
<1>4. ASSUME NEW d \in Caller \ {c} PROVE PathAt(d)'
  BY <1>1 DEF Paths, PathAt
<1>5. QED
  BY <1>1, <1>2, <1>3, <1>4 DEF Paths

-----------------------------------------------------------------------------
(* The inductive invariant is kept                                         *)

\* The steps that leave the calls alone, but for their contexts.
Still ==
    \/ StartTrigger \/ StartControl \/ LeaveLoop \/ SessionShutDown
    \/ StopSource \/ StopWatcher \/ StopControl
    \/ ShutdownSession /\ main' = "stopTrigger"
    \/ Signal \/ ShutdownTimeout \/ TriggerStep \/ UNCHANGED allVars

\* Main calls the session at the end of Run.
ShutdownCall == ShutdownSession /\ Call(Main, "stop")

\* Every step is one of these.
LEMMA Kinds ==
  ASSUME [RunNext]_allVars
  PROVE  \/ Still \/ HandleEvent \/ ShutdownCall
         \/ \E h \in Handler : \E m \in Method : Request(h, m)
         \/ \E c \in Caller : SessionStep(c)
BY MainAssumption DEF RunNext, MainStep, Still, ShutdownCall, ShutdownSession, Handler

LEMMA StillDoes ==
  ASSUME Still
  PROVE  UNCHANGED <<pc, cmd, capturing, lastTranscript, op, text, received, failed>>
BY DEF Still, StartTrigger, StartControl, LeaveLoop, SessionShutDown, StopSource,
   StopWatcher, StopControl, ShutdownSession, Signal, ShutdownTimeout, TriggerStep,
   T!EndContext, T!Key, T!KeyDown, T!KeyUp, T!WindowEnds, T!Source, T!SourcePress,
   T!SourceRelease, T!SourceEmit, T!SourceExits, T!Watcher, T!WatcherPress,
   T!WatcherRelease, T!TimerFires, T!Emit, T!WatcherExits, T!outVars,
   allVars, sessionVars, vars, serviceVars, callVars, pasteVars, recVars, triggerVars

\* A call is of a method, and touches no other caller.
LEMMA Calls ==
  ASSUME SessionInv, Paths, P!TypeOK
  PROVE  /\ HandleEvent => Call(Main, MethodOf(log[received + 1]))
                           /\ MethodOf(log[received + 1]) \in Method
         /\ ShutdownCall => Call(Main, "stop") /\ "stop" \in Method
         /\ \A h \in Handler, m \in Method : Request(h, m) => Call(h, m) /\ h \in Caller \ {Main}
BY TakenEvent DEF HandleEvent, ShutdownCall, Request, Method, Handler

LEMMA PathsInductive == RunIInv /\ [RunNext]_allVars => Paths'
<1> SUFFICES ASSUME RunIInv, [RunNext]_allVars PROVE Paths'
  OBVIOUS
<1>1. SessionInv /\ Paths /\ TypeOK /\ IInv /\ P!TypeOK
  BY DEF RunIInv, SessionInv, P!IInv
<1>2. CASE Still
  BY <1>1, <1>2, StillDoes DEF Paths, PathAt
<1>3. CASE HandleEvent
  BY <1>1, <1>3, Calls, CallDoes, MainAssumption
<1>4. CASE ShutdownCall
  BY <1>1, <1>4, Calls, CallDoes, MainAssumption
<1>5. ASSUME NEW h \in Handler, NEW m \in Method, Request(h, m) PROVE Paths'
  BY <1>1, <1>5, Calls, CallDoes
<1>6. ASSUME NEW c \in Caller, SessionStep(c) PROVE Paths'
  BY <1>1, <1>6, StepDoes DEF SessionStep
<1>7. QED
  BY <1>2, <1>3, <1>4, <1>5, <1>6, Kinds

LEMMA RunTypeInductive == RunIInv /\ [RunNext]_allVars => RunTypeOK'
<1> SUFFICES ASSUME RunIInv, [RunNext]_allVars PROVE RunTypeOK'
  OBVIOUS
<1>1. RunTypeOK /\ TypeOK /\ P!TypeOK
  BY DEF RunIInv, SessionInv, P!IInv
<1> USE DEF RunTypeOK, runVars
<1>2. CASE StartTrigger \/ StartControl
  BY <1>1, <1>2, ControlEnabledAssumption DEF StartTrigger, StartControl, MainPoint, Shutdown
<1>3. CASE HandleEvent
  BY <1>1, <1>3 DEF HandleEvent
<1>4. CASE LeaveLoop \/ ShutdownSession \/ SessionShutDown \/ StopSource \/ StopWatcher \/ StopControl
  BY <1>1, <1>4 DEF LeaveLoop, ShutdownSession, SessionShutDown, StopSource, StopWatcher,
     StopControl, MainPoint, Shutdown
<1>5. ASSUME NEW c \in Caller, SessionStep(c) PROVE RunTypeOK'
  <2>1. failed' \in [id : 0..MaxPresses, take : Take]
    <3>1. CASE failed' = failed
      BY <1>1, <3>1
    <3>2. CASE failed' # failed
      <4>1. failed' = [id |-> log[received].id, take |-> text[c]] /\ main = "loop" /\ pc[c] = "release"
               /\ c = Main
        BY <1>5, <3>2 DEF SessionStep
      <4>2. received > 0
        BY <4>1 DEF RunIInv, MainCalls
      <4>3. log[received] \in P!Event
        BY <1>1, <4>2, ElementOfSeq DEF P!TypeOK
      <4>4. log[received].id \in 0..MaxPresses /\ text[c] \in Take
        BY <1>1, <4>3 DEF P!Event, TypeOK, CallTypeOK
      <4>5. QED
        BY <4>1, <4>4
    <3>3. QED
      BY <3>1, <3>2
  <2>2. QED
    BY <1>1, <1>5, <2>1 DEF SessionStep
<1>6. ASSUME NEW h \in Handler, NEW m \in Method, Request(h, m) PROVE RunTypeOK'
  BY <1>1, <1>6 DEF Request
<1>7. CASE Signal \/ ShutdownTimeout \/ TriggerStep \/ UNCHANGED allVars
  BY <1>1, <1>7 DEF Signal, ShutdownTimeout, TriggerStep, allVars
<1>8. QED
  BY <1>2, <1>3, <1>4, <1>5, <1>6, <1>7, MainAssumption DEF RunNext, MainStep, Handler

\* Events that were sent stay as they are.
LEMMA LogGrows ==
  ASSUME [RunNext]_allVars, P!TypeOK
  PROVE  /\ mode' = mode
         /\ \A i \in 1..Len(log) : log'[i] = log[i]
<1>1. [P!Next]_(P!vars)
  BY TriggerMoves
<1>2. CASE P!Emit
  BY <1>2 DEF P!Emit, P!TypeOK, P!keyVars
<1>3. CASE ~P!Emit
  <2>1. mode' = mode /\ log' = log
    BY <1>1, <1>3 DEF P!Next, P!Key, P!KeyDown, P!KeyUp, P!WindowEnds, P!Source, P!SourcePress,
       P!SourceRelease, P!SourceEmit, P!SourceExits, P!Watcher, P!WatcherPress,
       P!WatcherRelease, P!TimerFires, P!WatcherExits, P!EndContext, P!Receive,
       P!keyVars, P!outVars, P!vars
  <2>2. QED
    BY <2>1
<1>4. QED
  BY <1>2, <1>3

\* The trigger works beside the daemon.
LEMMA TriggerStepDoes ==
  ASSUME TriggerStep \/ UNCHANGED allVars
  PROVE  UNCHANGED <<main, ctxDone, cancelled, shutdownOver, controlStarted, triggerStarted>>
BY DEF TriggerStep, T!Key, T!KeyDown, T!KeyUp, T!WindowEnds, T!Source, T!SourcePress,
   T!SourceRelease, T!SourceEmit, T!SourceExits, T!Watcher, T!WatcherPress,
   T!WatcherRelease, T!TimerFires, T!Emit, T!WatcherExits,
   allVars, sessionVars, vars, callVars, triggerVars, runVars

\* What becomes of the contexts and of the place of Main when no call moves.
LEMMA StillMain ==
  ASSUME Still
  PROVE  \/ UNCHANGED <<main, ctxDone, cancelled, shutdownOver, controlStarted>>
         \/ /\ UNCHANGED <<ctxDone, cancelled, shutdownOver>>
            /\ \/ /\ main = "startTrigger" /\ main' = "startControl"
                  /\ UNCHANGED controlStarted
               \/ main = "startControl" /\ main' \in {"loop", "failed", "panicked"}
               \/ /\ UNCHANGED controlStarted
                  /\ \/ LeaveLoop
                     \/ main = "status" /\ current # "recording" /\ main' = "stopTrigger"
                     \/ SessionShutDown
                     \/ main = "stopTrigger" /\ main' \in {"stopWatcher", "stopControl"}
                     \/ main = "stopWatcher" /\ main' = "stopControl"
                     \/ StopControl
         \/ /\ UNCHANGED <<main, shutdownOver, controlStarted>>
            /\ main \notin {"startTrigger", "startControl"}
            /\ ~ctxDone /\ ctxDone' /\ cancelled' = [c \in Caller |-> pc[c] # "out"]
         \/ /\ UNCHANGED <<main, ctxDone, controlStarted>> /\ main \in Shutdown
            /\ shutdownOver' /\ cancelled' = [cancelled EXCEPT ![Main] = pc[Main] # "out"]
<1>1. CASE StartTrigger \/ StartControl
  BY <1>1 DEF StartTrigger, StartControl, sessionVars, vars, callVars, triggerVars
<1>2. CASE LeaveLoop \/ SessionShutDown \/ StopControl
  BY <1>2 DEF LeaveLoop, SessionShutDown, StopControl, sessionVars, vars, callVars, triggerVars
<1>3. CASE StopSource \/ StopWatcher
  BY <1>3 DEF StopSource, StopWatcher, sessionVars, vars, callVars, triggerVars
<1>4. CASE ShutdownSession /\ main' = "stopTrigger"
  BY <1>4 DEF ShutdownSession, sessionVars, vars, callVars, triggerVars
<1>5. CASE Signal \/ ShutdownTimeout
  BY <1>5 DEF Signal, ShutdownTimeout, T!EndContext, triggerVars, runVars
<1>6. CASE TriggerStep \/ UNCHANGED allVars
  BY <1>6, TriggerStepDoes
<1>7. QED
  BY <1>1, <1>2, <1>3, <1>4, <1>5, <1>6 DEF Still

\* The end of the root context is for good, and only a signal brings it.
LEMMA CtxStays ==
  ASSUME [RunNext]_allVars
  PROVE  /\ ctxDone => ctxDone'
         /\ ~Still => ctxDone' = ctxDone
<1>1. CASE Still
  BY <1>1, StillMain
<1>2. CASE HandleEvent
  BY <1>2 DEF HandleEvent, T!Receive
<1>3. CASE ShutdownCall
  BY <1>3 DEF ShutdownCall, ShutdownSession, triggerVars
<1>4. CASE \E h \in Handler : \E m \in Method : Request(h, m)
  BY <1>4 DEF Request, triggerVars
<1>5. CASE \E c \in Caller : SessionStep(c)
  BY <1>5 DEF SessionStep, triggerVars
<1>6. QED
  BY <1>1, <1>2, <1>3, <1>4, <1>5, Kinds

LEMMA MainCallsInductive == RunIInv /\ [RunNext]_allVars => MainCalls'
<1> SUFFICES ASSUME RunIInv, [RunNext]_allVars PROVE MainCalls'
  OBVIOUS
<1>1. SessionInv /\ Paths /\ TypeOK /\ IInv /\ P!TypeOK /\ MainCalls /\ Main \in Caller
  BY MainAssumption DEF RunIInv, SessionInv, P!IInv
<1>2. received > 0 => log'[received] = log[received]
  <2>1. received > 0 => received \in 1..Len(log)
    BY <1>1 DEF P!TypeOK
  <2>2. QED
    BY <1>1, <2>1, LogGrows
<1>3. CASE Still
  <2>1. UNCHANGED <<pc, cmd, received>>
    BY <1>3, StillDoes
  <2>2. pc[Main] # "out" => main' = main
    BY <1>1, <1>3, StillMain DEF MainCalls, LeaveLoop, SessionShutDown, StopControl, AtSelect,
       Shutdown
  <2>3. pc[Main] = "out" /\ main' \in Shutdown \cup Ending => ctxDone'
    BY <1>1, <1>3, StillMain DEF MainCalls, LeaveLoop, SessionShutDown, StopControl, AtSelect,
       Shutdown, Ending
  <2>4. ctxDone => ctxDone'
    BY CtxStays
  <2>5. main' \in {"startTrigger", "startControl"} => main \in {"startTrigger", "startControl"}
    BY <1>3, StillMain DEF LeaveLoop, SessionShutDown, StopControl
  <2>6. QED
    BY <1>1, <1>2, <2>1, <2>2, <2>3, <2>4, <2>5 DEF MainCalls, MethodOf
<1>4. CASE HandleEvent
  <2>1. /\ Call(Main, MethodOf(log[received + 1])) /\ MethodOf(log[received + 1]) \in Method
        /\ received' = received + 1 /\ log' = log /\ received + 1 \in 1..Len(log)
    BY <1>1, <1>4, Calls, TakenEvent DEF HandleEvent
  <2>2. pc'[Main] = "enter" /\ cmd'[Main] = MethodOf(log[received + 1])
    BY <1>1, <2>1, CallDoes
  <2>3. main' = "loop"
    BY <1>4 DEF HandleEvent, AtSelect, runVars
  <2>4. MethodOf(log[received + 1]) = MethodOf(log[received])'
    BY <2>1 DEF MethodOf
  <2>5. received' > 0
    BY <2>1
  <2>6. QED
    BY <2>2, <2>3, <2>4, <2>5 DEF MainCalls, Shutdown, Ending
<1>5. CASE ShutdownCall
  <2>1. pc'[Main] = "enter" /\ cmd'[Main] = "stop"
    BY <1>1, <1>5, Calls, CallDoes
  <2>2. main = "status" /\ main' = "stopSession"
    <3>1. ShutdownSession /\ Call(Main, "stop") /\ pc[Main] = "out" /\ pc'[Main] # pc[Main]
      BY <1>1, <1>5, <2>1, CallDoes DEF ShutdownCall, Call
    <3>2. QED
      BY <3>1 DEF ShutdownSession, sessionVars, vars, callVars
  <2>3. ctxDone'
    BY <1>1, <2>2, CtxStays DEF MainCalls, Shutdown
  <2>4. QED
    BY <2>1, <2>2, <2>3 DEF MainCalls
<1>6. ASSUME NEW h \in Handler, NEW m \in Method, Request(h, m) PROVE MainCalls'
  <2>1. pc'[Main] = pc[Main] /\ cmd'[Main] = cmd[Main]
    BY <1>1, <1>6, Calls, CallDoes
  <2>2. UNCHANGED <<main, received, log, ctxDone>>
    BY <1>6 DEF Request, runVars, triggerVars
  <2>3. QED
    BY <1>1, <2>1, <2>2 DEF MainCalls, MethodOf
<1>7. ASSUME NEW c \in Caller, SessionStep(c) PROVE MainCalls'
  <2>1. UNCHANGED <<main, received, log, ctxDone>>
    BY <1>7 DEF SessionStep, runVars, triggerVars
  <2>2. pc'[Main] = "out" \/ (pc[Main] # "out" /\ cmd'[Main] = cmd[Main])
    BY <1>1, <1>7, StepDoes DEF SessionStep
  <2>3. QED
    BY <1>1, <2>1, <2>2 DEF MainCalls, MethodOf
<1>8. QED
  BY <1>3, <1>4, <1>5, <1>6, <1>7, Kinds

\* Where Main is when it calls the session at the end.
LEMMA ShutdownCallMain ==
  ASSUME TypeOK, IInv, Paths, ShutdownCall
  PROVE  /\ main = "status" /\ main' = "stopSession" /\ cancelled'[Main] = shutdownOver
         /\ UNCHANGED <<controlStarted, shutdownOver, failed>> /\ UNCHANGED triggerVars
<1>1. /\ ShutdownSession /\ pc[Main] = "out" /\ pc'[Main] = "enter"
  BY CallDoes, MainAssumption DEF ShutdownCall, Method
<1>2. QED
  BY <1>1 DEF ShutdownSession, sessionVars, vars, callVars

\* Contexts end with the context they descend from, whoever moves.
LEMMA ContextsInductive == RunIInv /\ [RunNext]_allVars => Contexts'
<1> SUFFICES ASSUME RunIInv, [RunNext]_allVars PROVE Contexts'
  OBVIOUS
<1>1. /\ SessionInv /\ Paths /\ TypeOK /\ IInv /\ P!TypeOK /\ MainCalls /\ Contexts
      /\ Main \in Caller /\ Main \notin Handler /\ Handler \subseteq Caller
      /\ cancelled \in [Caller -> BOOLEAN] /\ ctxDone \in BOOLEAN /\ shutdownOver \in BOOLEAN
  BY MainAssumption DEF RunIInv, SessionInv, P!IInv, Handler, TypeOK, CallTypeOK, P!TypeOK,
     RunTypeOK
<1>2. CASE Still
  <2>1. pc' = pc
    BY <1>2, StillDoes
  <2>2. CASE UNCHANGED <<main, ctxDone, cancelled, shutdownOver>>
    BY <1>1, <2>1, <2>2 DEF Contexts
  <2>3. CASE UNCHANGED <<ctxDone, cancelled, shutdownOver>> /\ main' # main
    <3>1. pc[Main] = "out"
      BY <1>1, <1>2, <2>3, StillMain DEF MainCalls, LeaveLoop, SessionShutDown, StopControl,
         AtSelect
    <3>2. QED
      BY <1>1, <2>1, <2>3, <3>1 DEF Contexts
  <2>4. CASE /\ UNCHANGED <<main, shutdownOver>> /\ ~ctxDone /\ ctxDone'
             /\ cancelled' = [c \in Caller |-> pc[c] # "out"]
    BY <1>1, <2>1, <2>4 DEF Contexts, MainCalls, Shutdown
  <2>5. CASE /\ UNCHANGED <<main, ctxDone>> /\ main \in Shutdown
             /\ shutdownOver' /\ cancelled' = [cancelled EXCEPT ![Main] = pc[Main] # "out"]
    BY <1>1, <2>1, <2>5 DEF Contexts, Shutdown
  <2>6. QED
    BY <1>2, <2>2, <2>3, <2>4, <2>5, StillMain
<1>3. CASE HandleEvent
  <2>1. /\ pc'[Main] = "enter"
        /\ \A d \in Caller \ {Main} : pc'[d] = pc[d] /\ cancelled'[d] = cancelled[d]
    BY <1>1, <1>3, Calls, CallDoes
  <2>2. cancelled'[Main] = ctxDone /\ main' = "loop" /\ ctxDone' = ctxDone
    BY <1>3 DEF HandleEvent, AtSelect, runVars, T!Receive
  <2>3. QED
    BY <1>1, <2>1, <2>2 DEF Contexts
<1>4. CASE ShutdownCall
  <2>1. /\ pc'[Main] = "enter"
        /\ \A d \in Caller \ {Main} : pc'[d] = pc[d] /\ cancelled'[d] = cancelled[d]
    BY <1>1, <1>4, Calls, CallDoes
  <2>2. /\ main' = "stopSession" /\ cancelled'[Main] = shutdownOver
        /\ shutdownOver' = shutdownOver /\ ctxDone' = ctxDone
    BY <1>1, <1>4, ShutdownCallMain DEF triggerVars
  <2>3. QED
    BY <1>1, <2>1, <2>2 DEF Contexts
<1>5. ASSUME NEW h \in Handler, NEW m \in Method, Request(h, m) PROVE Contexts'
  <2>1. pc'[Main] = pc[Main] /\ cancelled'[Main] = cancelled[Main]
    BY <1>1, <1>5, Calls, CallDoes
  <2>2. UNCHANGED <<main, ctxDone, shutdownOver>> /\ ~ctxDone
    BY <1>5 DEF Request, triggerVars, runVars
  <2>3. QED
    BY <1>1, <2>1, <2>2 DEF Contexts
<1>6. ASSUME NEW c \in Caller, SessionStep(c) PROVE Contexts'
  <2>1. /\ \A d \in Caller \ {c} :
              cancelled'[d] = cancelled[d] /\ (pc'[d] = "out" <=> pc[d] = "out")
        /\ pc[c] # "out"
        /\ pc'[c] # "out" => cancelled'[c] = cancelled[c]
        /\ pc'[c] = "out" => ~cancelled'[c]
    BY <1>1, <1>6, StepDoes DEF SessionStep
  <2>2. UNCHANGED <<main, ctxDone, shutdownOver>>
    BY <1>6 DEF SessionStep, triggerVars, runVars
  <2>3. QED
    BY <1>1, <2>1, <2>2 DEF Contexts
<1>7. QED
  BY <1>2, <1>3, <1>4, <1>5, <1>6, Kinds

\* A request needs the server, and the server is started once.
LEMMA RequestsInductive == RunIInv /\ [RunNext]_allVars => Requests'
<1> SUFFICES ASSUME RunIInv, [RunNext]_allVars PROVE Requests'
  OBVIOUS
<1>1. /\ SessionInv /\ Paths /\ TypeOK /\ IInv /\ P!TypeOK /\ Requests
      /\ Main \notin Handler /\ Handler \subseteq Caller
  BY MainAssumption DEF RunIInv, SessionInv, P!IInv, Handler
<1>2. CASE Still
  <2>1. pc' = pc
    BY <1>2, StillDoes
  <2>2. \/ UNCHANGED <<main, controlStarted>>
        \/ main' = "startControl" /\ main = "startTrigger" /\ UNCHANGED controlStarted
        \/ /\ main' \notin {"startTrigger", "startControl"}
           /\ main = "startControl" \/ UNCHANGED controlStarted
    BY <1>2, StillMain DEF LeaveLoop, SessionShutDown, StopControl
  <2>3. QED
    BY <1>1, <2>1, <2>2 DEF Requests
<1>3. CASE HandleEvent \/ ShutdownCall
  <2>1. \A h \in Handler : pc'[h] = pc[h]
    BY <1>1, <1>3, Calls, CallDoes, MainAssumption
  <2>2. controlStarted' = controlStarted /\ main' \notin {"startTrigger", "startControl"}
    BY <1>1, <1>3, ShutdownCallMain DEF HandleEvent, AtSelect, runVars
  <2>3. QED
    BY <1>1, <2>1, <2>2 DEF Requests
<1>4. ASSUME NEW h \in Handler, NEW m \in Method, Request(h, m) PROVE Requests'
  BY <1>1, <1>4 DEF Requests, Request, runVars
<1>5. ASSUME NEW c \in Caller, SessionStep(c) PROVE Requests'
  <2>1. UNCHANGED <<main, controlStarted>>
    BY <1>5 DEF SessionStep, runVars
  <2>2. pc[c] # "out" /\ \A d \in Caller \ {c} : pc[d] = "out" => pc'[d] = "out"
    BY <1>1, <1>5, StepDoes DEF SessionStep
  <2>3. QED
    BY <1>1, <2>1, <2>2 DEF Requests
<1>6. QED
  BY <1>2, <1>3, <1>4, <1>5, Kinds

\* A stop by Main that has returned under a context that goes on has closed the
\* microphone.
LEMMA StopCloses ==
  ASSUME TypeOK, IInv, Paths, Main \in Caller, Step(Main),
         cmd[Main] = "stop", ~cancelled[Main], pc'[Main] = "out"
  PROVE  ~capturing /\ ~capturing'
<1>1. capturing' = capturing /\ pc[Main] = "release"
  BY StepDoes
<1>2. QED
  BY <1>1 DEF Paths, PathAt

\* Whoever has the microphone outside a recording is about to close it.
LEMMA OnlyAStopIsOpen ==
  ASSUME TypeOK, IInv, capturing, current # "recording"
  PROVE  op \in Caller /\ pc[op] = "close"
<1>1. op # NoCaller /\ op \in Caller
  BY DEF IInv, StateMatchesDevice, TypeOK, ServiceTypeOK
<1>2. pc[op] \in Inside /\ StateAt(op)
  BY <1>1 DEF IInv, OperationExclusive, PointInv, PointAt
<1>3. QED
  BY <1>1, <1>2 DEF Inside, StateAt, AtRest

\* Once the session is shut down nobody opens the microphone any more, as every
\* context has ended, and who has it closes it.
LEMMA SettlingInductive == RunIInv /\ [RunNext]_allVars => Settling'
<1> SUFFICES ASSUME RunIInv, [RunNext]_allVars PROVE Settling'
  OBVIOUS
<1>1. /\ SessionInv /\ Paths /\ TypeOK /\ IInv /\ P!TypeOK /\ MainCalls /\ Contexts /\ Settling
      /\ Requests
      /\ Main \in Caller /\ Main \notin Handler /\ Handler = Caller \ {Main}
      /\ shutdownOver \in BOOLEAN
  BY MainAssumption DEF RunIInv, SessionInv, P!IInv, Handler, RunTypeOK
<1>2. CASE Still
  <2>1. UNCHANGED <<pc, capturing, op>>
    BY <1>2, StillDoes
  <2> SUFFICES ASSUME ~shutdownOver' PROVE Settling'
    BY DEF Settling
  <2>2. ~shutdownOver
    BY <1>2, StillMain
  <2>3. CASE main' = main
    BY <1>1, <2>1, <2>2, <2>3 DEF Settling
  <2>4. CASE main = "status" /\ current # "recording" /\ main' = "stopTrigger"
    <3>1. pc[Main] = "out"
      BY <1>1, <2>4 DEF MainCalls
    <3>2. capturing => op \in Handler /\ pc[op] = "close"
      BY <1>1, <2>4, <3>1, OnlyAStopIsOpen
    <3>3. QED
      BY <1>1, <2>1, <2>4, <3>2 DEF Settling
  <2>5. CASE StopControl
    <3>1. \A h \in Handler : pc[h] = "out"
      BY <1>1, <2>2, <2>5 DEF StopControl, Requests
    <3>2. main \in Ending
      BY <2>5 DEF StopControl, Ending
    <3>3. QED
      BY <1>1, <2>1, <2>2, <3>1, <3>2 DEF Settling
  <2>6. CASE SessionShutDown \/ (main \in {"stopTrigger", "stopWatcher"}
                                 /\ main' \in {"stopWatcher", "stopControl"})
    <3>1. main \in Ending \/ (main = "stopSession" /\ pc[Main] = "out")
      BY <2>6 DEF SessionShutDown, Ending
    <3>2. main' # "returned"
      BY <2>6 DEF SessionShutDown
    <3>3. QED
      BY <1>1, <2>1, <2>2, <3>1, <3>2 DEF Settling
  <2>7. CASE main' \in {"startControl", "loop", "failed", "panicked", "status"}
    BY <2>7 DEF Settling, Ending
  <2>8. QED
    BY <1>2, <2>3, <2>4, <2>5, <2>6, <2>7, StillMain DEF LeaveLoop
<1>3. CASE HandleEvent
  <2>1. main' = "loop"
    BY <1>3 DEF HandleEvent, AtSelect, runVars
  <2>2. QED
    BY <2>1 DEF Settling, Ending
<1>4. CASE ShutdownCall
  <2>1. main' = "stopSession" /\ pc'[Main] = "enter"
    BY <1>1, <1>4, ShutdownCallMain, Calls, CallDoes
  <2>2. QED
    BY <2>1 DEF Settling, Ending
<1>5. ASSUME NEW h \in Handler, NEW m \in Method, Request(h, m) PROVE Settling'
  <2>1. main' = main /\ ~ctxDone
    BY <1>5 DEF Request, runVars
  <2>2. main \notin Shutdown \cup Ending
    BY <1>1, <2>1 DEF MainCalls
  <2>3. QED
    BY <2>1, <2>2 DEF Settling, Shutdown, Ending
<1>6. ASSUME NEW c \in Caller, SessionStep(c) PROVE Settling'
  <2>1. UNCHANGED <<main, shutdownOver>> /\ Step(c)
    BY <1>6 DEF SessionStep, runVars
  <2> SUFFICES ASSUME ~shutdownOver PROVE Settling'
    BY <2>1 DEF Settling
  <2>2. /\ pc[c] # "out"
        /\ \A d \in Caller \ {c} : pc[d] = "out" <=> pc'[d] = "out"
        /\ capturing' => capturing \/ (pc[c] = "open" /\ ~cancelled[c])
        /\ pc[c] = "close" => ~capturing'
        /\ op # NoCaller /\ op # c => op' = op /\ pc'[op] = pc[op]
    BY <1>1, <2>1, StepDoes
  <2>3. CASE main \in Ending \/ (main = "stopSession" /\ pc[Main] = "out")
    <3>1. c \in Handler /\ cancelled[c]
      BY <1>1, <2>2, <2>3 DEF MainCalls, Contexts, Ending, Shutdown
    <3>2. capturing' => op' \in Handler /\ pc'[op'] = "close"
      <4>1. capturing' => capturing /\ pc[c] # "close"
        BY <2>2, <3>1
      <4>2. capturing => op \in Handler /\ pc[op] = "close"
        BY <1>1, <2>3 DEF Settling
      <4>3. NoCaller \notin Handler
        BY <1>1, NoCallerAssumption
      <4>4. QED
        BY <2>2, <4>1, <4>2, <4>3
    <3>3. main' # "returned"
      BY <1>1, <2>1, <2>2, <3>1 DEF Settling
    <3>4. QED
      BY <3>2, <3>3 DEF Settling
  <2>4. CASE main = "stopSession" /\ pc[Main] # "out"
    <3>1. CASE pc'[Main] # "out"
      BY <2>1, <2>4, <3>1 DEF Settling, Ending
    <3>2. CASE pc'[Main] = "out"
      <4>1. c = Main
        BY <1>1, <2>2, <2>4, <3>2
      <4>2. cmd[Main] = "stop" /\ ~cancelled[Main]
        BY <1>1, <2>4 DEF MainCalls, Contexts
      <4>3. ~capturing'
        BY <1>1, <2>1, <3>2, <4>1, <4>2, StopCloses
      <4>4. QED
        BY <2>1, <2>4, <4>3 DEF Settling
    <3>3. QED
      BY <3>1, <3>2
  <2>5. CASE main \notin Ending /\ main # "stopSession"
    BY <2>1, <2>5 DEF Settling, Ending
  <2>6. QED
    BY <2>3, <2>4, <2>5
<1>7. QED
  BY <1>2, <1>3, <1>4, <1>5, <1>6, Kinds

\* An event that was taken stays in the log.
LEMMA TakenStays ==
  ASSUME P!TypeOK, [RunNext]_allVars
  PROVE  /\ received \in Nat /\ received <= Len(log)
         /\ \A i \in 1..received : log'[i] = log[i]
<1>1. received \in Nat /\ Len(log) \in Nat /\ received <= Len(log)
  BY LenProperties DEF P!TypeOK
<1>2. \A i \in 1..received : i \in 1..Len(log)
  BY <1>1
<1>3. QED
  BY <1>1, <1>2, LogGrows

\* A release that is handled leaves the microphone closed, as the trigger's
\* calls are the only ones.
LEMMA ReleasedInductive == RunIInv /\ [RunNext]_allVars => Released'
<1> SUFFICES ASSUME RunIInv, [RunNext]_allVars, Handler = {}, AtSelect', ~ctxDone',
                    received' > 0, log'[received'].kind = "release"
             PROVE  ~capturing'
  BY DEF Released, Handler
<1>1. /\ SessionInv /\ Paths /\ TypeOK /\ IInv /\ P!TypeOK /\ MainCalls /\ Contexts /\ Released
      /\ Main \in Caller /\ Caller = {Main}
  BY MainAssumption DEF RunIInv, SessionInv, P!IInv, Handler
<1>2. received \in Nat /\ (received > 0 => log'[received] = log[received])
  BY <1>1, TakenStays
<1>3. ~ctxDone
  BY CtxStays
<1>4. CASE Still
  <2>1. UNCHANGED <<pc, capturing, received>>
    BY <1>4, StillDoes
  <2>2. main = "loop"
    BY <1>1, <1>2, <1>4, <2>1, StillMain DEF AtSelect, MainCalls, LeaveLoop, SessionShutDown,
       StopControl
  <2>3. QED
    BY <1>1, <1>2, <1>3, <2>1, <2>2 DEF Released, AtSelect
<1>5. CASE HandleEvent \/ ShutdownCall
  BY <1>1, <1>5, Calls, CallDoes DEF AtSelect
<1>6. CASE \E h \in Handler : \E m \in Method : Request(h, m)
  BY <1>6
<1>7. ASSUME NEW c \in Caller, SessionStep(c) PROVE ~capturing'
  <2>1. c = Main /\ Step(Main) /\ UNCHANGED <<main, received, log>>
    BY <1>1, <1>7 DEF SessionStep, runVars, triggerVars
  <2>2. main = "loop" /\ pc'[Main] = "out" /\ pc[Main] # "out"
    BY <1>1, <2>1, StepDoes DEF AtSelect
  <2>3. cmd[Main] = "stop" /\ ~cancelled[Main]
    BY <1>1, <1>3, <2>1, <2>2 DEF MainCalls, MethodOf, Contexts
  <2>4. QED
    BY <1>1, <2>1, <2>2, <2>3, StopCloses
<1>8. QED
  BY <1>4, <1>5, <1>6, <1>7, Kinds

\* In toggle mode each event is about later presses than the one before it, a
\* double tap about two of them.
LEMMA IdsGrow ==
  ASSUME P!TypeOK, P!Chained, mode = "toggle", NEW i \in 1..received
  PROVE  LET before == IF i = 1 THEN 0 ELSE log[i-1].id
         IN  /\ log[i].id \in Nat /\ before \in Nat /\ log[i].id > before
             /\ log[i].kind = "doubleTap" => log[i].id = before + 2
<1>1. i \in 1..Len(log) /\ (i # 1 => i - 1 \in 1..Len(log)) /\ log \in Seq(P!Event)
  BY LenProperties DEF P!TypeOK
<1>2. /\ log[i].kind \in {"press", "release", "doubleTap"} /\ log[i].id \in Nat
      /\ i # 1 => log[i-1].id \in Nat
  <2>1. log[i] \in P!Event
    BY <1>1, ElementOfSeq
  <2>2. i # 1 => log[i-1] \in P!Event
    BY <1>1, ElementOfSeq
  <2>3. \A e \in P!Event : e.kind \in {"press", "release", "doubleTap"} /\ e.id \in Nat
    BY DEF P!Event
  <2>4. QED
    BY <2>1, <2>2, <2>3
<1>3. log[i].id = (IF i = 1 THEN 0 ELSE log[i-1].id) + P!Weight(mode, log[i])
  BY <1>1 DEF P!Chained, P!Chain
<1>4. /\ P!Weight(mode, log[i]) \in {1, 2}
      /\ log[i].kind = "doubleTap" => P!Weight(mode, log[i]) = 2
  BY <1>2 DEF P!Weight
<1>5. QED
  BY <1>2, <1>3, <1>4

\* A call enters once, and only a retry gets to the retry.
LEMMA EntersOnce ==
  ASSUME TypeOK, IInv, Paths, NEW c \in Caller, Step(c)
  PROVE  pc'[c] # "enter" /\ (pc'[c] = "retry" => cmd[c] = "retry")
<1>1. CASE Works(c)
  BY <1>1, WorkDoes DEF InsideStep, Inside, Paths
<1>2. CASE Passes(c)
  <2>1. cmd[c] \in Method
    BY DEF TypeOK, CallTypeOK
  <2>2. QED
    BY <1>2, <2>1, PassDoes DEF Method
<1>3. QED
  BY <1>1, <1>2 DEF Step, Works, Passes

\* The text in the hands of a retry, and the one a failed stop leaves.
LEMMA RetryDoes ==
  ASSUME TypeOK, IInv, Paths, NEW c \in Caller, Step(c), cmd[c] = "retry", pc'[c] # "out"
  PROVE  /\ UNCHANGED <<capturing, lastTranscript>>
         /\ pc'[c] = "retry" => pc[c] = "enter"
         /\ pc'[c] \in {"copy", "paste", "release"} =>
              \/ pc[c] = "retry" /\ (~capturing /\ lastTranscript # 0 => text'[c] = lastTranscript)
              \/ pc[c] \in {"copy", "paste"} /\ text'[c] = text[c]
<1>1. PathAt(c)
  BY DEF Paths
<1>2. CASE Works(c)
  <2>1. /\ pc[c] \in Inside /\ pc[c] # "release" /\ pc'[c] # "retry"
        /\ UNCHANGED <<capturing, lastTranscript>>
        /\ pc[c] # "retry" => text'[c] = text[c]
        /\ pc[c] = "retry" /\ RetryRefusal = "none" => text'[c] = lastTranscript
    BY <1>1, <1>2, WorkDoes DEF InsideStep
  <2>2. pc[c] = "retry" /\ ~capturing /\ lastTranscript # 0 => RetryRefusal = "none"
    BY DEF IInv, PointInv, PointAt, StateAt, AtRest, RetryNeedsTranscript, RetryRefusal,
       TypeOK, ServiceTypeOK, State
  <2>3. pc[c] \in {"retry", "copy", "paste"}
    BY <1>1, <2>1 DEF PathAt, Inside
  <2>4. QED
    BY <2>1, <2>2, <2>3
<1>3. CASE Passes(c)
  BY <1>3, PassDoes
<1>4. QED
  BY <1>2, <1>3 DEF Step, Works, Passes

\* A text that was not pasted is there for a double tap that follows: nothing
\* but the next event of the trigger moves the session, and a retry finds it idle.
LEMMA KeptInductive == RunIInv /\ [RunNext]_allVars => Kept'
<1> SUFFICES ASSUME RunIInv, [RunNext]_allVars PROVE Kept'
  OBVIOUS
<1>1. /\ SessionInv /\ Paths /\ TypeOK /\ IInv /\ P!TypeOK /\ P!Chained /\ MainCalls /\ Kept
      /\ Main \in Caller /\ RunTypeOK
  BY MainAssumption DEF RunIInv, SessionInv, P!IInv
<1>2. /\ received \in Nat /\ mode' = mode
      /\ received > 0 => log'[received] = log[received]
      /\ received > 1 => log'[received-1] = log[received-1]
  BY <1>1, TakenStays, LogGrows
<1>3. CASE Still
  <2>1. UNCHANGED <<pc, cmd, capturing, lastTranscript, text, received, failed>>
    BY <1>3, StillDoes
  <2>2. pc[Main] # "out" => received > 0 \/ main # "loop"
    BY <1>1 DEF MainCalls
  <2>3. CASE main = "loop" /\ main' = "loop"
    <3>1. HandledId' = HandledId
      BY <1>2, <2>1, <2>2, <2>3 DEF HandledId
    <3>2. QED
      BY <1>1, <1>2, <2>1, <2>3, <3>1 DEF Kept
  <2>4. CASE main = "startControl"
    <3>1. received = 0 /\ pc[Main] = "out" /\ failed.id = 0 /\ failed.take = 0
      BY <1>1, <2>4 DEF MainCalls, Kept
    <3>2. HandledId' = 0
      BY <2>1, <3>1 DEF HandledId
    <3>3. QED
      BY <2>1, <3>1, <3>2 DEF Kept
  <2>5. CASE main' # "loop"
    <3>1. main' \in {"startTrigger", "startControl"} => main \in {"startTrigger", "startControl"}
      BY <1>3, StillMain DEF LeaveLoop, SessionShutDown, StopControl
    <3>2. QED
      BY <1>1, <2>1, <2>5, <3>1 DEF Kept
  <2>6. QED
    BY <1>3, <2>3, <2>4, <2>5, StillMain DEF LeaveLoop, SessionShutDown, StopControl
<1>4. CASE HandleEvent
  <2>1. /\ pc[Main] = "out" /\ pc'[Main] = "enter" /\ UNCHANGED <<capturing, lastTranscript>>
    BY <1>1, <1>4, Calls, CallDoes
  <2>2. received' = received + 1 /\ log' = log
    BY <1>1, <1>4, TakenEvent DEF HandleEvent
  <2>3. main = "loop" /\ main' = "loop" /\ failed' = failed
    BY <1>4 DEF HandleEvent, AtSelect, runVars
  <2>4. HandledId' = HandledId
    BY <1>2, <2>1, <2>2 DEF HandledId
  <2>5. QED
    BY <1>1, <1>2, <2>1, <2>3, <2>4 DEF Kept
<1>5. CASE ShutdownCall
  <2>1. main' = "stopSession"
    BY <1>1, <1>5, ShutdownCallMain
  <2>2. QED
    BY <2>1 DEF Kept
<1>6. ASSUME NEW h \in Handler, NEW m \in Method, Request(h, m) PROVE Kept'
  <2>1. main' = main /\ failed' = failed /\ Handler # {}
    BY <1>6 DEF Request, runVars
  <2>2. QED
    BY <1>1, <2>1 DEF Kept, Handler
<1>7. ASSUME NEW c \in Caller, SessionStep(c) PROVE Kept'
  <2>1. UNCHANGED <<main, received, log>> /\ Step(c)
    BY <1>7 DEF SessionStep, runVars, triggerVars
  <2>2. main # "loop" => failed' = failed
    BY <1>7 DEF SessionStep
  <2>3. CASE ~(Handler = {} /\ mode = "toggle" /\ main = "loop")
    BY <1>1, <1>2, <2>1, <2>2, <2>3 DEF Kept, Handler
  <2>4. CASE Handler = {} /\ mode = "toggle" /\ main = "loop"
    <3>1. c = Main /\ pc[Main] # "out" /\ received > 0
      BY <1>1, <2>1, <2>4, StepDoes DEF Handler, MainCalls
    <3> DEFINE before == IF received = 1 THEN 0 ELSE log[received-1].id
    <3>2. HandledId = before
      BY <1>2, <3>1 DEF HandledId
    <3>3. CASE pc'[Main] # "out"
      <4>1. pc[Main] # "release"
        BY <1>1, <2>1, <3>1, <3>3, WorkDoes, PassDoes DEF Step, Works, Passes, Paths
      <4>2. failed' = failed
        BY <1>7, <3>1, <4>1 DEF SessionStep
      <4>3. HandledId' = HandledId
        BY <2>1, <3>1, <3>3 DEF HandledId
      <4>4. cmd'[Main] = cmd[Main]
        BY <1>1, <2>1, <3>1, <3>3, StepDoes
      <4>5. ASSUME failed.take # 0, failed.id = HandledId
            PROVE  /\ pc'[Main] \in {"out", "enter", "retry"} =>
                        ~capturing' /\ lastTranscript' = failed.take
                   /\ cmd[Main] = "retry" /\ pc'[Main] \in {"copy", "paste", "release"} =>
                        text'[Main] = failed.take
        <5>1. /\ pc[Main] \in {"out", "enter", "retry"} =>
                   ~capturing /\ lastTranscript = failed.take
              /\ cmd[Main] = "retry" /\ pc[Main] \in {"copy", "paste", "release"} =>
                   text[Main] = failed.take
          BY <1>1, <2>4, <4>5 DEF Kept
        <5>2. CASE cmd[Main] = "retry"
          <6>1. /\ UNCHANGED <<capturing, lastTranscript>>
                /\ pc'[Main] = "retry" => pc[Main] = "enter"
                /\ pc'[Main] \in {"copy", "paste", "release"} =>
                     \/ /\ pc[Main] = "retry"
                        /\ (~capturing /\ lastTranscript # 0 => text'[Main] = lastTranscript)
                     \/ pc[Main] \in {"copy", "paste"} /\ text'[Main] = text[Main]
            BY <1>1, <2>1, <3>1, <3>3, <5>2, RetryDoes
          <6>2. pc'[Main] # "enter"
            BY <1>1, <2>1, <3>1, <3>3, EntersOnce
          <6>3. QED
            BY <3>3, <4>5, <5>1, <6>1, <6>2
        <5>3. CASE cmd[Main] # "retry"
          <6>1. pc'[Main] # "retry" /\ pc'[Main] # "enter"
            BY <1>1, <2>1, <3>1, <3>3, <4>4, <5>3, EntersOnce
          <6>2. QED
            BY <3>3, <5>3, <6>1
        <5>4. QED
          BY <5>2, <5>3
      <4>6. QED
        BY <1>1, <1>2, <2>1, <2>4, <4>2, <4>3, <4>4, <4>5 DEF Kept
    <3>4. CASE pc'[Main] = "out"
      <4>1. HandledId' = log[received].id
        BY <2>1, <3>1, <3>4 DEF HandledId
      <4>2. log[received].id \in Nat /\ before \in Nat /\ log[received].id > before
        BY <1>1, <1>2, <2>4, <3>1, IdsGrow
      <4>3. failed.id \in Nat /\ failed.id <= before
        BY <1>1, <2>4, <3>2 DEF Kept, RunTypeOK
      <4>4. UNCHANGED <<capturing, lastTranscript>> /\ cmd'[Main] # "retry"
        BY <1>1, <2>1, <3>1, <3>4, StepDoes DEF Paths, PathAt
      <4>5. CASE failed' = failed
        BY <1>1, <1>2, <2>1, <4>1, <4>2, <4>3, <4>5 DEF Kept
      <4>6. CASE failed' # failed
        <5>1. /\ failed' = [id |-> log[received].id, take |-> text[Main]]
              /\ cmd[Main] = "stop" /\ pc[Main] = "release" /\ res[Main] \in {"copy", "paste"}
          BY <1>7, <3>1, <4>6 DEF SessionStep
        <5>2. lastTranscript = text[Main] /\ ~capturing
          BY <1>1, <5>1 DEF IInv, PointInv, PointAt, ResultAt, Paths, PathAt
        <5>3. failed'.id = log[received].id /\ failed'.take = text[Main]
          BY <5>1
        <5>4. QED
          BY <2>1, <2>4, <3>4, <4>1, <4>2, <4>4, <5>2, <5>3 DEF Kept
      <4>7. QED
        BY <4>5, <4>6
    <3>5. QED
      BY <3>3, <3>4
  <2>5. QED
    BY <2>3, <2>4
<1>8. QED
  BY <1>3, <1>4, <1>5, <1>6, <1>7, Kinds

\* The invariants of the session and of the trigger are those of their own
\* theorems: no step of the daemon does more to either than it does to itself.
LEMMA PartsInductive == RunIInv /\ [RunNext]_allVars => SessionInv' /\ P!IInv'
<1> SUFFICES ASSUME RunIInv, [RunNext]_allVars PROVE SessionInv' /\ P!IInv'
  OBVIOUS
<1>1. TypeOK /\ IInv /\ P!IInv /\ P!TypeOK
  BY DEF RunIInv, SessionInv, P!IInv
<1>2. SessionInv'
  <2>1. CASE [Next]_vars
    BY <1>1, <2>1, TypeInductive, IInvInductive DEF SessionInv
  <2>2. CASE Cancelling
    <3>1. TypeOK'
      BY <1>1, <2>2 DEF Cancelling, TypeOK, RecTypeOK, ServiceTypeOK, CallTypeOK, PasteTypeOK,
         serviceVars, pasteVars, recVars
    <3>2. IInv'
      BY <1>1, <2>2 DEF Cancelling, serviceVars, pasteVars, recVars, IInv, OperationExclusive,
         NoLostWakeup, Queued, StateMatchesDevice, RetryNeedsTranscript, FreshFile, PointInv,
         PointAt, StateAt, TextAt, ResultAt, MethodAt, AtRest
    <3>3. QED
      BY <3>1, <3>2 DEF SessionInv
  <2>3. QED
    BY <1>1, <2>1, <2>2, SessionMoves
<1>3. P!IInv'
  <2>1. [P!Next]_(P!vars)
    BY TriggerMoves
  <2>2. P!TypeOK' /\ P!Counted' /\ P!Sending' /\ P!Stamped'
    BY <1>1, <2>1, P!TypeInductive, P!CountedInductive, P!SendingInductive, P!StampedInductive,
       TriggerAssumption DEF P!IInv
  <2>3. P!Chained' /\ P!Alternating' /\ P!TapsRight'
    BY <1>1, <2>1, <2>2, P!ChainedInductive, P!AlternatingInductive, P!TapsRightInductive,
       TriggerAssumption
  <2>4. QED
    BY <2>2, <2>3 DEF P!IInv
<1>4. QED
  BY <1>2, <1>3

\* At the beginning nothing runs and nothing has happened.
LEMMA InitRunIInv == RunInit => RunIInv
<1> SUFFICES ASSUME RunInit PROVE RunIInv
  OBVIOUS
<1>1. SessionInv
  BY InitTyped, InitIInv DEF RunInit, SessionInv
<1>2. P!IInv
  BY SameTrigger, P!InitIInv, TriggerAssumption DEF RunInit
<1>3. RunTypeOK
  <2>1. 0 \in 0..MaxPresses /\ 0 \in Take
    BY TriggerAssumption, Names
  <2>2. QED
    BY <2>1 DEF RunInit, RunTypeOK, MainPoint
<1>4. \A c \in Caller : pc[c] = "out" /\ cmd[c] = "start" /\ ~cancelled[c]
  BY DEF RunInit, Init
<1>5. main = "startTrigger" /\ ~controlStarted /\ failed.id = 0 /\ failed.take = 0 /\ ~capturing
      /\ received = 0
  BY DEF RunInit, Init, RecInit, T!Init
<1>6. Paths
  BY <1>4 DEF Paths, PathAt
<1>7. MainCalls /\ Contexts
  BY <1>4, <1>5, MainAssumption DEF MainCalls, Contexts, Handler, Shutdown, Ending
<1>8. Requests /\ Settling /\ Released /\ Kept
  BY <1>4, <1>5 DEF Requests, Settling, Released, Kept, Handler, Ending
<1>9. QED
  BY <1>1, <1>2, <1>3, <1>6, <1>7, <1>8 DEF RunIInv

-----------------------------------------------------------------------------
(* The theorems                                                            *)

\* The parts keep their invariants in the daemon, and Main knows of them what
\* the invariant says (app.go 49-155).
THEOREM RunInvariance == RunSpec => []RunIInv
<1>1. RunIInv /\ [RunNext]_allVars => RunIInv'
  BY PartsInductive, RunTypeInductive, PathsInductive, MainCallsInductive, ContextsInductive,
     RequestsInductive, SettlingInductive, ReleasedInductive, KeptInductive DEF RunIInv
<1>2. QED
  BY InitRunIInv, <1>1, PTL DEF RunSpec

\* Every variable of the daemon and of its parts has its type.
THEOREM RunTypeCorrect == RunSpec => []DaemonTypeOK
<1>1. RunIInv => DaemonTypeOK
  BY SameTrigger DEF RunIInv, SessionInv, P!IInv, DaemonTypeOK
<1>2. QED
  BY RunInvariance, <1>1, PTL

\* When Run returns in time the microphone is closed, the session is idle and
\* nobody is inside it, for any number of handlers calling beside the shutdown
\* (app.go 63-84, service.go 237-261).
THEOREM ReturnsSettled == RunSpec => []SettledOnReturn
<1>1. RunIInv => SettledOnReturn
  <2> SUFFICES ASSUME RunIInv, main = "returned", ~shutdownOver
               PROVE  /\ ~capturing /\ current = "idle" /\ op = NoCaller
                      /\ \A c \in Caller : pc[c] = "out"
    BY DEF SettledOnReturn
  <2>1. TypeOK /\ IInv /\ MainCalls /\ Settling
    BY DEF RunIInv, SessionInv
  <2>2. \A c \in Caller : pc[c] = "out"
    <3>1. pc[Main] = "out" /\ \A h \in Handler : pc[h] = "out"
      BY <2>1 DEF MainCalls, Settling
    <3>2. QED
      BY <3>1 DEF Handler
  <2>3. op = NoCaller
    BY <2>1, <2>2 DEF IInv, OperationExclusive, Inside, TypeOK, ServiceTypeOK
  <2>4. ~capturing
    BY <2>1, <2>2 DEF Settling, Ending, Handler
  <2>5. current = "idle"
    BY <2>1, <2>3, <2>4 DEF IInv, StateMatchesDevice, TypeOK, ServiceTypeOK, State
  <2>6. QED
    BY <2>2, <2>3, <2>4, <2>5
<1>2. QED
  BY RunInvariance, <1>1, PTL

\* While no signal has come, the microphone is closed once the loop has handled
\* a release, whatever failed on the way and however many events had piled up
\* before it (app.go 127-138).
THEOREM ReleaseCloses == RunSpec => []ReleaseClosesMicrophone
<1>1. RunIInv => ReleaseClosesMicrophone
  BY DEF RunIInv, Released, ReleaseClosesMicrophone
<1>2. QED
  BY RunInvariance, <1>1, PTL

\* In toggle mode, and without the external control, a double tap right after
\* a dictation that could not be pasted has the text of that dictation in its
\* hands (app.go 133-134, trigger.go 222-234, 255-265).
THEOREM DoubleTapRetries ==
  ASSUME Caller = {Main}, Modes = {"toggle"}
  PROVE  RunSpec => []DoubleTapRetriesPaste
<1>1. RunIInv => DoubleTapRetriesPaste
  <2> SUFFICES ASSUME RunIInv, cmd[Main] = "retry", pc[Main] \in {"copy", "release"},
                      failed.take # 0, log[received].id = failed.id + 2
               PROVE  text[Main] = failed.take
    BY DEF DoubleTapRetriesPaste
  <2>1. /\ TypeOK /\ P!TypeOK /\ P!Chained /\ MainCalls /\ Kept /\ RunTypeOK
        /\ mode = "toggle" /\ Handler = {}
    BY DEF RunIInv, SessionInv, P!IInv, P!TypeOK, Handler
  <2>2. main = "loop" /\ received > 0 /\ cmd[Main] = MethodOf(log[received])
    BY <2>1 DEF MainCalls
  <2>3. received \in 1..received /\ received \in Nat
    BY <2>1, <2>2 DEF P!TypeOK
  <2>4. log[received].kind = "doubleTap"
    <3>1. log[received] \in P!Event
      BY <2>1, <2>2, ElementOfSeq DEF P!TypeOK
    <3>2. QED
      BY <2>2, <3>1 DEF MethodOf, P!Event
  <2>5. log[received].id = HandledId + 2 /\ HandledId \in Nat
    BY <2>1, <2>3, <2>4, IdsGrow DEF HandledId
  <2>6. failed.id = HandledId
    BY <2>1, <2>5 DEF RunTypeOK
  <2>7. QED
    BY <2>1, <2>2, <2>6 DEF Kept
<1>2. QED
  BY RunInvariance, <1>1, PTL

\* The trigger does in the daemon what it does alone, so that its theorems hold
\* there: every press is answered, in order, presses and releases alternate, and
\* double taps are quick (trigger.go, app.go 105-125).
THEOREM TriggerInside ==
    RunSpec => /\ P!Spec
               /\ [](P!EveryPressCounts /\ P!ToggleAlternates /\ P!DoubleTapIsQuick)
<1>1. RunInit => P!Init
  BY SameTrigger DEF RunInit
<1>2. RunSpec => P!Spec
  BY <1>1, TriggerMoves, PTL DEF RunSpec, P!Spec
<1>3. P!Spec => [](P!EveryPressCounts /\ P!ToggleAlternates /\ P!DoubleTapIsQuick)
  BY P!PressesCounted, P!Alternation, P!QuickDoubleTaps, TriggerAssumption, PTL
<1>4. QED
  BY <1>2, <1>3, PTL

\* The whole daemon keeps the promises of Dictation: whatever comes from the
\* key, from the clients and from signals, dictations follow one another, and
\* nothing is typed but the text of the last one (app.go, service.go).
THEOREM DaemonDictates == RunSpec => ImplementsDictation
<1>1. RunInit => Abstract!Init
  BY AbstractInit DEF RunInit
<1>2. RunIInv /\ [RunNext]_allVars => [Abstract!Next]_(Abstract!vars)
  <2> SUFFICES ASSUME RunIInv, [RunNext]_allVars PROVE [Abstract!Next]_(Abstract!vars)
    OBVIOUS
  <2>1. TypeOK /\ IInv /\ P!TypeOK
    BY DEF RunIInv, SessionInv, P!IInv
  <2>2. CASE [Next]_vars
    BY <2>1, <2>2, AbstractSteps
  <2>3. CASE Cancelling
    BY <2>3 DEF Cancelling, serviceVars, pasteVars, recVars, Abstract!vars, phase
  <2>4. QED
    BY <2>1, <2>2, <2>3, SessionMoves
<1>3. QED
  BY <1>1, <1>2, RunInvariance, PTL DEF RunSpec, ImplementsDictation, Abstract!Spec

=============================================================================

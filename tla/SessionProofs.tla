---------------------------- MODULE SessionProofs ----------------------------
(***************************************************************************)
(* Proofs about Session, for any set of callers and any number of          *)
(* recordings.                                                             *)
(***************************************************************************)
EXTENDS Session, TLAPS

\* The names the actions use are names of points, methods, states, results.
LEMMA Names ==
    /\ "out" \in Point /\ "enter" \in Point /\ "queued" \in Point
    /\ "toggle" \in Point /\ "start" \in Point /\ "open" \in Point
    /\ "stop" \in Point /\ "close" \in Point /\ "transcribe" \in Point
    /\ "retry" \in Point /\ "copy" \in Point /\ "paste" \in Point
    /\ "remove" \in Point /\ "idle" \in Point /\ "release" \in Point
    /\ "start" \in Method /\ "stop" \in Method /\ "toggle" \in Method
    /\ "retry" \in Method
    /\ "none" \in Result /\ "ok" \in Result /\ "busy" \in Result
    /\ "ctx" \in Result /\ "already" \in Result /\ "notRecording" \in Result
    /\ "invalid" \in Result /\ "noTranscript" \in Result
    /\ "recorder" \in Result /\ "transcription" \in Result /\ "copy" \in Result
    /\ "paste" \in Result
    /\ "idle" \in State /\ "recording" \in State /\ "processing" \in State
    /\ Method \subseteq Point
    /\ 0 \in Take
BY MaxTakesAssumption DEF Point, Inside, Method, Result, State, Take

\* Every variable keeps its type, so every result and every program point is
\* one the code has.
LEMMA TypeInductive == TypeOK /\ [Next]_vars => TypeOK'
<1> SUFFICES ASSUME TypeOK, [Next]_vars PROVE TypeOK'
  OBVIOUS
<1> USE DEF TypeOK, CallTypeOK, ServiceTypeOK, PasteTypeOK, RecTypeOK
<1>1. ASSUME NEW c \in Caller, NEW m \in Method, Call(c, m) PROVE TypeOK'
  <2>1. RecTypeOK'
    BY <1>1 DEF Call, recVars
  <2>2. CallTypeOK'
    BY <1>1, Names DEF Call, Goto
  <2>3. ServiceTypeOK' /\ PasteTypeOK'
    BY <1>1, Names DEF Call, serviceVars, InsideUnchanged, pasteVars
  <2>4. QED
    BY <2>1, <2>2, <2>3
<1>2. ASSUME NEW c \in Caller, Cancel(c) PROVE TypeOK'
  <2>1. RecTypeOK'
    BY <1>2 DEF Cancel, recVars
  <2>2. CallTypeOK'
    BY <1>2, Names DEF Cancel
  <2>3. ServiceTypeOK' /\ PasteTypeOK'
    BY <1>2, Names DEF Cancel, serviceVars, InsideUnchanged, pasteVars
  <2>4. QED
    BY <2>1, <2>2, <2>3
<1>3. ASSUME NEW c \in Caller, Acquire(c) PROVE TypeOK'
  <2>1. RecTypeOK'
    BY <1>3 DEF Acquire, recVars
  <2>2. CallTypeOK'
    BY <1>3, Names DEF Acquire, Goto
  <2>3. ServiceTypeOK' /\ PasteTypeOK'
    BY <1>3, Names DEF Acquire, serviceVars, InsideUnchanged, pasteVars
  <2>4. QED
    BY <2>1, <2>2, <2>3
<1>4. ASSUME NEW c \in Caller, Refuse(c) PROVE TypeOK'
  <2>1. RecTypeOK'
    BY <1>4 DEF Refuse, recVars
  <2>2. CallTypeOK'
    BY <1>4, Names DEF Refuse, Goto, Forget, Become
  <2>3. ServiceTypeOK' /\ PasteTypeOK'
    BY <1>4, Names DEF Refuse, serviceVars, InsideUnchanged, pasteVars
  <2>4. QED
    BY <2>1, <2>2, <2>3
<1>5. ASSUME NEW c \in Caller, Enqueue(c) PROVE TypeOK'
  <2>1. RecTypeOK'
    BY <1>5 DEF Enqueue, recVars
  <2>2. CallTypeOK'
    BY <1>5, Names DEF Enqueue, Goto, Queued
  <2>3. ServiceTypeOK' /\ PasteTypeOK'
    BY <1>5, Names DEF Enqueue, serviceVars, InsideUnchanged, pasteVars
  <2>4. QED
    BY <2>1, <2>2, <2>3
<1>6. ASSUME NEW c \in Caller, LeaveQueue(c) PROVE TypeOK'
  <2>1. RecTypeOK'
    BY <1>6 DEF LeaveQueue, recVars
  <2>2. CallTypeOK'
    BY <1>6, Names DEF LeaveQueue, Goto, Forget, Become, Dequeued
  <2>3. ServiceTypeOK' /\ PasteTypeOK'
    BY <1>6, Names DEF LeaveQueue, serviceVars, InsideUnchanged, pasteVars
  <2>4. QED
    BY <2>1, <2>2, <2>3
<1>7. ASSUME NEW c \in Caller, Release(c) PROVE TypeOK'
  <2>1. RecTypeOK'
    BY <1>7 DEF Release, recVars
  <2>2. CallTypeOK'
    BY <1>7, Names DEF Release, ReleaseToNobody, ReleaseToFirst, Goto, Forget,
       Become, Dequeued, Queued
  <2>3. ServiceTypeOK' /\ PasteTypeOK'
    BY <1>7, Names DEF Release, ReleaseToNobody, ReleaseToFirst, Queued,
       serviceVars, InsideUnchanged, pasteVars
  <2>4. QED
    BY <2>1, <2>2, <2>3
<1>8. ASSUME NEW c \in Caller, ToggleRecording(c) PROVE TypeOK'
  <2>1. RecTypeOK'
    BY <1>8 DEF ToggleRecording, recVars
  <2>2. CallTypeOK'
    BY <1>8, Names DEF ToggleRecording, Goto, Leave, Become, InsideUnchanged
  <2>3. ServiceTypeOK' /\ PasteTypeOK'
    BY <1>8, Names DEF ToggleRecording, serviceVars, InsideUnchanged, pasteVars
  <2>4. QED
    BY <2>1, <2>2, <2>3
<1>9. ASSUME NEW c \in Caller, StartRecording(c) PROVE TypeOK'
  <2>1. RecTypeOK'
    BY <1>9 DEF StartRecording, recVars
  <2>2. CallTypeOK'
    BY <1>9, Names DEF StartRecording, Goto, Leave, Become, InsideUnchanged
  <2>3. ServiceTypeOK' /\ PasteTypeOK'
    BY <1>9, Names DEF StartRecording, serviceVars, InsideUnchanged, pasteVars
  <2>4. QED
    BY <2>1, <2>2, <2>3
<1>10. ASSUME NEW c \in Caller, Open(c) PROVE TypeOK'
  <2>1. RecTypeOK'
    <3>1. CASE RecorderStarted
      BY <3>1, MaxTakesAssumption DEF RecorderStarted, Take
    <3>2. CASE RecorderStartFailed
      BY <3>2, MaxTakesAssumption DEF RecorderStartFailed, Take
    <3>3. QED
      BY <1>10, <3>1, <3>2 DEF Open
  <2>2. CallTypeOK'
    BY <1>10, Names DEF Open, Goto, Leave, Become, InsideUnchanged
  <2>3. ServiceTypeOK' /\ PasteTypeOK'
    BY <1>10, Names DEF Open, serviceVars, InsideUnchanged, pasteVars
  <2>4. QED
    BY <2>1, <2>2, <2>3
<1>11. ASSUME NEW c \in Caller, StopRecording(c) PROVE TypeOK'
  <2>1. RecTypeOK'
    BY <1>11 DEF StopRecording, recVars
  <2>2. CallTypeOK'
    BY <1>11, Names DEF StopRecording, Goto, Leave, Become, InsideUnchanged
  <2>3. ServiceTypeOK' /\ PasteTypeOK'
    BY <1>11, Names DEF StopRecording, serviceVars, InsideUnchanged, pasteVars
  <2>4. QED
    BY <2>1, <2>2, <2>3
<1>12. ASSUME NEW c \in Caller, Close(c) PROVE TypeOK'
  <2>1. RecTypeOK'
    BY <1>12, MaxTakesAssumption DEF Close, RecorderStopped, RecorderStopFailed,
       recVars, Take
  <2>2. CallTypeOK'
    BY <1>12, Names DEF Close, Goto, Leave, Become, InsideUnchanged
  <2>3. ServiceTypeOK' /\ PasteTypeOK'
    BY <1>12, Names DEF Close, serviceVars, InsideUnchanged, pasteVars
  <2>4. QED
    BY <2>1, <2>2, <2>3
<1>13. ASSUME NEW c \in Caller, Transcribed(c) PROVE TypeOK'
  <2>1. RecTypeOK'
    BY <1>13 DEF Transcribed, recVars
  <2>2. CallTypeOK'
    BY <1>13, Names DEF Transcribed, Goto, InsideUnchanged
  <2>3. ServiceTypeOK' /\ PasteTypeOK'
    BY <1>13, Names DEF Transcribed, serviceVars, InsideUnchanged, pasteVars
  <2>4. QED
    BY <2>1, <2>2, <2>3
<1>14. ASSUME NEW c \in Caller, TranscriptionFailed(c) PROVE TypeOK'
  <2>1. RecTypeOK'
    BY <1>14 DEF TranscriptionFailed, recVars
  <2>2. CallTypeOK'
    BY <1>14, Names DEF TranscriptionFailed, Goto, Leave, Become, InsideUnchanged
  <2>3. ServiceTypeOK' /\ PasteTypeOK'
    BY <1>14, Names DEF TranscriptionFailed, serviceVars, InsideUnchanged, pasteVars
  <2>4. QED
    BY <2>1, <2>2, <2>3
<1>15. ASSUME NEW c \in Caller, RetryLastPaste(c) PROVE TypeOK'
  <2>1. RecTypeOK'
    BY <1>15 DEF RetryLastPaste, recVars
  <2>2. CallTypeOK'
    BY <1>15, Names DEF RetryLastPaste, RetryRefusal, Goto, Leave, Become,
       InsideUnchanged
  <2>3. ServiceTypeOK' /\ PasteTypeOK'
    BY <1>15, Names DEF RetryLastPaste, serviceVars, InsideUnchanged, pasteVars
  <2>4. QED
    BY <2>1, <2>2, <2>3
<1>16. ASSUME NEW c \in Caller, Copied(c) PROVE TypeOK'
  <2>1. RecTypeOK'
    BY <1>16 DEF Copied, recVars
  <2>2. CallTypeOK'
    BY <1>16, Names DEF Copied, Goto, Leave, Become, InsideUnchanged, AfterPaste
  <2>3. ServiceTypeOK' /\ PasteTypeOK'
    BY <1>16, Names DEF Copied, serviceVars, InsideUnchanged, pasteVars
  <2>4. QED
    BY <2>1, <2>2, <2>3
<1>17. ASSUME NEW c \in Caller, CopyCancelled(c) PROVE TypeOK'
  <2>1. RecTypeOK'
    BY <1>17 DEF CopyCancelled, recVars
  <2>2. CallTypeOK'
    BY <1>17, Names DEF CopyCancelled, Goto, Leave, Become, InsideUnchanged, AfterPaste
  <2>3. ServiceTypeOK' /\ PasteTypeOK'
    BY <1>17, Names DEF CopyCancelled, serviceVars, InsideUnchanged, pasteVars
  <2>4. QED
    BY <2>1, <2>2, <2>3
<1>18. ASSUME NEW c \in Caller, Pasted(c) PROVE TypeOK'
  <2>1. RecTypeOK'
    BY <1>18 DEF Pasted, recVars
  <2>2. CallTypeOK'
    BY <1>18, Names DEF Pasted, Goto, Leave, Become, InsideUnchanged, AfterPaste
  <2>3. ServiceTypeOK' /\ PasteTypeOK'
    BY <1>18, Names DEF Pasted, serviceVars, InsideUnchanged, pasteVars
  <2>4. QED
    BY <2>1, <2>2, <2>3
<1>19. ASSUME NEW c \in Caller, PasteFailed(c) PROVE TypeOK'
  <2>1. RecTypeOK'
    BY <1>19 DEF PasteFailed, recVars
  <2>2. CallTypeOK'
    BY <1>19, Names DEF PasteFailed, Goto, Leave, Become, InsideUnchanged, AfterPaste
  <2>3. ServiceTypeOK' /\ PasteTypeOK'
    BY <1>19, Names DEF PasteFailed, serviceVars, InsideUnchanged, pasteVars
  <2>4. QED
    BY <2>1, <2>2, <2>3
<1>20. ASSUME NEW c \in Caller, RemoveRecording(c) PROVE TypeOK'
  <2>1. RecTypeOK'
    BY <1>20, MaxTakesAssumption DEF RemoveRecording, RecordingRemoved, recVars, Take
  <2>2. CallTypeOK'
    BY <1>20, Names DEF RemoveRecording, Goto, InsideUnchanged
  <2>3. ServiceTypeOK' /\ PasteTypeOK'
    BY <1>20, Names DEF RemoveRecording, serviceVars, InsideUnchanged, pasteVars
  <2>4. QED
    BY <2>1, <2>2, <2>3
<1>21. ASSUME NEW c \in Caller, SetIdle(c) PROVE TypeOK'
  <2>1. RecTypeOK'
    BY <1>21 DEF SetIdle, recVars
  <2>2. CallTypeOK'
    BY <1>21, Names DEF SetIdle, Goto, InsideUnchanged
  <2>3. ServiceTypeOK' /\ PasteTypeOK'
    BY <1>21, Names DEF SetIdle, serviceVars, InsideUnchanged, pasteVars
  <2>4. QED
    BY <2>1, <2>2, <2>3
<1>22. CASE UNCHANGED vars
  BY <1>22 DEF vars, serviceVars, callVars, pasteVars, recVars
<1>23. QED
  BY <1>1, <1>2, <1>3, <1>4, <1>5, <1>6, <1>7, <1>8, <1>9, <1>10, <1>11, <1>12,
     <1>13, <1>14, <1>15, <1>16, <1>17, <1>18, <1>19, <1>20, <1>21, <1>22 DEF Next,
     Step

\* The initial state is of the types.
LEMMA InitTyped == Init => TypeOK
<1> SUFFICES ASSUME Init PROVE TypeOK
  OBVIOUS
<1>1. RecTypeOK
  <2>1. take \in Take /\ wav \in Take
    BY MaxTakesAssumption DEF Init, RecInit, Take
  <2>2. capturing \in BOOLEAN
    BY DEF Init, RecInit
  <2>3. QED
    BY <2>1, <2>2 DEF RecTypeOK
<1>2. ServiceTypeOK /\ PasteTypeOK
  BY Names DEF Init, ServiceTypeOK, PasteTypeOK
<1>3. CallTypeOK
  <2>1. pc \in [Caller -> Point] /\ cmd \in [Caller -> Method]
    BY Names DEF Init
  <2>2. cancelled \in [Caller -> BOOLEAN] /\ ahead \in [Caller -> SUBSET Caller]
    BY DEF Init
  <2>3. text \in [Caller -> Take] /\ res \in [Caller -> Result]
    BY Names DEF Init
  <2>4. QED
    BY <2>1, <2>2, <2>3 DEF CallTypeOK
<1>4. QED
  BY <1>1, <1>2, <1>3 DEF TypeOK

\* Every variable has its type, so every result and every program point is one
\* the code has (service.go 17-34).
THEOREM TypeCorrect == Spec => []TypeOK
BY InitTyped, TypeInductive, PTL DEF Spec
-----------------------------------------------------------------------------
(* The inductive invariant.                                                *)

\* A step of the caller inside that stays inside and touches nobody's call.
InsideStep(c) ==
    /\ pc[c] \in Inside /\ pc'[c] \in Inside
    /\ op' = op /\ cmd' = cmd
    /\ \A d \in Caller \ {c} : pc'[d] = pc[d] /\ text'[d] = text[d] /\ res'[d] = res[d]

\* Every operation step of the service is one.
LEMMA InsideSteps ==
  ASSUME TypeOK, NEW c \in Caller,
         \/ ToggleRecording(c) \/ StartRecording(c) \/ Open(c) \/ StopRecording(c)
         \/ Close(c) \/ Transcribed(c) \/ TranscriptionFailed(c) \/ RetryLastPaste(c)
         \/ Copied(c) \/ CopyCancelled(c) \/ Pasted(c) \/ PasteFailed(c)
         \/ RemoveRecording(c) \/ SetIdle(c)
  PROVE  InsideStep(c)
<1> USE DEF TypeOK, CallTypeOK, InsideStep, InsideUnchanged, Inside
<1>1. CASE ToggleRecording(c)
  BY <1>1 DEF ToggleRecording, Goto, Leave, Become
<1>2. CASE StartRecording(c)
  BY <1>2 DEF StartRecording, Goto, Leave, Become
<1>3. CASE Open(c)
  BY <1>3 DEF Open, Goto, Leave, Become
<1>4. CASE StopRecording(c)
  BY <1>4 DEF StopRecording, Goto, Leave, Become
<1>5. CASE Close(c)
  BY <1>5 DEF Close, Goto, Leave, Become
<1>6. CASE Transcribed(c)
  BY <1>6 DEF Transcribed, Goto
<1>7. CASE TranscriptionFailed(c)
  BY <1>7 DEF TranscriptionFailed, Goto, Leave, Become
<1>8. CASE RetryLastPaste(c)
  BY <1>8 DEF RetryLastPaste, RetryRefusal, Goto, Leave, Become
<1>9. CASE Copied(c)
  BY <1>9 DEF Copied, Goto, Leave, Become, AfterPaste
<1>10. CASE CopyCancelled(c)
  BY <1>10 DEF CopyCancelled, Goto, Leave, Become, AfterPaste
<1>11. CASE Pasted(c)
  BY <1>11 DEF Pasted, Goto, Leave, Become, AfterPaste
<1>12. CASE PasteFailed(c)
  BY <1>12 DEF PasteFailed, Goto, Leave, Become, AfterPaste
<1>13. CASE RemoveRecording(c)
  BY <1>13 DEF RemoveRecording, Goto
<1>14. CASE SetIdle(c)
  BY <1>14 DEF SetIdle, Goto
<1> QED
  BY <1>1, <1>2, <1>3, <1>4, <1>5, <1>6, <1>7, <1>8, <1>9, <1>10, <1>11, <1>12,
     <1>13, <1>14

\* Such a step cannot disturb the channel, nor what is said of the others.
LEMMA InsideFrame ==
  ASSUME TypeOK, IInv, NEW c \in Caller, InsideStep(c)
  PROVE  /\ OperationExclusive' /\ NoLostWakeup' /\ StateMatchesDevice'
         /\ \A d \in Caller \ {c} : PointAt(d)'
<1>1. op = c /\ op' = c /\ op' # NoCaller
  BY NoCallerAssumption DEF IInv, OperationExclusive, InsideStep
<1>2. OperationExclusive'
  BY <1>1 DEF IInv, OperationExclusive, InsideStep
<1>3. NoLostWakeup' /\ StateMatchesDevice'
  BY <1>1 DEF NoLostWakeup, StateMatchesDevice
<1>4. ASSUME NEW d \in Caller \ {c} PROVE PointAt(d)'
  <2>1. pc'[d] = pc[d] /\ text'[d] = text[d] /\ res'[d] = res[d] /\ cmd'[d] = cmd[d]
    BY DEF InsideStep
  <2>2. pc[d] \notin Inside
    BY <1>1 DEF IInv, OperationExclusive
  <2>3. pc[d] \in {"out", "enter", "queued"}
    BY <2>2 DEF TypeOK, CallTypeOK, Point
  <2>4. text[d] = 0 /\ res[d] # "busy" /\ (pc[d] = "queued" => cmd[d] = "stop")
    BY <2>3 DEF IInv, PointInv, PointAt, TextAt, ResultAt, MethodAt
  <2>5. QED
    BY <2>1, <2>3, <2>4 DEF PointAt, StateAt, TextAt, ResultAt, MethodAt
<1>5. QED
  BY <1>2, <1>3, <1>4
\* IInv is inductive.
LEMMA IInvInductive == TypeOK /\ TypeOK' /\ IInv /\ [Next]_vars => IInv'
<1> SUFFICES ASSUME TypeOK, TypeOK', IInv, [Next]_vars PROVE IInv'
  OBVIOUS
<1> USE DEF IInv, PointInv
<1>1. ASSUME NEW c \in Caller, NEW m \in Method, Call(c, m) PROVE IInv'
  <2>1. OperationExclusive' /\ NoLostWakeup'
    BY <1>1 DEF Call, Goto, OperationExclusive, NoLostWakeup, Queued, Inside, TypeOK,
       CallTypeOK, serviceVars
  <2>2. \A d \in Caller : PointAt(d)'
    BY <1>1 DEF Call, Goto, PointAt, StateAt, TextAt, ResultAt, MethodAt, AtRest,
       TypeOK,
       CallTypeOK, serviceVars, pasteVars, recVars
  <2>3. QED
    BY <1>1, <2>1, <2>2 DEF Call, StateMatchesDevice, RetryNeedsTranscript, FreshFile,
       serviceVars, recVars
<1>2. ASSUME NEW c \in Caller, Cancel(c) PROVE IInv'
  BY <1>2 DEF Cancel, OperationExclusive, NoLostWakeup, Queued, StateMatchesDevice,
     RetryNeedsTranscript, FreshFile, PointAt, StateAt, TextAt, ResultAt, MethodAt, AtRest,
     serviceVars, pasteVars, recVars
<1>3. ASSUME NEW c \in Caller, Acquire(c) PROVE IInv'
  <2>1. pc' = [pc EXCEPT ![c] = cmd[c]] /\ cmd[c] \in Method /\ op = NoCaller /\ op' = c
    BY <1>3 DEF Acquire, Goto, TypeOK, CallTypeOK
  <2>2. OperationExclusive' /\ NoLostWakeup' /\ StateMatchesDevice'
    BY <2>1, NoCallerAssumption DEF OperationExclusive, NoLostWakeup,
       StateMatchesDevice,
       Inside, Method, TypeOK, CallTypeOK
  <2>3. \A d \in Caller \ {c} : PointAt(d)'
    <3> SUFFICES ASSUME NEW d \in Caller \ {c} PROVE PointAt(d)'
      OBVIOUS
    <3>1. pc[d] \in {"out", "enter", "queued"} /\ pc'[d] = pc[d]
      BY <2>1, NoCallerAssumption DEF OperationExclusive, TypeOK, CallTypeOK, Point
    <3>2. QED
      BY <1>3, <3>1 DEF Acquire, PointAt, StateAt, TextAt, ResultAt, MethodAt
  <2>4. AtRest /\ text[c] = 0 /\ res[c] # "busy"
    BY <1>3, <2>1 DEF Acquire, StateMatchesDevice, AtRest, PointAt, TextAt, ResultAt
  <2>5. PointAt(c)'
    BY <1>3, <2>1, <2>4 DEF Acquire, PointAt, StateAt, TextAt, ResultAt, MethodAt,
       AtRest,
       Method, TypeOK, CallTypeOK, recVars
  <2>6. QED
    BY <1>3, <2>2, <2>3, <2>5 DEF Acquire, RetryNeedsTranscript, FreshFile, recVars
<1>4. ASSUME NEW c \in Caller, Refuse(c) PROVE IInv'
  <2>1. OperationExclusive' /\ NoLostWakeup'
    BY <1>4 DEF Refuse, Goto, OperationExclusive, NoLostWakeup, Queued, Inside, TypeOK,
       CallTypeOK, serviceVars
  <2>2. \A d \in Caller : PointAt(d)'
    BY <1>4 DEF Refuse, Goto, Forget, Become, PointAt, StateAt, TextAt, ResultAt,
       MethodAt,
       AtRest, TypeOK, CallTypeOK, serviceVars, pasteVars, recVars
  <2>3. QED
    BY <1>4, <2>1, <2>2 DEF Refuse, StateMatchesDevice, RetryNeedsTranscript, FreshFile,
       serviceVars, recVars
<1>5. ASSUME NEW c \in Caller, Enqueue(c) PROVE IInv'
  <2>1. OperationExclusive' /\ NoLostWakeup'
    BY <1>5 DEF Enqueue, Goto, OperationExclusive, NoLostWakeup, Inside, TypeOK,
       CallTypeOK, serviceVars
  <2>2. \A d \in Caller : PointAt(d)'
    BY <1>5 DEF Enqueue, Goto, PointAt, StateAt, TextAt, ResultAt, MethodAt,
       AtRest, TypeOK, CallTypeOK, serviceVars, pasteVars, recVars
  <2>3. QED
    BY <1>5, <2>1, <2>2 DEF Enqueue, StateMatchesDevice, RetryNeedsTranscript,
       FreshFile,
       serviceVars, recVars
<1>6. ASSUME NEW c \in Caller, LeaveQueue(c) PROVE IInv'
  <2>1. OperationExclusive' /\ NoLostWakeup'
    BY <1>6 DEF LeaveQueue, Goto, OperationExclusive, NoLostWakeup, Queued,
       Inside, TypeOK,
       CallTypeOK, serviceVars
  <2>2. \A d \in Caller : PointAt(d)'
    BY <1>6 DEF LeaveQueue, Goto, Forget, Become, PointAt, StateAt, TextAt, ResultAt,
       MethodAt, AtRest, TypeOK, CallTypeOK, serviceVars, pasteVars, recVars
  <2>3. QED
    BY <1>6, <2>1, <2>2 DEF LeaveQueue, StateMatchesDevice, RetryNeedsTranscript,
       FreshFile,
       serviceVars, recVars
<1>7. ASSUME NEW c \in Caller, Release(c) PROVE IInv'
  <2>1. AtRest /\ AtRest' /\ op = c
    BY <1>7 DEF Release, OperationExclusive, Inside, PointAt, StateAt, AtRest, recVars
  <2>2. \A d \in Caller \ {c} : pc[d] \in {"out", "enter", "queued"}
    BY <2>1 DEF OperationExclusive, TypeOK, CallTypeOK, Point
  <2>3. /\ text' = [text EXCEPT ![c] = 0] /\ res' = [res EXCEPT ![c] = "none"]
        /\ cmd' = [cmd EXCEPT ![c] = "start"]
    BY <1>7 DEF Release, Forget, Become
  <2>4. \A d \in Caller : text'[d] = 0 /\ res'[d] # "busy"
    BY <2>2, <2>3 DEF PointAt, TextAt, ResultAt, TypeOK, CallTypeOK
  <2>5. CASE ReleaseToNobody(c)
    <3>1. pc' = [pc EXCEPT ![c] = "out"] /\ op' = NoCaller /\ Queued = {}
      BY <2>5 DEF ReleaseToNobody, Goto
    <3>2. OperationExclusive' /\ NoLostWakeup' /\ StateMatchesDevice'
      BY <2>1, <2>2, <3>1, NoCallerAssumption DEF OperationExclusive, NoLostWakeup,
         StateMatchesDevice, AtRest, Queued, Inside, TypeOK, CallTypeOK
    <3>3. \A d \in Caller : PointAt(d)'
      BY <2>2, <2>4, <3>1 DEF PointAt, StateAt, TextAt, ResultAt, MethodAt, Queued,
         TypeOK, CallTypeOK
    <3>4. QED
      BY <1>7, <3>2, <3>3 DEF Release, RetryNeedsTranscript, FreshFile, recVars
  <2>6. CASE ReleaseToFirst(c)
    <3>1. PICK w \in Queued : op' = w /\ pc' = [pc EXCEPT ![c] = "out", ![w] = "stop"]
      BY <2>6 DEF ReleaseToFirst
    <3>2. w \in Caller /\ w # c /\ cmd'[w] = "stop" /\ pc'[w] = "stop" /\ pc'[c] = "out"
      BY <1>7, <2>3, <3>1 DEF Queued, Release, PointAt, MethodAt, TypeOK, CallTypeOK
    <3>3. OperationExclusive' /\ NoLostWakeup' /\ StateMatchesDevice'
      BY <2>2, <3>1, <3>2, NoCallerAssumption DEF OperationExclusive, NoLostWakeup,
         StateMatchesDevice, Inside, TypeOK, CallTypeOK
    <3>4. PointAt(w)'
      BY <2>1, <2>4, <3>2 DEF PointAt, StateAt, TextAt, ResultAt, MethodAt
    <3>5. \A d \in Caller \ {w} : PointAt(d)'
      BY <2>2, <2>3, <2>4, <3>1, <3>2 DEF PointAt, StateAt, TextAt, ResultAt, MethodAt,
         TypeOK, CallTypeOK
    <3>6. QED
      BY <1>7, <3>3, <3>4, <3>5 DEF Release, RetryNeedsTranscript, FreshFile, recVars
  <2>7. QED
    BY <1>7, <2>5, <2>6 DEF Release
<1>8. ASSUME NEW c \in Caller, ToggleRecording(c) PROVE IInv'
  <2>1. PointAt(c)'
    BY <1>8 DEF ToggleRecording, Goto, Leave, Become, PointAt, StateAt, TextAt,
       ResultAt, MethodAt,
       AtRest, RetryNeedsTranscript, FreshFile, InsideUnchanged, TypeOK, CallTypeOK,
       serviceVars, pasteVars, recVars
  <2>2. RetryNeedsTranscript' /\ FreshFile'
    BY <1>8 DEF ToggleRecording, RetryNeedsTranscript, FreshFile, PointAt,
       StateAt, TextAt,
       serviceVars, recVars
  <2>3. QED
    BY <1>8, <2>1, <2>2, InsideSteps, InsideFrame
<1>9. ASSUME NEW c \in Caller, StartRecording(c) PROVE IInv'
  <2>1. PointAt(c)'
    <3>1. CASE current = "idle"
      <4>1. pc'[c] = "open" /\ res'[c] = res[c] /\ text'[c] = text[c] /\ cmd'[c] = cmd[c]
        BY <1>9, <3>1 DEF StartRecording, Goto, InsideUnchanged, TypeOK, CallTypeOK
      <4>2. QED
        BY <1>9, <3>1, <4>1 DEF StartRecording, PointAt, StateAt, TextAt,
           ResultAt, MethodAt, AtRest,
           recVars
    <3>2. CASE current # "idle"
      <4>1. pc'[c] = "release" /\ text'[c] = text[c] /\ cmd'[c] = cmd[c]
        BY <1>9, <3>2 DEF StartRecording, Leave, Goto, InsideUnchanged,
           TypeOK, CallTypeOK
      <4>2. res'[c] \in {"already", "notRecording"}
        BY <1>9, <3>2 DEF StartRecording, Leave, Become, PointAt, StateAt,
           AtRest, TypeOK,
           CallTypeOK, ServiceTypeOK, State
      <4>3. QED
        BY <1>9, <3>2, <4>1, <4>2 DEF StartRecording, PointAt, StateAt,
           TextAt, ResultAt, MethodAt,
           AtRest, recVars
    <3>3. QED
      BY <3>1, <3>2
  <2>2. RetryNeedsTranscript' /\ FreshFile'
    BY <1>9 DEF StartRecording, RetryNeedsTranscript, FreshFile, PointAt, StateAt,
       TextAt,
       serviceVars, recVars
  <2>3. QED
    BY <1>9, <2>1, <2>2, InsideSteps, InsideFrame
<1>10. ASSUME NEW c \in Caller, Open(c) PROVE IInv'
  <2>1. PointAt(c)'
    BY <1>10 DEF Open, Goto, Leave, Become, RecorderStarted, RecorderStartFailed,
       PointAt, StateAt, TextAt, ResultAt, MethodAt,
       AtRest, RetryNeedsTranscript, FreshFile, InsideUnchanged, TypeOK, CallTypeOK,
       serviceVars, pasteVars, recVars
  <2>2. RetryNeedsTranscript' /\ FreshFile'
    BY <1>10 DEF Open, RecorderStarted, RecorderStartFailed, RetryNeedsTranscript,
       FreshFile, PointAt, StateAt, TextAt,
       serviceVars, recVars
  <2>3. QED
    BY <1>10, <2>1, <2>2, InsideSteps, InsideFrame
<1>11. ASSUME NEW c \in Caller, StopRecording(c) PROVE IInv'
  <2>1. PointAt(c)'
    <3>1. CASE current = "recording"
      <4>1. pc'[c] = "close" /\ res'[c] = res[c] /\ text'[c] = text[c] /\ cmd'[c] = cmd[c]
        BY <1>11, <3>1 DEF StopRecording, Goto, InsideUnchanged, TypeOK, CallTypeOK
      <4>2. QED
        BY <1>11, <3>1, <4>1 DEF StopRecording, PointAt, StateAt, TextAt,
           ResultAt, MethodAt, AtRest,
           recVars
    <3>2. CASE current # "recording"
      <4>1. pc'[c] = "release" /\ text'[c] = text[c] /\ cmd'[c] = cmd[c]
        BY <1>11, <3>2 DEF StopRecording, Leave, Goto, InsideUnchanged,
           TypeOK, CallTypeOK
      <4>2. res'[c] \in {"already", "notRecording"}
        BY <1>11, <3>2 DEF StopRecording, Leave, Become, PointAt, StateAt,
           AtRest, TypeOK,
           CallTypeOK, ServiceTypeOK, State
      <4>3. QED
        BY <1>11, <3>2, <4>1, <4>2 DEF StopRecording, PointAt, StateAt,
           TextAt, ResultAt, MethodAt,
           AtRest, recVars
    <3>3. QED
      BY <3>1, <3>2
  <2>2. RetryNeedsTranscript' /\ FreshFile'
    BY <1>11 DEF StopRecording, RetryNeedsTranscript, FreshFile, PointAt, StateAt,
       TextAt,
       serviceVars, recVars
  <2>3. QED
    BY <1>11, <2>1, <2>2, InsideSteps, InsideFrame
<1>12. ASSUME NEW c \in Caller, Close(c) PROVE IInv'
  <2>1. PointAt(c)'
    BY <1>12 DEF Close, Goto, Leave, Become, RecorderStopped, RecorderStopFailed,
       PointAt, StateAt, TextAt, ResultAt, MethodAt,
       AtRest, RetryNeedsTranscript, FreshFile, InsideUnchanged, TypeOK, CallTypeOK,
       serviceVars, pasteVars, recVars
  <2>2. RetryNeedsTranscript' /\ FreshFile'
    BY <1>12 DEF Close, RecorderStopped, RecorderStopFailed, RetryNeedsTranscript,
       FreshFile, PointAt, StateAt, TextAt,
       serviceVars, recVars
  <2>3. QED
    BY <1>12, <2>1, <2>2, InsideSteps, InsideFrame
<1>13. ASSUME NEW c \in Caller, Transcribed(c) PROVE IInv'
  <2>1. PointAt(c)'
    BY <1>13 DEF Transcribed, Goto, PointAt, StateAt, TextAt, ResultAt, MethodAt,
       AtRest, RetryNeedsTranscript, FreshFile, InsideUnchanged, TypeOK, CallTypeOK,
       serviceVars, pasteVars, recVars
  <2>2. RetryNeedsTranscript' /\ FreshFile'
    BY <1>13 DEF Transcribed, RetryNeedsTranscript, FreshFile, PointAt, StateAt, TextAt,
       serviceVars, recVars
  <2>3. QED
    BY <1>13, <2>1, <2>2, InsideSteps, InsideFrame
<1>14. ASSUME NEW c \in Caller, TranscriptionFailed(c) PROVE IInv'
  <2>1. PointAt(c)'
    BY <1>14 DEF TranscriptionFailed, Goto, Leave, Become, PointAt, StateAt,
       TextAt, ResultAt, MethodAt,
       AtRest, RetryNeedsTranscript, FreshFile, InsideUnchanged, TypeOK, CallTypeOK,
       serviceVars, pasteVars, recVars
  <2>2. RetryNeedsTranscript' /\ FreshFile'
    BY <1>14 DEF TranscriptionFailed, RetryNeedsTranscript, FreshFile, PointAt,
       StateAt, TextAt,
       serviceVars, recVars
  <2>3. QED
    BY <1>14, <2>1, <2>2, InsideSteps, InsideFrame
<1>15. ASSUME NEW c \in Caller, RetryLastPaste(c) PROVE IInv'
  <2>1. PointAt(c)'
    <3>1. CASE RetryRefusal = "none"
      <4>1. /\ pc'[c] = "copy" /\ res'[c] = res[c] /\ cmd'[c] = cmd[c]
            /\ text'[c] = lastTranscript
        BY <1>15, <3>1 DEF RetryLastPaste, Goto, InsideUnchanged, TypeOK, CallTypeOK
      <4>2. cmd[c] = "retry" /\ current = "idle" /\ ~capturing /\ lastTranscript # 0
        BY <1>15, <3>1 DEF RetryLastPaste, RetryRefusal, PointAt, StateAt,
           MethodAt, AtRest
      <4>3. QED
        BY <1>15, <4>1, <4>2 DEF RetryLastPaste, PointAt, StateAt, TextAt, ResultAt,
           MethodAt, recVars
    <3>2. CASE RetryRefusal # "none"
      <4>1. pc'[c] = "release" /\ text'[c] = text[c] /\ res'[c] = RetryRefusal
        BY <1>15, <3>2 DEF RetryLastPaste, Leave, Goto, Become, TypeOK, CallTypeOK
      <4>2. RetryRefusal \in {"invalid", "noTranscript"}
        BY <1>15, <3>2 DEF RetryLastPaste, RetryRefusal, PointAt, StateAt, AtRest
      <4>3. QED
        BY <1>15, <4>1, <4>2 DEF RetryLastPaste, PointAt, StateAt, TextAt, ResultAt,
           MethodAt, AtRest, recVars
    <3>3. QED
      BY <3>1, <3>2
  <2>2. RetryNeedsTranscript' /\ FreshFile'
    BY <1>15 DEF RetryLastPaste, RetryRefusal, RetryNeedsTranscript, FreshFile,
       PointAt, StateAt, TextAt,
       serviceVars, recVars
  <2>3. QED
    BY <1>15, <2>1, <2>2, InsideSteps, InsideFrame
<1>16. ASSUME NEW c \in Caller, Copied(c) PROVE IInv'
  <2>1. PointAt(c)'
    BY <1>16 DEF Copied, Goto, Leave, Become, AfterPaste, PointAt, StateAt,
       TextAt, ResultAt, MethodAt,
       AtRest, RetryNeedsTranscript, FreshFile, InsideUnchanged, TypeOK, CallTypeOK,
       serviceVars, pasteVars, recVars
  <2>2. RetryNeedsTranscript' /\ FreshFile'
    BY <1>16 DEF Copied, RetryNeedsTranscript, FreshFile, PointAt, StateAt, TextAt,
       serviceVars, recVars
  <2>3. QED
    BY <1>16, <2>1, <2>2, InsideSteps, InsideFrame
<1>17. ASSUME NEW c \in Caller, CopyCancelled(c) PROVE IInv'
  <2>1. PointAt(c)'
    BY <1>17 DEF CopyCancelled, Goto, Leave, Become, AfterPaste, PointAt, StateAt,
       TextAt, ResultAt, MethodAt,
       AtRest, RetryNeedsTranscript, FreshFile, InsideUnchanged, TypeOK, CallTypeOK,
       serviceVars, pasteVars, recVars
  <2>2. RetryNeedsTranscript' /\ FreshFile'
    BY <1>17 DEF CopyCancelled, RetryNeedsTranscript, FreshFile, PointAt, StateAt,
       TextAt,
       serviceVars, recVars
  <2>3. QED
    BY <1>17, <2>1, <2>2, InsideSteps, InsideFrame
<1>18. ASSUME NEW c \in Caller, Pasted(c) PROVE IInv'
  <2>1. PointAt(c)'
    BY <1>18 DEF Pasted, Goto, Leave, Become, AfterPaste, PointAt, StateAt,
       TextAt, ResultAt, MethodAt,
       AtRest, RetryNeedsTranscript, FreshFile, InsideUnchanged, TypeOK, CallTypeOK,
       serviceVars, pasteVars, recVars
  <2>2. RetryNeedsTranscript' /\ FreshFile'
    BY <1>18 DEF Pasted, RetryNeedsTranscript, FreshFile, PointAt, StateAt, TextAt,
       serviceVars, recVars
  <2>3. QED
    BY <1>18, <2>1, <2>2, InsideSteps, InsideFrame
<1>19. ASSUME NEW c \in Caller, PasteFailed(c) PROVE IInv'
  <2>1. PointAt(c)'
    BY <1>19 DEF PasteFailed, Goto, Leave, Become, AfterPaste, PointAt, StateAt,
       TextAt, ResultAt, MethodAt,
       AtRest, RetryNeedsTranscript, FreshFile, InsideUnchanged, TypeOK, CallTypeOK,
       serviceVars, pasteVars, recVars
  <2>2. RetryNeedsTranscript' /\ FreshFile'
    BY <1>19 DEF PasteFailed, RetryNeedsTranscript, FreshFile, PointAt, StateAt, TextAt,
       serviceVars, recVars
  <2>3. QED
    BY <1>19, <2>1, <2>2, InsideSteps, InsideFrame
<1>20. ASSUME NEW c \in Caller, RemoveRecording(c) PROVE IInv'
  <2>1. PointAt(c)'
    BY <1>20 DEF RemoveRecording, Goto, RecordingRemoved, PointAt, StateAt,
       TextAt, ResultAt, MethodAt,
       AtRest, RetryNeedsTranscript, FreshFile, InsideUnchanged, TypeOK, CallTypeOK,
       serviceVars, pasteVars, recVars
  <2>2. RetryNeedsTranscript' /\ FreshFile'
    BY <1>20 DEF RemoveRecording, RecordingRemoved, RetryNeedsTranscript,
       FreshFile, PointAt, StateAt, TextAt,
       serviceVars, recVars
  <2>3. QED
    BY <1>20, <2>1, <2>2, InsideSteps, InsideFrame
<1>21. ASSUME NEW c \in Caller, SetIdle(c) PROVE IInv'
  <2>1. PointAt(c)'
    BY <1>21 DEF SetIdle, Goto, PointAt, StateAt, TextAt, ResultAt, MethodAt,
       AtRest, RetryNeedsTranscript, FreshFile, InsideUnchanged, TypeOK, CallTypeOK,
       serviceVars, pasteVars, recVars
  <2>2. RetryNeedsTranscript' /\ FreshFile'
    BY <1>21 DEF SetIdle, RetryNeedsTranscript, FreshFile, PointAt, StateAt, TextAt,
       serviceVars, recVars
  <2>3. QED
    BY <1>21, <2>1, <2>2, InsideSteps, InsideFrame
<1>22. CASE UNCHANGED vars
  BY <1>22 DEF vars, serviceVars, callVars, pasteVars, recVars, OperationExclusive,
     NoLostWakeup, Queued, StateMatchesDevice, RetryNeedsTranscript, FreshFile, PointAt,
     StateAt, TextAt, ResultAt, MethodAt, AtRest
<1>23. QED
  BY <1>1, <1>2, <1>3, <1>4, <1>5, <1>6, <1>7, <1>8, <1>9, <1>10, <1>11, <1>12,
     <1>13, <1>14, <1>15, <1>16, <1>17, <1>18, <1>19, <1>20, <1>21, <1>22 DEF Next,
     Step
-----------------------------------------------------------------------------
(* The theorems.                                                           *)

\* Nobody is inside, and nothing is recorded, at the beginning.
LEMMA InitIInv == Init => IInv
BY NoCallerAssumption DEF Init, RecInit, IInv, OperationExclusive, NoLostWakeup,
   Queued,
   Inside, StateMatchesDevice, RetryNeedsTranscript, FreshFile, PointInv, PointAt, StateAt,
   TextAt, ResultAt, MethodAt

\* The inductive invariant holds: what each program point knows is true.
THEOREM Invariance == Spec => [](TypeOK /\ IInv)
<1>1. TypeOK /\ IInv /\ [Next]_vars => (TypeOK /\ IInv)'
  BY TypeInductive, IInvInductive
<1>2. QED
  BY InitIInv, <1>1, TypeCorrect, PTL DEF Spec

\* One caller at a time is between the acquisition of the operation channel
\* and its release, and it is the one whose token is in the channel.
THEOREM Exclusion == Spec => []OperationExclusive
<1>1. IInv => OperationExclusive
  BY DEF IInv
<1>2. QED
  BY <1>1, Invariance, PTL

\* A stop that waits for the channel waits for somebody who will release it.
THEOREM NoWaitForNobody == Spec => []NoLostWakeup
<1>1. IInv => NoLostWakeup
  BY DEF IInv
<1>2. QED
  BY <1>1, Invariance, PTL

\* Between operations the state says whether the microphone is open.
THEOREM StateOfTheDevice == Spec => []StateMatchesDevice
<1>1. IInv => StateMatchesDevice
  BY DEF IInv
<1>2. QED
  BY <1>1, Invariance, PTL

\* A paste delivers the transcript of the caller's own recording, or, for a
\* retry, the last one kept.
THEOREM OwnTranscript == Spec => []PastesOwnTranscript
<1>1. IInv => PastesOwnTranscript
  BY DEF IInv, PointInv, PointAt, TextAt, PastesOwnTranscript
<1>2. QED
  BY <1>1, Invariance, PTL

\* What a method returns is what happened.
THEOREM TruthfulResults == Spec => []ResultIsTruthful
<1>1. TypeOK /\ IInv => ResultIsTruthful
  <2> SUFFICES ASSUME TypeOK, IInv, NEW c \in Caller, pc[c] = "release"
               PROVE  /\ res[c] = "ok" /\ text[c] = 0 => capturing /\ current = "recording"
                      /\ res[c] = "ok" /\ text[c] # 0 =>
                            ~capturing /\ current = "idle" /\ (EnablePaste => typed = text[c])
                      /\ res[c] \in {"copy", "paste"} =>
                            retryEligible /\ lastTranscript = text[c]
                      /\ res[c] = "transcription" => ~retryEligible /\ current = "idle"
                      /\ res[c] = "recorder" => ~capturing /\ current = "idle"
    BY DEF ResultIsTruthful
  <2>1. ResultAt(c) /\ AtRest
    BY DEF IInv, PointInv, PointAt, StateAt
  <2>2. QED
    BY <2>1 DEF ResultAt, AtRest, IInv, RetryNeedsTranscript
<1>2. QED
  BY <1>1, Invariance, PTL

\* A caller that was let in is never told the session is processing.
THEOREM BusyOnlyAtTheDoor == Spec => []NeverBusyInside
<1>1. IInv => NeverBusyInside
  BY DEF IInv, PointInv, PointAt, ResultAt, NeverBusyInside
<1>2. QED
  BY <1>1, Invariance, PTL

\* The state machine of the service follows the microphone.
THEOREM StateFollows == Spec => StateFollowsDevice
<1> DEFINE Follows == current' # current =>
               \/ current = "idle" /\ current' = "recording" /\ ~capturing
               \/ current = "recording" /\ current' = "processing" /\ capturing
               \/ current # "idle" /\ current' = "idle" /\ ~capturing
<1>1. IInv /\ [Next]_vars => Follows
  <2> SUFFICES ASSUME IInv, [Next]_vars PROVE Follows
    OBVIOUS
  <2> USE DEF IInv, PointInv, PointAt, StateAt, AtRest
  <2>1. ASSUME NEW c \in Caller, NEW m \in Method, Call(c, m) PROVE Follows
    BY <2>1 DEF Call, serviceVars, recVars
  <2>2. ASSUME NEW c \in Caller, Cancel(c) PROVE Follows
    BY <2>2 DEF Cancel, serviceVars, recVars
  <2>3. ASSUME NEW c \in Caller, Acquire(c) PROVE Follows
    BY <2>3 DEF Acquire, serviceVars, recVars
  <2>4. ASSUME NEW c \in Caller, Refuse(c) PROVE Follows
    BY <2>4 DEF Refuse, serviceVars, recVars
  <2>5. ASSUME NEW c \in Caller, Enqueue(c) PROVE Follows
    BY <2>5 DEF Enqueue, serviceVars, recVars
  <2>6. ASSUME NEW c \in Caller, LeaveQueue(c) PROVE Follows
    BY <2>6 DEF LeaveQueue, serviceVars, recVars
  <2>7. ASSUME NEW c \in Caller, Release(c) PROVE Follows
    BY <2>7 DEF Release, serviceVars, recVars
  <2>8. ASSUME NEW c \in Caller, ToggleRecording(c) PROVE Follows
    BY <2>8 DEF ToggleRecording, serviceVars, recVars
  <2>9. ASSUME NEW c \in Caller, StartRecording(c) PROVE Follows
    BY <2>9 DEF StartRecording, serviceVars, recVars
  <2>10. ASSUME NEW c \in Caller, Open(c) PROVE Follows
    BY <2>10 DEF Open, RecorderStarted, RecorderStartFailed, serviceVars, recVars
  <2>11. ASSUME NEW c \in Caller, StopRecording(c) PROVE Follows
    BY <2>11 DEF StopRecording, serviceVars, recVars
  <2>12. ASSUME NEW c \in Caller, Close(c) PROVE Follows
    BY <2>12 DEF Close, RecorderStopped, RecorderStopFailed, serviceVars, recVars
  <2>13. ASSUME NEW c \in Caller, Transcribed(c) PROVE Follows
    BY <2>13 DEF Transcribed, serviceVars, recVars
  <2>14. ASSUME NEW c \in Caller, TranscriptionFailed(c) PROVE Follows
    BY <2>14 DEF TranscriptionFailed, serviceVars, recVars
  <2>15. ASSUME NEW c \in Caller, RetryLastPaste(c) PROVE Follows
    BY <2>15 DEF RetryLastPaste, serviceVars, recVars
  <2>16. ASSUME NEW c \in Caller, Copied(c) PROVE Follows
    BY <2>16 DEF Copied, serviceVars, recVars
  <2>17. ASSUME NEW c \in Caller, CopyCancelled(c) PROVE Follows
    BY <2>17 DEF CopyCancelled, serviceVars, recVars
  <2>18. ASSUME NEW c \in Caller, Pasted(c) PROVE Follows
    BY <2>18 DEF Pasted, serviceVars, recVars
  <2>19. ASSUME NEW c \in Caller, PasteFailed(c) PROVE Follows
    BY <2>19 DEF PasteFailed, serviceVars, recVars
  <2>20. ASSUME NEW c \in Caller, RemoveRecording(c) PROVE Follows
    BY <2>20 DEF RemoveRecording, RecordingRemoved, serviceVars, recVars
  <2>21. ASSUME NEW c \in Caller, SetIdle(c) PROVE Follows
    BY <2>21 DEF SetIdle, serviceVars, recVars
  <2>22. CASE UNCHANGED vars
    BY <2>22 DEF vars, serviceVars, pasteVars, recVars
  <2>23. QED
    BY <2>1, <2>2, <2>3, <2>4, <2>5, <2>6, <2>7, <2>8, <2>9, <2>10, <2>11, <2>12,
       <2>13, <2>14, <2>15, <2>16, <2>17, <2>18, <2>19, <2>20, <2>21, <2>22 DEF
       Next, Step
<1>2. QED
  BY <1>1, Invariance, PTL DEF Spec, StateFollowsDevice

\* While the microphone is open nothing is copied or typed.
THEOREM SilentWhileRecording == Spec => NothingTypedWhileRecording
<1> DEFINE Silent == <<clip, typed>>' # <<clip, typed>> =>
                        ~capturing /\ lastTranscript' = lastTranscript
<1>1. IInv /\ [Next]_vars => Silent
  <2> SUFFICES ASSUME IInv, [Next]_vars PROVE Silent
    OBVIOUS
  <2> USE DEF IInv, PointInv, PointAt, StateAt
  <2>1. ASSUME NEW c \in Caller, NEW m \in Method, Call(c, m) PROVE Silent
    BY <2>1 DEF Call, pasteVars
  <2>2. ASSUME NEW c \in Caller, Cancel(c) PROVE Silent
    BY <2>2 DEF Cancel, pasteVars
  <2>3. ASSUME NEW c \in Caller, Acquire(c) PROVE Silent
    BY <2>3 DEF Acquire, pasteVars
  <2>4. ASSUME NEW c \in Caller, Refuse(c) PROVE Silent
    BY <2>4 DEF Refuse, pasteVars
  <2>5. ASSUME NEW c \in Caller, Enqueue(c) PROVE Silent
    BY <2>5 DEF Enqueue, pasteVars
  <2>6. ASSUME NEW c \in Caller, LeaveQueue(c) PROVE Silent
    BY <2>6 DEF LeaveQueue, pasteVars
  <2>7. ASSUME NEW c \in Caller, Release(c) PROVE Silent
    BY <2>7 DEF Release, pasteVars
  <2>8. ASSUME NEW c \in Caller, ToggleRecording(c) PROVE Silent
    BY <2>8 DEF ToggleRecording, pasteVars
  <2>9. ASSUME NEW c \in Caller, StartRecording(c) PROVE Silent
    BY <2>9 DEF StartRecording, pasteVars
  <2>10. ASSUME NEW c \in Caller, Open(c) PROVE Silent
    BY <2>10 DEF Open, RecorderStarted, RecorderStartFailed, pasteVars
  <2>11. ASSUME NEW c \in Caller, StopRecording(c) PROVE Silent
    BY <2>11 DEF StopRecording, pasteVars
  <2>12. ASSUME NEW c \in Caller, Close(c) PROVE Silent
    BY <2>12 DEF Close, RecorderStopped, RecorderStopFailed, pasteVars
  <2>13. ASSUME NEW c \in Caller, Transcribed(c) PROVE Silent
    BY <2>13 DEF Transcribed, pasteVars
  <2>14. ASSUME NEW c \in Caller, TranscriptionFailed(c) PROVE Silent
    BY <2>14 DEF TranscriptionFailed, pasteVars
  <2>15. ASSUME NEW c \in Caller, RetryLastPaste(c) PROVE Silent
    BY <2>15 DEF RetryLastPaste, pasteVars
  <2>16. ASSUME NEW c \in Caller, Copied(c) PROVE Silent
    BY <2>16 DEF Copied, pasteVars
  <2>17. ASSUME NEW c \in Caller, CopyCancelled(c) PROVE Silent
    BY <2>17 DEF CopyCancelled, pasteVars
  <2>18. ASSUME NEW c \in Caller, Pasted(c) PROVE Silent
    BY <2>18 DEF Pasted, pasteVars
  <2>19. ASSUME NEW c \in Caller, PasteFailed(c) PROVE Silent
    BY <2>19 DEF PasteFailed, pasteVars
  <2>20. ASSUME NEW c \in Caller, RemoveRecording(c) PROVE Silent
    BY <2>20 DEF RemoveRecording, RecordingRemoved, pasteVars
  <2>21. ASSUME NEW c \in Caller, SetIdle(c) PROVE Silent
    BY <2>21 DEF SetIdle, pasteVars
  <2>22. CASE UNCHANGED vars
    BY <2>22 DEF vars, serviceVars, pasteVars, recVars
  <2>23. QED
    BY <2>1, <2>2, <2>3, <2>4, <2>5, <2>6, <2>7, <2>8, <2>9, <2>10, <2>11, <2>12,
       <2>13, <2>14, <2>15, <2>16, <2>17, <2>18, <2>19, <2>20, <2>21, <2>22 DEF
       Next, Step
<1>2. QED
  BY <1>1, Invariance, PTL DEF Spec, NothingTypedWhileRecording

\* A dictation that has not begun is one of a service that has not begun.
LEMMA AbstractInit == Init => Abstract!Init
BY DEF Init, RecInit, Abstract!Init, phase

\* A step of any caller is one step of a single dictation, or none.
LEMMA AbstractSteps == TypeOK /\ IInv /\ [Next]_vars => [Abstract!Next]_(Abstract!vars)
<1> SUFFICES ASSUME TypeOK, IInv, [Next]_vars PROVE [Abstract!Next]_(Abstract!vars)
  OBVIOUS
<1> USE DEF IInv, PointInv, PointAt, StateAt, TextAt, Abstract!vars, Abstract!Next, phase
<1>1. ASSUME NEW c \in Caller, NEW m \in Method, Call(c, m) PROVE [Abstract!Next]_(Abstract!vars)
  BY <1>1 DEF Call, serviceVars, pasteVars, recVars
<1>2. ASSUME NEW c \in Caller, Cancel(c) PROVE [Abstract!Next]_(Abstract!vars)
  BY <1>2 DEF Cancel, serviceVars, pasteVars, recVars
<1>3. ASSUME NEW c \in Caller, Acquire(c) PROVE [Abstract!Next]_(Abstract!vars)
  BY <1>3 DEF Acquire, serviceVars, pasteVars, recVars
<1>4. ASSUME NEW c \in Caller, Refuse(c) PROVE [Abstract!Next]_(Abstract!vars)
  BY <1>4 DEF Refuse, serviceVars, pasteVars, recVars
<1>5. ASSUME NEW c \in Caller, Enqueue(c) PROVE [Abstract!Next]_(Abstract!vars)
  BY <1>5 DEF Enqueue, serviceVars, pasteVars, recVars
<1>6. ASSUME NEW c \in Caller, LeaveQueue(c) PROVE [Abstract!Next]_(Abstract!vars)
  BY <1>6 DEF LeaveQueue, serviceVars, pasteVars, recVars
<1>7. ASSUME NEW c \in Caller, Release(c) PROVE [Abstract!Next]_(Abstract!vars)
  BY <1>7 DEF Release, serviceVars, pasteVars, recVars
<1>8. ASSUME NEW c \in Caller, ToggleRecording(c) PROVE [Abstract!Next]_(Abstract!vars)
  BY <1>8 DEF ToggleRecording, serviceVars, pasteVars, recVars
<1>9. ASSUME NEW c \in Caller, StartRecording(c) PROVE [Abstract!Next]_(Abstract!vars)
  BY <1>9 DEF AtRest, StartRecording, serviceVars, pasteVars, recVars
<1>10. ASSUME NEW c \in Caller, Open(c) PROVE [Abstract!Next]_(Abstract!vars)
  BY <1>10 DEF Abstract!Listen, Abstract!Misfire, Open, RecorderStarted,
     RecorderStartFailed, serviceVars, pasteVars, recVars
<1>11. ASSUME NEW c \in Caller, StopRecording(c) PROVE [Abstract!Next]_(Abstract!vars)
  BY <1>11 DEF AtRest, StopRecording, serviceVars, pasteVars, recVars
<1>12. ASSUME NEW c \in Caller, Close(c) PROVE [Abstract!Next]_(Abstract!vars)
  BY <1>12 DEF Abstract!HandOver, Close, RecorderStopped, RecorderStopFailed,
     serviceVars, pasteVars, recVars
<1>13. ASSUME NEW c \in Caller, Transcribed(c) PROVE [Abstract!Next]_(Abstract!vars)
  BY <1>13 DEF Abstract!Transcribe, MethodAt, Transcribed, serviceVars,
     pasteVars, recVars
<1>14. ASSUME NEW c \in Caller, TranscriptionFailed(c) PROVE [Abstract!Next]_(Abstract!vars)
  BY <1>14 DEF Abstract!Transcribe, TranscriptionFailed, serviceVars, pasteVars,
     recVars
<1>15. ASSUME NEW c \in Caller, RetryLastPaste(c) PROVE [Abstract!Next]_(Abstract!vars)
  BY <1>15 DEF RetryLastPaste, serviceVars, pasteVars, recVars
<1>16. ASSUME NEW c \in Caller, Copied(c) PROVE [Abstract!Next]_(Abstract!vars)
  BY <1>16 DEF Copied, serviceVars, pasteVars, recVars
<1>17. ASSUME NEW c \in Caller, CopyCancelled(c) PROVE [Abstract!Next]_(Abstract!vars)
  BY <1>17 DEF CopyCancelled, serviceVars, pasteVars, recVars
<1>18. ASSUME NEW c \in Caller, Pasted(c) PROVE [Abstract!Next]_(Abstract!vars)
  BY <1>18 DEF Abstract!Type, Abstract!Transcribe, Pasted, serviceVars,
     pasteVars, recVars
<1>19. ASSUME NEW c \in Caller, PasteFailed(c) PROVE [Abstract!Next]_(Abstract!vars)
  BY <1>19 DEF Abstract!Type, PasteFailed, serviceVars, pasteVars, recVars
<1>20. ASSUME NEW c \in Caller, RemoveRecording(c) PROVE [Abstract!Next]_(Abstract!vars)
  BY <1>20 DEF RemoveRecording, RecordingRemoved, serviceVars, pasteVars, recVars
<1>21. ASSUME NEW c \in Caller, SetIdle(c) PROVE [Abstract!Next]_(Abstract!vars)
  BY <1>21 DEF Abstract!Finish, SetIdle, serviceVars, pasteVars, recVars
<1>22. CASE UNCHANGED vars
  BY <1>22 DEF vars, serviceVars, pasteVars, recVars
<1>23. QED
  BY <1>1, <1>2, <1>3, <1>4, <1>5, <1>6, <1>7, <1>8, <1>9, <1>10, <1>11, <1>12,
     <1>13, <1>14, <1>15, <1>16, <1>17, <1>18, <1>19, <1>20, <1>21, <1>22 DEF
     Next, Step

\* The service keeps the promises of Dictation: a step of any of its callers
\* is one step of a single dictation, or none.
THEOREM Refinement == Spec => ImplementsDictation
BY AbstractInit, AbstractSteps, Invariance, PTL DEF Spec, ImplementsDictation, Abstract!Spec
=============================================================================

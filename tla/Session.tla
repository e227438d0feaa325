------------------------------- MODULE Session -------------------------------
(***************************************************************************)
(* internal/modules/session: the state machine at the centre of the        *)
(* daemon.  Callers (the trigger event loop, the handlers of the control    *)
(* socket, the shutdown path) call it concurrently; a channel of capacity   *)
(* one, "operation", admits one of them at a time.  StartRecording,         *)
(* ToggleRecording and RetryLastPaste try it and give up with ErrBusy;      *)
(* StopRecordingAndProcess waits for it, or for the end of its context.     *)
(*                                                                         *)
(* A caller's program counter names the code it is about to run.  A call to *)
(* a device (recorder, whisper, clipboard) is one step at the moment it     *)
(* takes effect, with every outcome the caller can see.  Transcripts are    *)
(* identified by the take they were made from.                              *)
(***************************************************************************)
EXTENDS Recorder

CONSTANTS
    Caller,           \* goroutines that call the service
    NoCaller,         \* "operation" is empty
    EnablePaste       \* clipboard.enablePaste

ASSUME NoCallerAssumption == NoCaller \notin Caller
ASSUME EnablePasteAssumption == EnablePaste \in BOOLEAN

VARIABLES
    op,               \* the caller whose token is in the operation channel
    current,          \* state.current
    lastTranscript,   \* state.lastTranscript, 0: ""
    retryEligible,    \* state.retryEligible
    pc, cmd,          \* where each caller is, and in which method
    cancelled,        \* the caller's ctx is done
    ahead,            \* callers queued on the channel before this one
    text,             \* the local variable transcript
    res,              \* the result the method is going to return
    clip,             \* SystemClipboard.lastText
    typed             \* what the focused application received last

serviceVars == <<op, current, lastTranscript, retryEligible>>
callVars == <<pc, cmd, cancelled, ahead, text, res>>
pasteVars == <<clip, typed>>
vars == <<serviceVars, callVars, pasteVars, recVars>>

State == {"idle", "recording", "processing"}
Method == {"start", "stop", "toggle", "retry"}

\* Program points inside the operation, that is, between the acquisition of
\* the channel and its release.
Inside == {"toggle", "start", "open", "stop", "close", "transcribe", "retry",
           "copy", "paste", "remove", "idle", "release"}
Point == {"out", "enter", "queued"} \cup Inside

Result == {"none", "ok", "busy", "ctx", "already", "notRecording", "invalid",
           "noTranscript", "recorder", "transcription", "copy", "paste"}

ServiceTypeOK ==
    /\ op \in Caller \cup {NoCaller}
    /\ current \in State
    /\ lastTranscript \in Take
    /\ retryEligible \in BOOLEAN

CallTypeOK ==
    /\ pc \in [Caller -> Point]
    /\ cmd \in [Caller -> Method]
    /\ cancelled \in [Caller -> BOOLEAN]
    /\ ahead \in [Caller -> SUBSET Caller]
    /\ text \in [Caller -> Take]
    /\ res \in [Caller -> Result]

PasteTypeOK == clip \in Take /\ typed \in Take

TypeOK == RecTypeOK /\ ServiceTypeOK /\ CallTypeOK /\ PasteTypeOK

Init ==
    /\ RecInit
    /\ op = NoCaller
    /\ current = "idle"
    /\ lastTranscript = 0
    /\ retryEligible = FALSE
    /\ pc = [c \in Caller |-> "out"]
    /\ cmd = [c \in Caller |-> "start"]
    /\ cancelled = [c \in Caller |-> FALSE]
    /\ ahead = [c \in Caller |-> {}]
    /\ text = [c \in Caller |-> 0]
    /\ res = [c \in Caller |-> "none"]
    /\ clip = 0
    /\ typed = 0

Goto(c, point) == pc' = [pc EXCEPT ![c] = point]
Become(c, r) == res' = [res EXCEPT ![c] = r]

\* The locals of a call are gone once it has returned.
Forget(c) ==
    /\ cmd' = [cmd EXCEPT ![c] = "start"]
    /\ cancelled' = [cancelled EXCEPT ![c] = FALSE]
    /\ text' = [text EXCEPT ![c] = 0]
    /\ Become(c, "none")

Queued == {c \in Caller : pc[c] = "queued"}

(***************************************************************************)
(* A caller outside the service calls one of its methods.  The context may  *)
(* be done already, and may become done at any time: the root context is    *)
(* cancelled by a signal, the shutdown context by its timeout.              *)
(***************************************************************************)
Call(c, m) ==
    /\ pc[c] = "out"
    /\ Goto(c, "enter")
    /\ cmd' = [cmd EXCEPT ![c] = m]
    /\ \E done \in BOOLEAN : cancelled' = [cancelled EXCEPT ![c] = done]
    /\ UNCHANGED <<serviceVars, pasteVars, recVars, ahead, text, res>>

Cancel(c) ==
    /\ pc[c] # "out"
    /\ ~cancelled[c]
    /\ cancelled' = [cancelled EXCEPT ![c] = TRUE]
    /\ UNCHANGED <<serviceVars, pasteVars, recVars, pc, cmd, ahead, text, res>>

-----------------------------------------------------------------------------
(* The operation channel.                                                  *)

\* The look at the context and the select are one step: a context that ends
\* between the two might as well end right after them.  The point after the
\* acquisition is named like the method.
Acquire(c) ==
    /\ pc[c] = "enter"
    /\ ~cancelled[c]
    /\ op = NoCaller
    /\ op' = c
    /\ Goto(c, cmd[c])
    /\ UNCHANGED <<current, lastTranscript, retryEligible, pasteVars, recVars,
                   cmd, cancelled, ahead, text, res>>

\* The method returns without the operation: ctx.Err(), or ErrBusy.
Refuse(c) ==
    /\ pc[c] = "enter"
    /\ cancelled[c] \/ (cmd[c] # "stop" /\ op # NoCaller)
    /\ Goto(c, "out")
    /\ Forget(c)
    /\ UNCHANGED <<serviceVars, pasteVars, recVars, ahead>>

\* A stop blocks in the send; blocked senders are served in arrival order.
Enqueue(c) ==
    /\ pc[c] = "enter"
    /\ ~cancelled[c]
    /\ cmd[c] = "stop" /\ op # NoCaller
    /\ Goto(c, "queued")
    /\ ahead' = [ahead EXCEPT ![c] = Queued]
    /\ UNCHANGED <<serviceVars, pasteVars, recVars, cmd, cancelled, text, res>>

Dequeued(c) == [d \in Caller |-> IF d = c THEN {} ELSE ahead[d] \ {c}]

\* Mutant: the release is deferred before the acquisition is checked.
LeaveQueueReleasing(c) ==
    /\ pc[c] = "queued"
    /\ cancelled[c]
    /\ Goto(c, "out")
    /\ ahead' = Dequeued(c)
    /\ Forget(c)
    /\ op' = NoCaller
    /\ UNCHANGED <<current, lastTranscript, retryEligible, pasteVars, recVars>>

LeaveQueue(c) ==
    /\ pc[c] = "queued"
    /\ cancelled[c]
    /\ Goto(c, "out")
    /\ ahead' = Dequeued(c)
    /\ Forget(c)
    /\ UNCHANGED <<serviceVars, pasteVars, recVars>>

(***************************************************************************)
(* The receive of releaseOperation takes the token out; when senders are    *)
(* blocked the runtime puts the first one's token in at the same moment, so *)
(* a waiting stop is never overtaken by a start that comes later.           *)
(***************************************************************************)
\* Mutant: the release forgets that senders are waiting.
ReleaseForgettingWaiters(c) ==
    /\ op' = NoCaller
    /\ Goto(c, "out")
    /\ UNCHANGED ahead

ReleaseToNobody(c) ==
    /\ Queued = {}
    /\ op' = NoCaller
    /\ Goto(c, "out")
    /\ UNCHANGED ahead

\* Mutant: the last waiter is served first.
ReleaseToLast(c) ==
    \E w \in Queued :
        /\ \A v \in Queued : w \notin ahead[v]
        /\ op' = w
        /\ pc' = [pc EXCEPT ![c] = "out", ![w] = "stop"]
        /\ ahead' = Dequeued(w)

ReleaseToFirst(c) ==
    \E w \in Queued :
        /\ ahead[w] = {}
        /\ op' = w
        /\ pc' = [pc EXCEPT ![c] = "out", ![w] = "stop"]
        /\ ahead' = Dequeued(w)

Release(c) ==
    /\ pc[c] = "release"
    /\ ReleaseToNobody(c) \/ ReleaseToFirst(c)
    /\ Forget(c)
    /\ UNCHANGED <<current, lastTranscript, retryEligible, pasteVars, recVars>>

-----------------------------------------------------------------------------
(* Steps inside the operation.  A step of the service leaves the channel    *)
(* and the queue alone.                                                    *)

InsideUnchanged == UNCHANGED <<op, cmd, cancelled, ahead>>

\* The method is about to return r; "point" is its first deferred call.
Leave(c, r, point) == Goto(c, point) /\ Become(c, r)

\* ToggleRecording reads the state and becomes a start or a stop.
ToggleRecording(c) ==
    /\ pc[c] = "toggle"
    /\ IF current = "processing"
       THEN Leave(c, "busy", "release")
       ELSE Goto(c, IF current = "idle" THEN "start" ELSE "stop") /\ UNCHANGED res
    /\ InsideUnchanged
    /\ UNCHANGED <<current, lastTranscript, retryEligible, pasteVars, recVars, text>>

-----------------------------------------------------------------------------
(* startRecording                                                          *)

StartRecording(c) ==
    /\ pc[c] = "start"
    /\ \/ /\ current = "idle" /\ current' = "recording"
          /\ Goto(c, "open") /\ UNCHANGED res
       \/ /\ current # "idle" /\ UNCHANGED current
          /\ Leave(c, IF current = "recording" THEN "already" ELSE "busy", "release")
    /\ InsideUnchanged
    /\ UNCHANGED <<lastTranscript, retryEligible, pasteVars, recVars, text>>

\* Mutant: a failed start does not set the state back to idle.
OpenStayingRecording(c) ==
    /\ pc[c] = "open"
    /\ \/ ~cancelled[c] /\ RecorderStarted /\ Leave(c, "ok", "release")
       \/ RecorderStartFailed /\ Leave(c, "recorder", "release")
    /\ InsideUnchanged
    /\ UNCHANGED <<current, lastTranscript, retryEligible, pasteVars, text>>

Open(c) ==
    /\ pc[c] = "open"
    /\ \/ ~cancelled[c] /\ RecorderStarted /\ Leave(c, "ok", "release")
       \/ RecorderStartFailed /\ Leave(c, "recorder", "idle")
    /\ InsideUnchanged
    /\ UNCHANGED <<current, lastTranscript, retryEligible, pasteVars, text>>

-----------------------------------------------------------------------------
(* stopRecordingAndProcess                                                 *)

StopRecording(c) ==
    /\ pc[c] = "stop"
    /\ \/ /\ current = "recording" /\ current' = "processing"
          /\ Goto(c, "close") /\ UNCHANGED res
       \/ /\ current # "recording" /\ UNCHANGED current
          /\ Leave(c, IF current = "idle" THEN "notRecording" ELSE "busy", "release")
    /\ InsideUnchanged
    /\ UNCHANGED <<lastTranscript, retryEligible, pasteVars, recVars, text>>

\* Mutant: setState(StateIdle) is deferred only after recorder.Stop succeeded.
CloseStayingProcessing(c) ==
    /\ pc[c] = "close"
    /\ \E frames \in BOOLEAN :
          \/ RecorderStopped(frames) /\ Goto(c, "transcribe") /\ UNCHANGED res
          \/ RecorderStopFailed(frames) /\ Leave(c, "recorder", "release")
    /\ InsideUnchanged
    /\ UNCHANGED <<current, lastTranscript, retryEligible, pasteVars, text>>

\* When recorder.Stop fails the removal of the file is not deferred yet.
Close(c) ==
    /\ pc[c] = "close"
    /\ \E frames \in BOOLEAN :
          \/ RecorderStopped(frames) /\ Goto(c, "transcribe") /\ UNCHANGED res
          \/ RecorderStopFailed(frames) /\ Leave(c, "recorder", "idle")
    /\ InsideUnchanged
    /\ UNCHANGED <<current, lastTranscript, retryEligible, pasteVars, text>>

\* Whisper reads the file, and the transcript is kept for a retry.
Transcribed(c) ==
    /\ pc[c] = "transcribe"
    /\ ~cancelled[c] /\ wav # 0
    /\ text' = [text EXCEPT ![c] = wav]
    /\ lastTranscript' = wav
    /\ retryEligible' = TRUE
    /\ Goto(c, "copy")
    /\ InsideUnchanged
    /\ UNCHANGED <<current, pasteVars, recVars, res>>

\* Mutant: a failed transcription keeps the transcript of the one before.
TranscriptionFailedKeeping(c) ==
    /\ pc[c] = "transcribe"
    /\ Leave(c, "transcription", "remove")
    /\ InsideUnchanged
    /\ UNCHANGED <<current, lastTranscript, retryEligible, pasteVars, recVars, text>>

\* A failed, cancelled, timed-out or empty transcription forgets the last
\* transcript.
TranscriptionFailed(c) ==
    /\ pc[c] = "transcribe"
    /\ lastTranscript' = 0
    /\ retryEligible' = FALSE
    /\ Leave(c, "transcription", "remove")
    /\ InsideUnchanged
    /\ UNCHANGED <<current, pasteVars, recVars, text>>

-----------------------------------------------------------------------------
(* RetryLastPaste                                                          *)

\* Mutant: a retry does not look at the state.
RetryRefusalAnyState ==
    IF retryEligible /\ lastTranscript # 0 THEN "none" ELSE "noTranscript"

RetryRefusal ==
    IF current = "processing" THEN "busy"
    ELSE IF current # "idle" THEN "invalid"
    ELSE IF retryEligible /\ lastTranscript # 0 THEN "none" ELSE "noTranscript"

RetryLastPaste(c) ==
    /\ pc[c] = "retry"
    /\ \/ /\ RetryRefusal # "none" /\ UNCHANGED text
          /\ Leave(c, RetryRefusal, "release")
       \/ /\ RetryRefusal = "none" /\ text' = [text EXCEPT ![c] = lastTranscript]
          /\ Goto(c, "copy") /\ UNCHANGED res
    /\ InsideUnchanged
    /\ UNCHANGED <<current, lastTranscript, retryEligible, pasteVars, recVars>>

-----------------------------------------------------------------------------
(* Copy and Paste, used by a stop and by a retry.  A stop has the removal   *)
(* of its file deferred, a retry has only the release.                     *)

AfterPaste(c) == IF cmd[c] = "retry" THEN "release" ELSE "remove"

\* Copy remembers the text unless the context is done on entry, and may
\* still fail afterwards.
Copied(c) ==
    /\ pc[c] = "copy"
    /\ ~cancelled[c]
    /\ clip' = text[c]
    /\ \/ Goto(c, "paste") /\ UNCHANGED res
       \/ Leave(c, "copy", AfterPaste(c))
    /\ InsideUnchanged
    /\ UNCHANGED <<current, lastTranscript, retryEligible, recVars, text, typed>>

\* Mutant: the error of Copy is dropped and Paste is tried anyway.
CopyErrorDropped(c) ==
    /\ pc[c] = "copy"
    /\ cancelled[c]
    /\ Goto(c, "paste")
    /\ InsideUnchanged
    /\ UNCHANGED <<serviceVars, pasteVars, recVars, text, res>>

CopyCancelled(c) ==
    /\ pc[c] = "copy"
    /\ cancelled[c]
    /\ Leave(c, "copy", AfterPaste(c))
    /\ InsideUnchanged
    /\ UNCHANGED <<serviceVars, pasteVars, recVars, text>>

Pasted(c) ==
    /\ pc[c] = "paste"
    /\ ~cancelled[c]
    /\ clip # 0
    /\ typed' = IF EnablePaste THEN clip ELSE typed
    /\ Leave(c, "ok", AfterPaste(c))
    /\ InsideUnchanged
    /\ UNCHANGED <<current, lastTranscript, retryEligible, recVars, text, clip>>

\* The command failed or timed out, before or after it typed.
PasteFailed(c) ==
    /\ pc[c] = "paste"
    /\ typed' \in (IF EnablePaste THEN {clip, typed} ELSE {typed})
    /\ Leave(c, "paste", AfterPaste(c))
    /\ InsideUnchanged
    /\ UNCHANGED <<current, lastTranscript, retryEligible, recVars, text, clip>>

-----------------------------------------------------------------------------
(* Deferred calls, innermost first.                                        *)

\* A removal that fails is logged and the file stays.
RemoveRecording(c) ==
    /\ pc[c] = "remove"
    /\ RecordingRemoved \/ UNCHANGED recVars
    /\ Goto(c, "idle")
    /\ InsideUnchanged
    /\ UNCHANGED <<current, lastTranscript, retryEligible, pasteVars, text, res>>

\* Mutant: the state is reset to its zero value instead of idle.
SetZeroState(c) ==
    /\ pc[c] = "idle"
    /\ current' = ""
    /\ Goto(c, "release")
    /\ InsideUnchanged
    /\ UNCHANGED <<lastTranscript, retryEligible, pasteVars, recVars, text, res>>

SetIdle(c) ==
    /\ pc[c] = "idle"
    /\ current' = "idle"
    /\ Goto(c, "release")
    /\ InsideUnchanged
    /\ UNCHANGED <<lastTranscript, retryEligible, pasteVars, recVars, text, res>>

-----------------------------------------------------------------------------
Step(c) ==
    \/ Acquire(c) \/ Refuse(c) \/ Enqueue(c) \/ LeaveQueue(c) \/ Release(c)
    \/ ToggleRecording(c)
    \/ StartRecording(c) \/ Open(c)
    \/ StopRecording(c) \/ Close(c) \/ Transcribed(c) \/ TranscriptionFailed(c)
    \/ RetryLastPaste(c)
    \/ Copied(c) \/ CopyCancelled(c) \/ Pasted(c) \/ PasteFailed(c)
    \/ RemoveRecording(c) \/ SetIdle(c)

Next == \E c \in Caller : (\E m \in Method : Call(c, m)) \/ Cancel(c) \/ Step(c)

Spec == Init /\ [][Next]_vars

\* Two calls to a device may never return.  While the context of a start lives,
\* the recorder waits for pw-dump without a timeout (camera_wake.go 37-38).  A
\* Copy is held for as long as xclip's background process keeps the pipes of
\* CombinedOutput, past its timeout and past its context (clipboard.go 281-298).
MayHang(c) == pc[c] = "copy" \/ (pc[c] = "open" /\ ~cancelled[c])

\* Every goroutine is scheduled, and the other device calls return: whisper and
\* the commands that type run under a timeout and leave no child with their
\* pipes, the recorder stops under stopTimeout, and a Start whose context ends
\* kills pw-dump.  Nothing makes a user call a method.
FairSpec == Spec /\ \A c \in Caller : WF_vars(~MayHang(c) /\ Step(c))
-----------------------------------------------------------------------------
(* Safety.                                                                 *)

\* The channel admits one caller: whoever is inside is the one whose token
\* is in it, on every path in, out, and through the queue.
OperationExclusive == \A c \in Caller : (pc[c] \in Inside) <=> (op = c)

\* No lost wakeup: while a stop waits, somebody is inside to let it in.
NoLostWakeup == Queued # {} => op # NoCaller

\* Between operations the reported state is that of the microphone: it is
\* open exactly while "recording", and nothing is left "processing".
StateMatchesDevice ==
    op = NoCaller => /\ current # "processing"
                     /\ capturing <=> (current = "recording")

\* What a caller is about to paste is the text it copied, the one kept for a
\* retry, and, for a stop, the text of the recording it just closed.
PastesOwnTranscript ==
    \A c \in Caller : pc[c] = "paste" =>
        /\ clip = text[c] /\ text[c] = lastTranscript
        /\ cmd[c] # "retry" => text[c] = take

\* A result says what happened, over all the steps of the method: success
\* means the microphone is open, or closed and the text typed; a failed copy
\* or paste leaves the text for a retry, a failed transcription leaves none.
ResultIsTruthful ==
    \A c \in Caller : pc[c] = "release" =>
        /\ res[c] = "ok" /\ text[c] = 0 => capturing /\ current = "recording"
        /\ res[c] = "ok" /\ text[c] # 0 =>
              ~capturing /\ current = "idle" /\ (EnablePaste => typed = text[c])
        /\ res[c] \in {"copy", "paste"} => retryEligible /\ lastTranscript = text[c]
        /\ res[c] = "transcription" => ~retryEligible /\ current = "idle"
        /\ res[c] = "recorder" => ~capturing /\ current = "idle"

\* The ErrBusy branches of the state switches are unreachable: a caller that
\* is let in never finds the session "processing".
NeverBusyInside == \A c \in Caller : res[c] # "busy"

\* retryEligible and the transcript are set and cleared together.
RetryNeedsTranscript == retryEligible <=> lastTranscript # 0

(***************************************************************************)
(* The inductive invariant behind the invariants above.  The channel  *)
(* makes the caller inside the only writer, so it is enough to say, point   *)
(* by point, what that caller knows of the state, the microphone, the file  *)
(* and the text in its hands.                                              *)
(***************************************************************************)
AtRest == current # "processing" /\ (capturing <=> current = "recording")

StateAt(c) ==
    /\ pc[c] \in {"toggle", "start", "stop", "retry", "release"} => AtRest
    /\ pc[c] = "open" => current = "recording" /\ ~capturing
    /\ pc[c] = "close" => current = "processing" /\ capturing
    /\ pc[c] \in {"transcribe", "remove"} => current = "processing" /\ ~capturing
    /\ pc[c] \in {"copy", "paste"} =>
          ~capturing /\ current = IF cmd[c] = "retry" THEN "idle" ELSE "processing"
    /\ pc[c] = "idle" => current # "idle" /\ ~capturing

TextAt(c) ==
    /\ pc[c] = "transcribe" => wav = take
    /\ pc[c] \notin {"copy", "paste", "remove", "idle", "release"} => text[c] = 0
    /\ pc[c] \in {"copy", "paste"} =>
          /\ text[c] # 0 /\ text[c] = lastTranscript
          /\ cmd[c] # "retry" => text[c] = take
    /\ pc[c] = "paste" => clip = text[c]

ResultAt(c) ==
    /\ res[c] # "busy"
    /\ pc[c] \in {"remove", "idle", "release"} =>
        /\ res[c] = "ok" /\ text[c] = 0 => pc[c] = "release" /\ current = "recording"
        /\ res[c] = "ok" /\ text[c] # 0 => (EnablePaste => typed = text[c])
        /\ res[c] \in {"copy", "paste"} => text[c] # 0 /\ lastTranscript = text[c]
        /\ res[c] = "transcription" => lastTranscript = 0
        /\ pc[c] = "release" /\ (text[c] # 0 \/ res[c] \in {"transcription", "recorder"}) =>
              current = "idle"

\* Only a retry skips the deferred calls of a stop.
MethodAt(c) ==
    /\ pc[c] = "queued" => cmd[c] = "stop"
    /\ pc[c] = "retry" => cmd[c] = "retry"
    /\ pc[c] \in {"toggle", "start", "stop", "open", "close", "transcribe",
                  "remove", "idle"} => cmd[c] # "retry"

PointAt(c) == StateAt(c) /\ TextAt(c) /\ ResultAt(c) /\ MethodAt(c)

PointInv == \A c \in Caller : PointAt(c)

\* The file of an earlier recording is gone while a new one is made.
FreshFile == capturing => wav = 0

IInv ==
    /\ OperationExclusive
    /\ NoLostWakeup
    /\ StateMatchesDevice
    /\ RetryNeedsTranscript
    /\ FreshFile
    /\ PointInv

(***************************************************************************)
(* Action properties.                                                      *)
(***************************************************************************)

\* The state becomes idle only when the microphone is closed, and processing
\* only when it is open; no other transition exists.
StateFollowsDevice ==
    [][current' # current =>
          \/ current = "idle" /\ current' = "recording" /\ ~capturing
          \/ current = "recording" /\ current' = "processing" /\ capturing
          \/ current # "idle" /\ current' = "idle" /\ ~capturing]_vars

\* Nothing reaches the clipboard or the focused window while the microphone
\* is open, and a transcript never changes under a caller that pastes it.
NothingTypedWhileRecording ==
    [][<<clip, typed>>' # <<clip, typed>> =>
          ~capturing /\ lastTranscript' = lastTranscript]_vars

(***************************************************************************)
(* Liveness, under FairSpec.                                               *)
(***************************************************************************)

\* A device holds the caller, or the one that this stop waits for.
HeldUp(c) ==
    \/ MayHang(c)
    \/ pc[c] = "queued" /\ ~cancelled[c] /\ op # NoCaller /\ MayHang(op)

\* Every call returns, although callers wait for one another and never stop
\* calling, unless a device holds it for ever, or unless it is a stop that waits
\* behind such a call.  A device that hangs so keeps nobody else: starts, toggles
\* and retries are refused, a stop leaves the queue when its context ends, and
\* while no device hangs every waiting stop gets its turn (service.go 237-265).
CallsReturn == \A c \in Caller : []<>(pc[c] = "out") \/ <>[]HeldUp(c)

(***************************************************************************)
(* The session implements Dictation.                                       *)
(***************************************************************************)
phase == IF capturing THEN "listening"
         ELSE IF current = "processing" THEN "working" ELSE "quiet"

Abstract == INSTANCE Dictation WITH kept <- lastTranscript

ImplementsDictation == Abstract!Spec
=============================================================================

------------------------------- MODULE Daemon --------------------------------
(***************************************************************************)
(* internal/app and internal/bootstrap: the process that puts the trigger,  *)
(* the session and the external control together.  One goroutine, Main,     *)
(* starts everything, handles the trigger events one by one and shuts       *)
(* everything down; the handlers of the control server call the session     *)
(* beside it.  Every context but the one of the shutdown descends from the  *)
(* root context, which a signal ends.                                       *)
(***************************************************************************)
EXTENDS Session, Sequences

CONSTANTS
    Main,                 \* the goroutine of Daemon.Run
    ControlEnabled,       \* ExternalControl.Enabled
    MaxSignals,           \* bound: 0 or 1 signal to end the process
    Modes, SourceCap, EventCap, MaxPresses        \* of Trigger

ASSUME MainAssumption == Main \in Caller
ASSUME ControlEnabledAssumption == ControlEnabled \in BOOLEAN
ASSUME MaxSignalsAssumption == MaxSignals \in {0, 1}
ASSUME TriggerAssumption ==
    /\ Modes \subseteq {"hold", "toggle"}
    /\ SourceCap \in Nat \ {0} /\ EventCap \in Nat \ {0} /\ MaxPresses \in Nat

VARIABLES
    mode, keyIsDown, downs, ups, stamped, windowOpen, quick, source, held, raw,
    ctxDone, watcher, lastPress, toggleActive, pendingToggle, timer, outgoing,
    log, received         \* of Trigger; ctxDone is the end of the root context

T == INSTANCE Trigger

VARIABLES
    main,                 \* where Daemon.Run is
    triggerStarted,
    controlStarted,
    shutdownOver,         \* the context of the shutdown has timed out
    failed                \* history: the last dictation of the loop that was
                          \* not pasted, and the event that ended it

runVars == <<main, triggerStarted, controlStarted, shutdownOver>>
triggerVars == <<mode, keyIsDown, downs, ups, stamped, windowOpen, quick, source, held, raw,
                 ctxDone, watcher, lastPress, toggleActive, pendingToggle, timer,
                 outgoing, log, received>>
sessionVars == vars
allVars == <<sessionVars, triggerVars, runVars, failed>>

Handler == Caller \ {Main}

Shutdown == {"status", "stopSession", "stopTrigger", "stopWatcher", "stopControl"}
MainPoint == {"startTrigger", "startControl", "loop", "returned", "failed", "panicked"}
             \cup Shutdown

RunTypeOK ==
    /\ main \in MainPoint
    /\ triggerStarted \in BOOLEAN /\ controlStarted \in BOOLEAN
    /\ shutdownOver \in BOOLEAN
    /\ failed \in [id : 0..MaxPresses, take : Take]

DaemonTypeOK == TypeOK /\ T!TypeOK /\ RunTypeOK

RunInit ==
    /\ Init
    /\ T!Init
    /\ main = "startTrigger"
    /\ triggerStarted = FALSE /\ controlStarted = FALSE /\ shutdownOver = FALSE
    /\ failed = [id |-> 0, take |-> 0]

-----------------------------------------------------------------------------
(* Start.                                                                  *)

\* The hotkey is registered, or the desktop refuses it (Wayland has no X11
\* hotkeys).
StartTrigger ==
    /\ main = "startTrigger"
    /\ main' = "startControl"
    /\ triggerStarted' \in BOOLEAN
    /\ UNCHANGED <<sessionVars, triggerVars, controlStarted, shutdownOver, failed>>

\* d.controlServer == nil.  bootstrap.New passes a *control.Server variable,
\* so the interface holds a type even when the pointer is nil.
ControlServerIsNil == FALSE

\* With one of the two the daemon goes on.  Start of a nil server locks a
\* mutex of no server.
StartControl ==
    /\ main = "startControl"
    /\ \/ /\ ControlServerIsNil \/ ControlEnabled
          /\ controlStarted' \in (IF ControlServerIsNil THEN {FALSE} ELSE BOOLEAN)
          /\ main' = IF triggerStarted \/ controlStarted' THEN "loop" ELSE "failed"
       \/ /\ ~ControlServerIsNil /\ ~ControlEnabled
          /\ main' = "panicked" /\ UNCHANGED controlStarted
    /\ UNCHANGED <<sessionVars, triggerVars, triggerStarted, shutdownOver, failed>>

-----------------------------------------------------------------------------
(* The event loop.                                                         *)

MethodOf(event) ==
    CASE event.kind = "press" -> "start"
      [] event.kind = "release" -> "stop"
      [] event.kind = "doubleTap" -> "retry"

\* The loop waits at its select.
AtSelect == main = "loop" /\ pc[Main] = "out"

HandleEvent ==
    /\ AtSelect /\ triggerStarted
    /\ T!Receive
    /\ Call(Main, MethodOf(log[received + 1]))
    /\ cancelled'[Main] = ctxDone
    /\ UNCHANGED <<runVars, failed>>

LeaveLoop ==
    /\ AtSelect /\ ctxDone
    /\ main' = "status"
    /\ UNCHANGED <<sessionVars, triggerVars, triggerStarted, controlStarted, shutdownOver, failed>>

-----------------------------------------------------------------------------
(* The deferred shutdown, under a context of its own.                      *)

\* Mutant: the shutdown runs under the context whose end began it.
ShutdownSessionUnderRoot ==
    /\ main = "status"
    /\ \/ /\ current = "recording" /\ main' = "stopSession"
          /\ Call(Main, "stop") /\ cancelled'[Main] = ctxDone
       \/ /\ current # "recording" /\ main' = "stopTrigger" /\ UNCHANGED sessionVars
    /\ UNCHANGED <<triggerVars, triggerStarted, controlStarted, shutdownOver, failed>>

ShutdownSession ==
    /\ main = "status"
    /\ \/ /\ current = "recording" /\ main' = "stopSession"
          /\ Call(Main, "stop") /\ cancelled'[Main] = shutdownOver
       \/ /\ current # "recording" /\ main' = "stopTrigger" /\ UNCHANGED sessionVars
    /\ UNCHANGED <<triggerVars, triggerStarted, controlStarted, shutdownOver, failed>>

SessionShutDown ==
    /\ main = "stopSession" /\ pc[Main] = "out"
    /\ main' = "stopTrigger"
    /\ UNCHANGED <<sessionVars, triggerVars, triggerStarted, controlStarted, shutdownOver, failed>>

\* TriggerWatcher.Stop waits for the source and, unless the hotkey cannot be
\* unregistered, for the watcher.
StopSource ==
    /\ main = "stopTrigger"
    /\ \/ triggerStarted /\ source = "done" /\ main' \in {"stopWatcher", "stopControl"}
       \/ (~triggerStarted \/ shutdownOver) /\ main' = "stopControl"
    /\ UNCHANGED <<sessionVars, triggerVars, triggerStarted, controlStarted, shutdownOver, failed>>

StopWatcher ==
    /\ main = "stopWatcher"
    /\ watcher = "done" \/ shutdownOver
    /\ main' = "stopControl"
    /\ UNCHANGED <<sessionVars, triggerVars, triggerStarted, controlStarted, shutdownOver, failed>>

\* Server.Stop waits for its handlers.
StopControl ==
    /\ main = "stopControl"
    /\ ~controlStarted \/ shutdownOver \/ \A h \in Handler : pc[h] = "out"
    /\ main' = "returned"
    /\ UNCHANGED <<sessionVars, triggerVars, triggerStarted, controlStarted, shutdownOver, failed>>

-----------------------------------------------------------------------------
(* The others.                                                             *)

\* A handler of the control server is about to call the session.  The server
\* accepts nothing after the end of its context; a request it accepted before
\* may still be on its way, which "enter" stands for.
Request(h, m) ==
    /\ controlStarted /\ main \notin {"startControl", "failed", "panicked"}
    /\ ~ctxDone
    /\ Call(h, m)
    /\ ~cancelled'[h]
    /\ UNCHANGED <<triggerVars, runVars, failed>>

\* A step inside the session; handlers go on until the process has exited.
\* A stop of the loop that returns with its text
\* not pasted is remembered.
SessionStep(c) ==
    /\ Step(c)
    /\ failed' = IF c = Main /\ main = "loop" /\ cmd[c] = "stop"
                    /\ pc[c] = "release" /\ res[c] \in {"copy", "paste"}
                 THEN [id |-> log[received].id, take |-> text[c]]
                 ELSE failed
    /\ UNCHANGED <<triggerVars, runVars>>

\* Mutant: the loop handles its events under a context that no signal ends.
SignalSparingMain ==
    /\ MaxSignals = 1 /\ main \notin {"startTrigger", "startControl"}
    /\ T!EndContext
    /\ cancelled' = [c \in Caller |-> pc[c] # "out" /\ c # Main]
    /\ UNCHANGED <<serviceVars, pc, cmd, ahead, text, res, pasteVars, recVars,
                   runVars, failed>>

\* SIGINT or SIGTERM: every context that descends from the root is done.
Signal ==
    /\ MaxSignals = 1 /\ main \notin {"startTrigger", "startControl"}
    /\ T!EndContext
    /\ cancelled' = [c \in Caller |-> pc[c] # "out"]
    /\ UNCHANGED <<serviceVars, pc, cmd, ahead, text, res, pasteVars, recVars,
                   runVars, failed>>

ShutdownTimeout ==
    /\ main \in Shutdown /\ ~shutdownOver
    /\ shutdownOver' = TRUE
    /\ cancelled' = [cancelled EXCEPT ![Main] = pc[Main] # "out"]
    /\ UNCHANGED <<serviceVars, pc, cmd, ahead, text, res, pasteVars, recVars,
                   triggerVars, main, triggerStarted, controlStarted, failed>>

TriggerStep ==
    /\ triggerStarted /\ main \notin {"startControl", "returned", "failed", "panicked"}
    /\ T!Key \/ T!WindowEnds \/ T!Source \/ T!Watcher
    /\ UNCHANGED <<sessionVars, runVars, failed>>

MainStep ==
    \/ StartTrigger \/ StartControl
    \/ HandleEvent \/ LeaveLoop
    \/ ShutdownSession \/ SessionShutDown \/ StopSource \/ StopWatcher \/ StopControl
    \/ SessionStep(Main)

RunNext ==
    \/ MainStep
    \/ \E h \in Handler : SessionStep(h) \/ \E m \in Method : Request(h, m)
    \/ Signal \/ ShutdownTimeout
    \/ TriggerStep

RunSpec == RunInit /\ [][RunNext]_allVars

\* The goroutine of Run runs on, and the timeout of the shutdown passes.  A
\* device may hold it where Session!MayHang says; the others, handlers and
\* trigger, need not do anything.
FairRunSpec ==
    /\ RunSpec
    /\ WF_allVars(~MayHang(Main) /\ MainStep)
    /\ WF_allVars(ShutdownTimeout)

-----------------------------------------------------------------------------
(* Properties.                                                             *)

\* When Run returns, and the shutdown had time enough, the microphone is
\* closed and no request is half done, although requests arrive beside the
\* shutdown: one that slips past the check of the state cannot open the
\* microphone under a context that has ended (app.go 63-84, service.go
\* 237-261).
SettledOnReturn ==
    main = "returned" /\ ~shutdownOver =>
        /\ ~capturing /\ current = "idle" /\ op = NoCaller
        /\ \A c \in Caller : pc[c] = "out"

\* Once the loop has handled a release, the microphone is closed, whatever
\* failed on the way and however the events before it piled up, unless a
\* signal has ended the context of the stop; no request of the external
\* control opens it again here (app.go 127-138).
ReleaseClosesMicrophone ==
    Handler = {} /\ AtSelect /\ ~ctxDone
        /\ received > 0 /\ log[received].kind = "release"
    => ~capturing

\* A double tap right after a dictation that could not be pasted pastes that
\* text again (app.go 133-134, trigger.go 222-234, 255-265).
DoubleTapRetriesPaste ==
    cmd[Main] = "retry" /\ pc[Main] \in {"copy", "release"}
        /\ failed.take # 0 /\ log[received].id = failed.id + 2
    => text[Main] = failed.take

\* Without external control the daemon runs with the trigger only
\* (app.go 152-155).
RunsWithoutControl == main # "panicked"

\* After a signal Run returns, wherever it was when the signal came: at its
\* select, in a call of the loop that waits for the camera, or in the queue of a
\* stop whose turn never comes because a device holds a handler.  Only a copy
\* that holds Run itself keeps it, which no signal and no timeout ends (app.go
\* 63-123, clipboard.go 292).
SignalEndsRun ==
    \/ <>[](ctxDone => main \in {"returned", "failed", "panicked"})
    \/ <>[](pc[Main] = "copy")
=============================================================================

------------------------------- MODULE Trigger -------------------------------
(***************************************************************************)
(* internal/modules/trigger and the hotkey source that feeds it.  A press   *)
(* of the key travels from the hotkey library through the source goroutine, *)
(* which stamps it, to the watcher goroutine, which turns the stream of     *)
(* presses into press, release and double-tap events for the daemon.        *)
(*                                                                         *)
(* Time enters only through the double-tap window: "quick" holds the        *)
(* presses stamped within the window of the press before them.  Presses are *)
(* numbered from 1 in the order in which they are stamped, and whatever     *)
(* travels down the pipeline carries the number of presses it completes.    *)
(***************************************************************************)
EXTENDS Naturals, Sequences, SequencesExt

CONSTANTS
    Modes,            \* the trigger modes to look at: "hold", "toggle"
    SourceCap,        \* capacity of the source channel (8 in the code)
    EventCap,         \* capacity of the watcher channel (8 in the code)
    MaxPresses        \* bound: how often the key is pressed

ASSUME ModesAssumption == Modes \subseteq {"hold", "toggle"}
ASSUME CapAssumption == SourceCap \in Nat \ {0} /\ EventCap \in Nat \ {0}
ASSUME MaxPressesAssumption == MaxPresses \in Nat

VARIABLES
    mode,             \* w.mode, fixed by NewWatcher
    keyIsDown,        \* the physical key
    downs, ups,       \* waiting in the library's Keydown and Keyup channels
    stamped,          \* number of the last press the source stamped
    windowOpen,       \* less than the window has passed since that press
    quick,            \* the presses stamped while the window was open
    source,           \* "select" (waiting), "emit" (sending), "done"
    held,             \* what the source is sending
    raw,              \* the source channel
    ctxDone,          \* the context of the watcher and of its source is done
    watcher,          \* "select", "emit", "done"
    lastPress,        \* lastPressAt, in hold mode
    toggleActive,
    pendingToggle,    \* the press held back for a double tap, 0: none
    timer,            \* toggleTimerC is not nil
    outgoing,         \* events the current handler still has to send
    log,              \* history: every event sent on the watcher channel
    received          \* how many of them the daemon has taken

keyVars == <<mode, keyIsDown, downs, ups>>
stampVars == <<stamped, windowOpen, quick>>
sourceVars == <<source, held>>
localVars == <<lastPress, toggleActive, pendingToggle, timer>>
watcherVars == <<watcher, localVars, outgoing>>
outVars == <<log, received>>
vars == <<keyVars, stampVars, sourceVars, raw, ctxDone, watcherVars, outVars>>

Press == 1..MaxPresses
RawEvent == [kind : {"down", "up"}, id : 0..MaxPresses]
Event == [kind : {"press", "release", "doubleTap"}, id : 0..MaxPresses]
Occurred(kind, press) == [kind |-> kind, id |-> press]

\* The watcher channel: what was sent and not yet taken.
Events == Len(log) - received

TypeOK ==
    /\ mode \in Modes
    /\ keyIsDown \in BOOLEAN /\ downs \in 0..MaxPresses /\ ups \in 0..MaxPresses
    /\ stamped \in 0..MaxPresses /\ windowOpen \in BOOLEAN /\ quick \subseteq Press
    /\ source \in {"select", "emit", "done"}
    /\ held \in Seq(RawEvent) /\ Len(held) <= 1
    /\ raw \in Seq(RawEvent) /\ Len(raw) <= SourceCap
    /\ ctxDone \in BOOLEAN
    /\ watcher \in {"select", "emit", "done"}
    /\ lastPress \in 0..MaxPresses /\ pendingToggle \in 0..MaxPresses
    /\ toggleActive \in BOOLEAN /\ timer \in BOOLEAN
    /\ outgoing \in Seq(Event) /\ Len(outgoing) <= 2
    /\ log \in Seq(Event) /\ received \in 0..Len(log) /\ Events <= EventCap

Init ==
    /\ mode \in Modes
    /\ keyIsDown = FALSE /\ downs = 0 /\ ups = 0
    /\ stamped = 0 /\ windowOpen = FALSE /\ quick = {}
    /\ source = "select" /\ held = <<>> /\ raw = <<>> /\ ctxDone = FALSE
    /\ watcher = "select" /\ outgoing = <<>>
    /\ lastPress = 0 /\ toggleActive = FALSE /\ pendingToggle = 0 /\ timer = FALSE
    /\ log = <<>> /\ received = 0

-----------------------------------------------------------------------------
(* The key and the hotkey library, whose two channels have no bound and no *)
(* order between them.                                                     *)

KeyDown ==
    /\ ~keyIsDown /\ stamped + downs < MaxPresses
    /\ keyIsDown' = TRUE /\ downs' = downs + 1
    /\ UNCHANGED <<mode, ups, stampVars, sourceVars, raw, ctxDone, watcherVars, outVars>>

KeyUp ==
    /\ keyIsDown
    /\ keyIsDown' = FALSE /\ ups' = ups + 1
    /\ UNCHANGED <<mode, downs, stampVars, sourceVars, raw, ctxDone, watcherVars, outVars>>

\* The double-tap window after the last stamped press runs out.
WindowEnds ==
    /\ windowOpen
    /\ windowOpen' = FALSE
    /\ UNCHANGED <<keyVars, stamped, quick, sourceVars, raw, ctxDone, watcherVars, outVars>>

-----------------------------------------------------------------------------
(* HotkeySource.run: the select takes from either channel when both have    *)
(* something, and stamps the event with the time at which it took it.  An   *)
(* event taken after the end of the context is dropped with the goroutine,  *)
(* which SourceExits stands for.                                            *)

SourcePress ==
    /\ source = "select" /\ ~ctxDone /\ downs > 0
    /\ downs' = downs - 1
    /\ stamped' = stamped + 1 /\ windowOpen' = TRUE
    /\ quick' = IF windowOpen THEN quick \cup {stamped + 1} ELSE quick
    /\ source' = "emit" /\ held' = <<Occurred("down", stamped + 1)>>
    /\ UNCHANGED <<mode, keyIsDown, ups, raw, ctxDone, watcherVars, outVars>>

SourceRelease ==
    /\ source = "select" /\ ~ctxDone /\ ups > 0
    /\ ups' = ups - 1
    /\ source' = "emit" /\ held' = <<Occurred("up", stamped)>>
    /\ UNCHANGED <<mode, keyIsDown, downs, stampVars, raw, ctxDone, watcherVars, outVars>>

\* Mutant: the source does not wait for room in the channel.
SourceEmitPastCapacity ==
    /\ source = "emit"
    /\ raw' = raw \o held
    /\ source' = "select" /\ held' = <<>>
    /\ UNCHANGED <<keyVars, stampVars, ctxDone, watcherVars, outVars>>

\* emitSourceEvent
SourceEmit ==
    /\ source = "emit" /\ Len(raw) < SourceCap
    /\ raw' = raw \o held
    /\ source' = "select" /\ held' = <<>>
    /\ UNCHANGED <<keyVars, stampVars, ctxDone, watcherVars, outVars>>

SourceExits ==
    /\ source # "done" /\ ctxDone
    /\ source' = "done" /\ held' = <<>>
    /\ UNCHANGED <<keyVars, stampVars, raw, ctxDone, watcherVars, outVars>>

-----------------------------------------------------------------------------
(* TriggerWatcher.run.  A handler changes the goroutine's own variables and *)
(* then sends its events one by one.                                       *)

Send(batch) == outgoing' = batch /\ watcher' = IF batch = <<>> THEN "select" ELSE "emit"

\* Mutant: the window is not compared.
IsDoubleTapWheneverPressed(last, press) == last # 0

\* isDoubleTap.  The last press is always the one before this one, so that
\* "quick" tells how far the two are apart.
IsDoubleTap(last, press) == last # 0 /\ press \in quick

\* Mutant: a double tap of the hold mode is not sent.
HoldPressSwallowed(press) ==
    /\ mode = "hold"
    /\ lastPress' = press
    /\ Send(IF IsDoubleTap(lastPress, press) THEN <<>> ELSE <<Occurred("press", press)>>)
    /\ UNCHANGED <<toggleActive, pendingToggle, timer>>

HoldPress(press) ==
    /\ mode = "hold"
    /\ lastPress' = press
    /\ Send(<<Occurred(IF IsDoubleTap(lastPress, press) THEN "doubleTap" ELSE "press", press)>>)
    /\ UNCHANGED <<toggleActive, pendingToggle, timer>>

\* The press that ends what the last "press" event began.
ToggleOff(press) ==
    /\ mode = "toggle" /\ toggleActive
    /\ toggleActive' = FALSE
    /\ Send(<<Occurred("release", press)>>)
    /\ UNCHANGED <<lastPress, pendingToggle, timer>>

\* Mutant: a double tap leaves its first press pending.
ToggleDoubleTapKeepingPending(press) ==
    /\ mode = "toggle" /\ ~toggleActive
    /\ pendingToggle # 0 /\ IsDoubleTap(pendingToggle, press)
    /\ Send(<<Occurred("doubleTap", press)>>)
    /\ UNCHANGED <<lastPress, toggleActive, pendingToggle, timer>>

ToggleDoubleTap(press) ==
    /\ mode = "toggle" /\ ~toggleActive
    /\ pendingToggle # 0 /\ IsDoubleTap(pendingToggle, press)
    /\ pendingToggle' = 0 /\ timer' = FALSE
    /\ Send(<<Occurred("doubleTap", press)>>)
    /\ UNCHANGED <<lastPress, toggleActive>>

\* Mutant: toggleActive stays set after the late flush.
ToggleLatePressStayingActive(press) ==
    /\ mode = "toggle" /\ ~toggleActive
    /\ pendingToggle # 0 /\ ~IsDoubleTap(pendingToggle, press)
    /\ pendingToggle' = 0 /\ timer' = FALSE /\ toggleActive' = TRUE
    /\ Send(<<Occurred("press", pendingToggle), Occurred("release", press)>>)
    /\ UNCHANGED lastPress

\* The window was over but its timer was not served yet: the press that was
\* held back goes out first, and this one ends it at once.
ToggleLatePress(press) ==
    /\ mode = "toggle" /\ ~toggleActive
    /\ pendingToggle # 0 /\ ~IsDoubleTap(pendingToggle, press)
    /\ pendingToggle' = 0 /\ timer' = FALSE /\ toggleActive' = FALSE
    /\ Send(<<Occurred("press", pendingToggle), Occurred("release", press)>>)
    /\ UNCHANGED lastPress

\* Mutant: the press goes out at once, and is held back as well.
ToggleHoldBackAnnounced(press) ==
    /\ mode = "toggle" /\ ~toggleActive
    /\ pendingToggle = 0
    /\ pendingToggle' = press /\ timer' = TRUE
    /\ Send(<<Occurred("press", press)>>)
    /\ UNCHANGED <<lastPress, toggleActive>>

\* Mutant: the timer is not started.
ToggleHoldBackForever(press) ==
    /\ mode = "toggle" /\ ~toggleActive
    /\ pendingToggle = 0
    /\ pendingToggle' = press
    /\ Send(<<>>)
    /\ UNCHANGED <<lastPress, toggleActive, timer>>

ToggleHoldBack(press) ==
    /\ mode = "toggle" /\ ~toggleActive
    /\ pendingToggle = 0
    /\ pendingToggle' = press /\ timer' = TRUE
    /\ Send(<<>>)
    /\ UNCHANGED <<lastPress, toggleActive>>

WatcherPress ==
    /\ watcher = "select" /\ raw # <<>> /\ Head(raw).kind = "down"
    /\ raw' = Tail(raw)
    /\ LET press == Head(raw).id IN
          \/ HoldPress(press)
          \/ ToggleOff(press)
          \/ ToggleDoubleTap(press)
          \/ ToggleLatePress(press)
          \/ ToggleHoldBack(press)
    /\ UNCHANGED <<keyVars, stampVars, sourceVars, ctxDone, outVars>>

\* Toggle mode ignores the release of the key.
WatcherRelease ==
    /\ watcher = "select" /\ raw # <<>> /\ Head(raw).kind = "up"
    /\ raw' = Tail(raw)
    /\ Send(IF mode = "hold" THEN <<Occurred("release", Head(raw).id)>> ELSE <<>>)
    /\ UNCHANGED <<keyVars, stampVars, sourceVars, ctxDone, localVars, outVars>>

\* flushTogglePress.  The timer was set when the watcher handled the press,
\* so it cannot fire before the window of that press is over.
TimerFires ==
    /\ watcher = "select" /\ timer
    /\ stamped = pendingToggle => ~windowOpen
    /\ pendingToggle' = 0 /\ timer' = FALSE /\ toggleActive' = TRUE
    /\ Send(<<Occurred("press", pendingToggle)>>)
    /\ UNCHANGED <<keyVars, stampVars, sourceVars, raw, ctxDone, lastPress, outVars>>

\* Mutant: emit does not wait for room in the channel.
EmitPastCapacity ==
    /\ watcher = "emit"
    /\ log' = Append(log, Head(outgoing))
    /\ Send(Tail(outgoing))
    /\ UNCHANGED <<keyVars, stampVars, sourceVars, raw, ctxDone, localVars, received>>

\* emit: send, or give up when the context is done.
Emit ==
    /\ watcher = "emit" /\ Events < EventCap
    /\ log' = Append(log, Head(outgoing))
    /\ Send(Tail(outgoing))
    /\ UNCHANGED <<keyVars, stampVars, sourceVars, raw, ctxDone, localVars, received>>

\* Mutant: emit does not look at the context.
WatcherExitsFromSelect ==
    /\ watcher = "select" /\ ctxDone
    /\ watcher' = "done" /\ outgoing' = <<>>
    /\ UNCHANGED <<keyVars, stampVars, sourceVars, raw, ctxDone, localVars, outVars>>

WatcherExits ==
    /\ watcher # "done" /\ ctxDone
    /\ watcher' = "done" /\ outgoing' = <<>>
    /\ UNCHANGED <<keyVars, stampVars, sourceVars, raw, ctxDone, localVars, outVars>>

-----------------------------------------------------------------------------
\* The root context ends, or Stop cancels the watcher and with it the source.
EndContext ==
    /\ ~ctxDone
    /\ ctxDone' = TRUE
    /\ UNCHANGED <<keyVars, stampVars, sourceVars, raw, watcherVars, outVars>>

\* The event loop of the daemon takes an event.
Receive ==
    /\ Events > 0
    /\ received' = received + 1
    /\ UNCHANGED <<keyVars, stampVars, sourceVars, raw, ctxDone, watcherVars, log>>

Key == KeyDown \/ KeyUp
Source == SourcePress \/ SourceRelease \/ SourceEmit \/ SourceExits
Watcher == WatcherPress \/ WatcherRelease \/ TimerFires \/ Emit \/ WatcherExits

Next == Key \/ WindowEnds \/ Source \/ Watcher \/ EndContext \/ Receive

Spec == Init /\ [][Next]_vars

(***************************************************************************)
(* Time passes, both goroutines run, and the event loop comes back to its   *)
(* channel, as long as no device holds it for ever (Session!MayHang); after *)
(* the end of the context the loop takes no more events.  Nothing is        *)
(* assumed of the user.                                                     *)
(***************************************************************************)
Fairness ==
    /\ WF_vars(WindowEnds) /\ WF_vars(Source) /\ WF_vars(Watcher)
    /\ WF_vars(Receive /\ ~ctxDone)

FairSpec == Spec /\ Fairness

-----------------------------------------------------------------------------
(* Properties.                                                             *)

\* What the watcher has decided, sent or about to be sent.
Decided == log \o outgoing

\* How many presses an event answers.
Answers(event) ==
    CASE event.kind = "up" \/ (event.kind = "release" /\ mode = "hold") -> 0
      [] event.kind = "doubleTap" /\ mode = "toggle" -> 2
      [] OTHER -> 1

\* Everything between the daemon and the key, the oldest first.
Pipeline ==
    Decided \o (IF pendingToggle = 0 THEN <<>> ELSE <<Occurred("down", pendingToggle)>>)
            \o raw \o held

\* Each entry answers the presses right after those of the entry before it.
Consecutive(seq) ==
    \A i \in 1..Len(seq) :
        seq[i].id = (IF i = 1 THEN 0 ELSE seq[i-1].id) + Answers(seq[i])

\* However presses, timers, slow receivers and the double-tap window
\* interleave, every press is answered once, in order: none is lost between
\* the source and the daemon, counted twice, or overtaken by a later one
\* (trigger.go 188-290, hotkey_x11.go 126-163).
EveryPressCounts ==
    /\ Consecutive(log)
    /\ source # "done" /\ watcher # "done" =>
          /\ Consecutive(Pipeline)
          /\ stamped = IF Pipeline = <<>> THEN 0 ELSE Last(Pipeline).id

\* In toggle mode the events alternate, press and release, beginning with a
\* press, and a double tap comes only between a release and the next press,
\* whatever the timer decides.  This is about the watcher's events: after a start
\* that failed, or a stop through the control socket, the session no longer
\* agrees with toggleActive, and the next event is a release all the same
\* (trigger.go 209-253).
ToggleAlternates ==
    mode = "toggle" =>
        \A i \in 1..Len(Decided) :
            Decided[i].kind = "release" <=> i > 1 /\ Decided[i-1].kind = "press"

\* A double tap is reported for two presses within the window and for no
\* others.  In hold mode every such pair is reported; in toggle mode the
\* second press may also end a recording that the timer has just begun
\* (isDoubleTap, trigger.go 301-307, and its three callers).
DoubleTapIsQuick ==
    \A i \in 1..Len(Decided) :
        /\ Decided[i].kind = "doubleTap" => Decided[i].id \in quick
        /\ mode = "hold" /\ Decided[i].kind = "press" => Decided[i].id \notin quick

\* A press held back for a double tap does not wait for another press: the
\* timer or a later press decides it (trigger.go 173-195, 249-252).
HeldBackIsDecided == pendingToggle # 0 /\ ~ctxDone ~> pendingToggle = 0 \/ ctxDone

\* Every stamped press reaches the daemon, whatever the user does afterwards
\* and however full the channels are.
PressReachesDaemon ==
    \A n \in Press :
        stamped = n ~> ctxDone \/ \E i \in 1..received : log[i].id >= n

\* Both goroutines end after Stop or the end of the root context, even with
\* both channels full and nobody receiving (trigger.go 292-299).
StopUnblocks == ctxDone ~> watcher = "done" /\ source = "done"
=============================================================================

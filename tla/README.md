# A verification development for sttd

`sttd` is a speech-to-text daemon: a global hotkey or a client of its control
socket starts and stops a recording, whisper transcribes it, and the text is
copied and typed into the focused window. This directory models the daemon in
TLA+, checks the models with TLC and proves their safety with TLAPS.
Paths below are relative to the root of the repository (`src/` there).

## 1. Inventory

| Part | State | Operations | Talks to |
|---|---|---|---|
| `internal/modules/session` | state (idle, recording, processing), last transcript, retry flag, the `operation` channel | `StartRecording`, `StopRecordingAndProcess`, `ToggleRecording`, `RetryLastPaste`, `Status` | recorder, transcriber, clipboard |
| `internal/platform/linux/audio_pwrecord.go`, `camera_wake.go` | operation lock, recording flag, its two processes, path of the one file | `Start`, `Stop` | `pw-record`, `mpv` |
| `internal/platform/darwin/audio.go` | samples so far, recording flag | `Start`, `Stop` | miniaudio |
| `internal/modules/trigger` | toggle state, held-back press and its timer, event channel | `Start`, `Stop`, the goroutine `run` | hotkey source, daemon |
| `internal/platform/*/hotkey*` | registered key, source channel | `Start`, `Stop`, the goroutine `run` | hotkey library, trigger |
| `internal/app`, `internal/bootstrap`, `cmd/sttd` | what was started | `Run`: start, event loop, shutdown | all of the above |
| `internal/modules/control` | listener, connections, slots, wait group, socket path | `Start`, `Stop`, accept loop, handlers | session, `sttdctl` |
| `internal/modules/transcribe` | none | `TranscribeFile` | `whisper-cli` |
| `internal/modules/clipboard` | last text | `Copy`, `Paste` | clipboard and typing tools |
| `internal/admin` | the environment file, the model files | read, apply, download, restart | systemd, `sttdctl` |
| `internal/config` | none; `WriteEnvFile` replaces the environment file | load, validate, resolve the platform | everything |
| `scripts/` | the installation directories | install, roll back, uninstall, change model | admin, systemd |

What is hard here:

* **Concurrency.** The event loop, up to 16 control handlers and the shutdown
  call the session at once. The hotkey source, the watcher, its timer and the
  loop form a pipeline of bounded channels. The control server's accept loop,
  its context watcher, its handlers and `Stop` share connections and slots.
* **Failure.** Every device call may fail or time out after it took effect, and
  the deferred calls must restore state, file and channel in the right order.
* **Stale data.** All recordings share one file name; the retry keeps a
  transcript; `Paste` types what the clipboard object remembers.
* **Processes.** `pw-record`, `mpv`, whisper and the clipboard tools may exit,
  hang or die at any moment, and are killed by contexts that end on their own.
  Two waits have no bound of their own: `pactl` and `pw-dump` while a start looks
  for the camera (only the root context ends them), and an `xclip` that keeps
  the pipes of its command (nothing ends it but another program's copy).
* **A shared file.** Any number of `sttdctl` processes read, rewrite and restore
  the environment file with which systemd starts the daemon.
* **Ending.** A signal ends every context but the one of the shutdown, at any
  moment of the above.

What makes each part correct, in a sentence: the session does one thing at a
time, its state is that of the microphone, and the text it types is the text of
the recording it closed; the watcher answers every press once and in order; the
server never loses a slot or a handler; the daemon leaves nothing running; the
recorder hands over the file of the process it stopped and leaves no process
behind; the window never gets an old text; the environment file names a good
model, and the daemon runs what it says.

## 2. The modules

| Module | Models | Notes |
|---|---|---|
| `Recorder` | contract of `audio.Recorder` | file and recording flag; extended by `Session` |
| `Session` | `session/service.go` | one action per step of a method, per caller |
| `Dictation` | nothing in the code: the abstract specification | what the user is promised |
| `Trigger` | `trigger.go`, `hotkey_x11.go` (and its copy in `darwin/`) | source, watcher, channels, window |
| `Daemon` | `app.go`, `bootstrap.go`, `main.go` | `Trigger` and `Session` composed with start, loop and shutdown |
| `PWRecord` | `audio_pwrecord.go` | the recorder of Linux with its processes; implements `Recorder` |
| `Delivery` | `transcribe.go`, `clipboard.go` | from the audio file to the window, as the session calls them |
| `Settings` | `admin/`, `config/`, `sttdctl config apply` | concurrent applies on the environment file, and the daemon started with it |
| `Control` | `control/server.go` | server side of the socket; the session is one step |
| `SessionProofs`, `TriggerProofs`, `DaemonProofs`, `PWRecordProofs`, `ControlProofs`, `DeliveryProofs`, `SettingsProofs` | | TLAPS proofs about the module each is named after; section 4 |
| `MCSettings` | | the module of `Settings` for TLC, with symmetry and its sets of inputs; the other modules are checked directly |

### Session and Recorder

A caller has a program counter, its method, its context and its locals. The
`operation` channel is `op`: the caller whose token it holds. Callers blocked in
the send form a queue (`ahead`), because a Go channel hands over to its waiting
senders in arrival order; that is what makes a stop overtake later starts.
`Acquire`, `Refuse`, `Enqueue`, `LeaveQueue` and `Release` are the two acquire
functions and the release. The rest is one action per call to a device and per
state change, deferred calls included (`RemoveRecording`, `SetIdle`, `Release`
run in the order in which Go runs them). A device call is one step with every
outcome its caller can see: a failed `Open` may or may not have removed the old
file, a failed `Close` may have left the new one, a failed `Copy` or `Paste` may
have copied or typed. A transcript is identified by the take it was made from,
so "the right text" can be said. A daemon that died earlier may have left its
file: `RecInit` starts with it.

`Dictation` says what a user sees: listen, hand over, transcribe, type, with at
most one of them at a time, and nothing typed that was not transcribed. Mapping:
`kept` is `lastTranscript`, `phase` comes from the recorder and the state. The
one thing `Dictation` allows that a user would not expect is `Misfire`: a start
that fails may have opened the microphone, and left a file, before it gave up.

### PWRecord

`operation`, `recording`, `process` and `wakeProcess` are the fields of
`PWRecordRecorder`; a process is named by the take it was started for. `capture`
and `wake` are the processes themselves, which write, exit and die on their own
(`ProcessWrites`, `CaptureExits`, `WakeExits`), are killed by the root context
under which they were started (`KillByContext`), and need not exit when killed.
Start and Stop are one action per call, wait and assignment; `mine` and `held`
are the local variables `proc` and `wakeProc`, and `stop_wake` is the deferred
`stopCameraWake`. A file holds no frame, frames behind an incomplete header, or
a usable recording, which is what `recordingLooksUsable` tells apart.

`ImplementsRecorder` is the refinement of the contract that `Session` extends: a
Start or Stop takes effect when it returns, the file counts when it is usable
and nothing is being recorded. It is what made the contract say that a failed
start may leave the file of a new take.

### Delivery

One caller, because the session lets one in at a time. `Validate`,
`WhisperSpeaks` and `WhisperFails` are `TranscribeFile`; `CopyStarts` and
`PasteStarts` choose a command from the desktop and the tools found at that
moment (`CopyCommand`, `PasteCommand`), run it, and it succeeds, fails before or
after it took effect, or is killed at its timeout. Other programs copy and tools
come and go at any time. The point `owned` is an `xclip` whose background
process keeps the pipes of `CombinedOutput`: whether it does is up to `xclip`
(finding 4).

### Settings

Each element of `Applies` is one `ApplyDaemonConfig`: two reads of the file,
verification or download of the model, `Wanted` and `Updates` (the decision, in
the order of the code), the backup, the third read inside `WriteEnvFile`, the
rename, the restart and the restore, which truncates before it writes. A rename
gives the file a new inode, so `opened` holds the applies whose open file is
still the one with the name. A process may be killed between any two steps, and
systemd may start the daemon at any time; `loaded` is the file it was last
started with, which it may refuse (`Refuses`). `GetDaemonConfig` and
`ControlEnabled` are the two readings of one file, by `sttdctl` and by the
daemon. `alone` and `disturbed` are history: nobody else wrote the file
meanwhile; some restart failed or some apply was killed.

### Trigger

The key and the library's two unordered channels feed `SourcePress` and
`SourceRelease`, which stamp; `SourceEmit` sends. The watcher's handlers change
its variables and fill `outgoing`; `Emit` sends one event at a time, so a full
channel stops it between the two events of a late press. Time is only the
double-tap window: `quick` holds the presses stamped within it, `WindowEnds`
closes it, and the timer cannot fire while the window of its own press is open.
`log` is a history of all events, `received` the place of the daemon in it.

### Daemon

`Main` is the goroutine of `Daemon.Run`. It extends `Session` and instantiates
`Trigger`, so an event travels from the key to the microphone. Control handlers
are the other callers; what the server does around them is in `Control`.
`ctxDone` is the root context: `Signal` ends it and cancels every call that
descends from it, while the calls of the shutdown run under a context that only
`ShutdownTimeout` ends.

### Control

Three goroutines and the caller of `Stop` over listener, connections, slots and
wait group. A connection goes from the backlog through the accept loop to its
handler and through the handler's deferred calls, each a step.

## 3. Runs

| Run | Shows | Bounds |
|---|---|---|
| `session` | type, six invariants, two action properties, refinement; every call returns unless a device holds it, or holds the caller a stop waits for | 3 callers, 2 takes |
| `trigger` | every press counts, press/release alternate, double taps are quick, held-back presses are decided, presses arrive, goroutines end | both modes, 3 presses, channels of 1 |
| `control` | accounts agree, nobody left reading, clean stop, `Stop` returns, handlers end | 2 clients, 1 slot |
| `daemon` | the microphone is closed when `Run` returns, and it returns after a signal unless a copy holds it | 1 handler, 1 press and its release, 1 take |
| `daemon_toggle` | the double tap after a failed paste retries it; a handled release closes the microphone | no handler, 4 presses, 2 takes |
| `recording` | fields are set and cleared together, no recording of another take, nothing runs on, only the search for the camera can hold a call, refinement of `Recorder` | 2 callers, 2 takes |
| `delivery` | the window never gets an old text; only `xclip` keeps a delivery for ever | 2 dictations, 1 change of the tools |
| `settings` | the file names a good model, the daemon runs the file, a failed apply restores it | 2 applies, 7 inputs, 4 files |
| `delivery_without_paste` | finding 3 below | 1 dictation |
| `delivery_held_by_xclip` | finding 4 below | 1 dictation |
| `daemon_hold_double_tap` | finding 2 below | 3 presses, 2 takes |
| `daemon_no_control` | finding 1 below | 1 press |

Why the bounds are enough to meet the interesting cases. Three callers: one
inside, one waiting, one that barges in or waits behind. Two takes: the stale
file of an earlier daemon and the recording that replaces it, or two recordings.
Three presses in toggle
mode: a late second press or a double tap, and what follows it (four where a
dictation comes before the double tap). Channels of one slot instead of eight:
both senders block after fewer presses. One client more than there are slots.
Two takes of the recorder: the file and process of one against the next, or a
file left by an earlier daemon. Two dictations: a text and the one before it. One
change of the tools: between the copy and the paste. Two applies: every order of
two writers; `MCInputs` has one that needs a download, one that fails at once,
one without a runtime directory, and pairs that contradict each other in the
switch, the socket and the model.
In `daemon` a press and its release make the loop start, stop and wait in the
queue beside one handler, so that the signal finds `Run` at every point of a
call; that a second handler changes nothing for `SettledOnReturn` is proved
(`ReturnsSettled`). `MaxTakes`, `MaxPresses` and `MaxSignals` are bounds of
the models only, as are `MaxTexts` and `MaxToolChanges`; the theorems hold for
all their values.

### Fairness

Fairness is split by what the code guarantees, and the waits it does not bound
get none. Where something may hang, the property says what that can hold up.

* `Session!FairSpec` and `Daemon!FairRunSpec` except `MayHang`: a start in the
  recorder while its context lives, because `pactl` and `pw-dump` run without a
  timeout (`camera_wake.go:37-38`), and a copy at any time, because `xclip` may
  keep the pipes of `CombinedOutput` past timeout and signal
  (`clipboard.go:281-298`). The other device calls are taken to return: whisper
  and the commands that type are killed at their timeouts and leave no child
  behind, `Stop` of the recorder gives up after `stopTimeout`, and a `pw-dump` that
  was killed with its context dies. `CallsReturn` then says that a device that
  hangs keeps only the caller it holds and the stops that wait behind it under a
  context that lives.
* `Daemon!FairRunSpec` asks for the steps of `Run` itself and for the timeout of
  the shutdown, which is a timer (`app.go:64`). Handlers and trigger may stop for
  ever. `SignalEndsRun` has one exception left, a copy that holds `Run` itself,
  before the signal or in the stop of the shutdown.
* `PWRecord!FairSpec` assumes that the goroutine of a call runs on and that timers
  fire. No process is assumed to write, to exit or to die, except a `pactl` or
  `pw-dump` that was killed: `ResolveVideo` is fair only when a device is
  configured, so that no command is run, or when the context has ended.
* `Delivery!FairSpec` assumes that timers fire and that an owner of the clipboard
  exits when another program copies; whisper and the tools may hang.
* `Trigger!FairSpec` assumes that time passes, that both goroutines run and that
  the loop returns to its channel until the context ends. The last is an
  assumption: a device that holds the loop for ever holds the presses as well.
* `Control!FairSpec` assumes nothing of clients, deadlines or timeouts; only
  `HandlersEnd` names the passing of deadlines as its own hypothesis. It assumes
  that a request inside the session returns, which is a limit of this model: no
  deadline of the connection ends one that a device holds. `Stop` would then
  give up when its context ends (`StopTimesOut`, which `Run` sees as
  `ShutdownTimeout`).
* `Settings` has no liveness property: an apply is a sequence of steps without a
  wait of its own.

No user action is ever assumed.

### Findings

1. *Nil control server* (`bootstrap.go:69`, `app.go:153`). With external control
   disabled, which is what `.env.linux.example` sets, `bootstrap.New` passes a
   nil `*control.Server` in an interface; the nil guard in `startControlServer`
   does not hold and `Start` panics on the nil receiver.
2. *Double tap in hold mode* (`trigger.go:255-274`). The first tap is reported as
   a press at once, so by the time the double tap is handled the daemon has
   started and possibly processed a new dictation. The text whose paste failed
   is not pasted again, contrary to `TestDaemon_Run_DoubleTap_RetriesPaste`. The
   shortest counterexample uses the two unordered hotkey channels; with the
   releases in order the new dictation replaces or clears the text instead.
3. *Skipped copy* (`clipboard.go:97`). On X11 without `xclip` but with `xdotool`,
   `Copy` succeeds without copying because the text can be typed; with
   `STTD_CLIPBOARD_ENABLE_PASTE=false` nothing types it either. The dictation
   ends without an error and the text is nowhere.
4. *A copy past its timeout* (`clipboard.go:292`). `README.md:538-540` says of
   `STTD_CLIPBOARD_TIMEOUT` that it "prevents clipboard integration failures from
   keeping a session in `processing`". `runCommand` keeps `wl-copy` away from the
   pipes of `CombinedOutput`, because its background process would make the caller
   wait until the clipboard is replaced, but runs `xclip`, which leaves such a
   process too, through them. The timeout kills a command that has exited
   already, and the session stays in `processing` until another program copies.
   Whether `xclip` closes its pipes is outside the repository; the model takes it
   that it may not. `OnlyXclipHolds` shows that the promise is kept for everything
   else, and `SignalEndsRun` that the end of the daemon is held up by it too.

Observed while modelling, without a sentence in the repository that says
otherwise: a `pw-dump` that hangs keeps a start, and with it the session, until
the daemon ends; concurrent applies can lose or undo each other's changes; a restore
that is interrupted leaves the environment file empty; an apply that is killed
before its restart leaves a daemon with the old settings, which the same apply
will not restart; with external control disabled a relative socket path is
written, which the daemon then refuses; `sttdctl` reads a missing
`STTD_EXTERNAL_CONTROL_ENABLED` as false where the daemon takes the default of
its profile; a restart counts as successful as soon as the process is started
(`Type=simple`), so a file that the daemon refuses is not restored; a model file
that is empty is an error, not a reason to download it. The models contain all
of these behaviours, and the properties say what holds in spite of them.

## 4. Proofs

Every safety property of the runs, that is, each type invariant, invariant,
action property and refinement, is proved for all values of the constants. What
the proofs assume is what the modules name as `ASSUME`: bounds are natural
numbers, capacities positive, `NoCaller` is not a caller, modes are the two
modes, and so on. Sets of callers and applies may be infinite, connections are
finitely many because they are counted.

Each proof has the same shape. `IInv` is the inductive invariant, a conjunction
of named parts; a lemma per part, or per action, is the induction step;
`Invariance` combines them, and the other theorems follow from it. TLC checked
each `IInv` on an instance before it was proved.

**Session.** None of the invariants is inductive alone: that a failed paste
leaves a transcript, say, depends on what the caller knew three steps earlier.
`IInv` therefore says, program point by program point, what the caller inside the
operation knows of the state, the microphone, the file and the text in its hands
(`StateAt`, `TextAt`, `ResultAt`, `MethodAt`). It is manageable because the
caller inside is the only writer: `OperationExclusive` is a conjunct of `IInv`,
lemma `InsideSteps` collects the steps inside the operation and lemma
`InsideFrame` shows once that they leave every other caller alone.
`AbstractSteps` maps each step to one of `Dictation` or to none.

**Trigger.** What travels from the key to the daemon forms one row: the events
sent, those decided on, the press that is held back, the source channel and what
the source is sending. `Chain` says that each entry of a row answers the presses
after those of the entry before it, `End` where a row ends, and `Chained` that
each part of the pipeline goes on where the part before it ends; `ChainConcat`
lets every action cut the row at another place. That no press is lost, doubled or
overtaken (`EveryPressCounts`) is then a statement about the ends of the row. The
sequences have any length, so none of this depends on the capacity of a channel.
`Alternating` relates `toggleActive` to the last event decided on, `TapsRight` and
`Stamped` the double taps to the presses stamped within the window. `Chained` has
to give up on the row when the watcher or the source has ended, for what is in
their hands is lost then; the events sent remain a chain.

**Daemon.** A step of the daemon is a step of the session or the end of contexts
(`SessionMoves`), and a step of the trigger or none (`TriggerMoves`). So the two
inductive invariants carry over, by the induction steps of their own modules, and
so do the theorems of the trigger (`TriggerInside`) and the refinement of
`Dictation` (`DaemonDictates`): whatever comes from the key, from the clients and
from signals, dictations follow one another and only the text of the last one is
typed. What `RunIInv` adds is what the goroutine of `Run` may rely on: which
points a call of each method passes (`Paths`), that Main is in the call for the
event it took last (`MainCalls`), and whose context has ended (`Contexts`). For
`SettledOnReturn` the step that matters is the check of the state in the shutdown:
a request that has slipped past it may still be about to open the microphone, but
its context has ended, and a stop that already has the microphone closes it
(`Settling`). For `DoubleTapRetriesPaste` the row of events gives that exactly one
event, the double tap, lies between the failed dictation and the retry
(`IdsGrow`), and `Kept` that the text is there all the while. It is proved where
it is true: in toggle mode (finding 2 is about hold mode) and without control
handlers, who may dictate in between.

**PWRecord.** The caller inside the lock is the only one that writes the fields,
but not the only one that moves: processes write, exit, die and are killed by
contexts at any step. `IInv` says which process the caller has in its hands at
each point (`ProcessAt`), what it is going to return (`ResultAt`), and that every
process that runs is in a field or in the hands of a call that will stop it
(`Accounted`). Without the last part `NothingRunsOn`, which speaks of the moments
between calls only, is not inductive. `Refinement` shows that a Start or a Stop
is a step of the contract `Recorder` at the moment it returns, which is the
contract `Session` is built on.

**Control.** `AccountsAgree` counts handlers by where they are, so each step is a
connection that goes from one place to another; lemma `Counts` says once what
that does to a cardinality. `Accepting` (the loop holds at most one connection
that no handler has taken), `RunOver` and `Stopped` complete the invariant.

**Delivery.** `TextKept`, `TextCopied` and `TextTyped` say how far the text of
this delivery has come at each point, on each desktop; the exception in
`TextCopied` for X11 is the copy that is skipped because paste types the text.

**Settings.** `IInv` says that every file that is or may become the environment
file (the present one, the one in the temporary file, the backup) names a model
that is there (`FilesGood`); what an apply knows of the model it has looked at
(`ChoiceGood`); that an undisturbed service lags behind the file only while
somebody is about to restart it (`Calm`); and that whoever has the file to himself
still finds in it what he read (`AloneKnows`). A lemma on the apply that moves and
one on all the others (`OwnChoice` and `ChoiceFrame`, `OwnKnows` and `OthersKnow`,
all with `OthersUntouched`) make each induction step; `StoreKeeps`, that a good
model is never replaced by a bad one, is what lets the others stand still. It
assumes that the requests are requests and that the files at the beginning name
the model that is installed (`InputsAssumption`, `InstalledAssumption`).

Only model-checked: liveness (`CallsReturn` of the session and of the recorder,
`HeldBackIsDecided`, `PressReachesDaemon` and `StopUnblocks` of the trigger,
`StopReturns` and `HandlersEnd` of the server, `SignalEndsRun`, `OnlyXclipHolds`),
which rests on fairness and is out of the prover's reach, and of course the four
properties that do not hold.

## 5. Not modelled

* The recorder of macOS, which writes its file in `Stop` from samples collected
  by a callback: none of what makes `PWRecord` hard is there, and it would need
  a contract of its own (it does not remove the old file at `Start`). Likewise
  `FileRecorder`, which no profile selects.
* How the camera of a microphone is found: it reads the kernel's files and
  PipeWire's graph; `ResolveVideo` has its outcomes.
* The parsing of single settings and hotkey names, the lines of whisper's output
  and of the WAV header: each is one condition where the state depends on it.
  The limit on whisper's output is not in force (`cappedBuffer` embeds
  `bytes.Buffer`, whose `ReadFrom` bypasses it), so the model has none.
* Language and paste in `Settings`: changed like the other keys. Temporary files
  left behind by killed processes.
* The installation scripts: shell, run by one user one at a time, with no state
  shared with the daemon but the files of `Settings`.
* `Start` and `Stop` of trigger and source called again after an error: the
  program calls each once. A source that closes its channel: none does.
* Responses of the control server beyond whether they arrive, logging,
  notification (the only notifier does nothing).
* A second daemon on the same socket path: the service manager starts one.

## 6. Plan

The code that has state worth checking is modelled, and the safety properties of
the models are proved. What could follow:

1. Further theorems across modules: the invariants and action properties of the
   session for the daemon, whose signal ends many contexts in one step.
2. Safety properties that the proofs suggest and no run states yet, such as what
   of the row survives when the watcher ends.
3. The pure decisions (`Wanted`, `RetryRefusal`, the choice of the commands) as
   lemmas of their own.

------------------------------ MODULE Delivery ------------------------------
(***************************************************************************)
(* From the audio to the focused window: the WhisperRunner, and the Copy     *)
(* and Paste of SystemClipboard with the commands they choose, called in    *)
(* the order in which the session calls them.  The session lets one call in *)
(* at a time, so there is one caller here.                                 *)
(*                                                                         *)
(* A text is the number of the dictation it was made from, 0 is no text.     *)
(* The desktop is "darwin", "x11" (DISPLAY but no WAYLAND_DISPLAY) or        *)
(* "wayland" (any other Linux session).  A tool that exits without an error  *)
(* is taken to have done what it was called for.                           *)
(***************************************************************************)
EXTENDS Integers

CONSTANTS
    MaxTexts,          \* bound: dictations
    MaxToolChanges     \* bound: tools installed or removed meanwhile

ASSUME MaxTextsAssumption == MaxTexts \in Nat \ {0}
ASSUME MaxToolChangesAssumption == MaxToolChanges \in Nat

VARIABLES
    desktop, enablePaste,   \* the session of the desktop, the configuration
    tools, toolChanges,     \* what lookupPath finds, how often it has changed
    dictation,              \* number of the last dictation
    lastTranscript,         \* kept by the session for a retry
    lastText,               \* SystemClipboard.lastText
    clipboard,              \* of the desktop: a text or Foreign
    lost,                   \* another program has taken it since the copy
    typed,                  \* the last thing that reached the window
    pc, command, outcome    \* the call: point, command that runs, result

envVars  == <<desktop, enablePaste, tools, toolChanges>>
textVars == <<dictation, lastTranscript, lastText>>
deskVars == <<clipboard, lost, typed>>
vars     == <<envVars, textVars, deskVars, pc, command, outcome>>

Foreign == -1
Text == 0..MaxTexts
Tool == {"pbcopy", "osascript", "xclip", "wl-copy", "xdotool", "wtype"}
ToolsOf(d) == IF d = "darwin" THEN {"pbcopy", "osascript"} ELSE Tool \ {"pbcopy", "osascript"}

Init ==
    /\ desktop \in {"darwin", "x11", "wayland"} /\ enablePaste \in BOOLEAN
    /\ tools \in SUBSET ToolsOf(desktop) /\ toolChanges = 0
    /\ dictation = 0 /\ lastTranscript = 0 /\ lastText = 0
    /\ clipboard = Foreign /\ lost = FALSE /\ typed = 0
    /\ pc = "idle" /\ command = "none" /\ outcome = "none"

Finish(result) == pc' = "idle" /\ command' = "none" /\ outcome' = result

Goto(point) == pc' = point /\ command' = "none" /\ UNCHANGED outcome

Run(point, name) == pc' = point /\ command' = name /\ UNCHANGED outcome

-----------------------------------------------------------------------------
(* The desktop                                                             *)

OtherProgramCopies ==
    /\ clipboard # Foreign
    /\ clipboard' = Foreign /\ lost' = TRUE
    /\ UNCHANGED <<envVars, textVars, typed, pc, command, outcome>>

ToolChanges ==
    /\ toolChanges < MaxToolChanges /\ toolChanges' = toolChanges + 1
    /\ \E t \in ToolsOf(desktop) :
          tools' = IF t \in tools THEN tools \ {t} ELSE tools \cup {t}
    /\ UNCHANGED <<desktop, enablePaste, textVars, deskVars, pc, command, outcome>>

-----------------------------------------------------------------------------
(* TranscribeFile                                                          *)

Dictate ==
    /\ pc = "idle" /\ dictation < MaxTexts
    /\ dictation' = dictation + 1
    /\ pc' = "validate" /\ outcome' = "none" /\ UNCHANGED command
    /\ UNCHANGED <<envVars, lastTranscript, lastText, deskVars>>

Retry ==
    /\ pc = "idle" /\ lastTranscript # 0
    /\ pc' = "copy" /\ outcome' = "none" /\ UNCHANGED command
    /\ UNCHANGED <<envVars, textVars, deskVars>>

\* The session forgets the text before, and the call fails.
NoTranscript ==
    /\ lastTranscript' = 0 /\ Finish("failed")
    /\ UNCHANGED <<envVars, dictation, lastText, deskVars>>

\* The binary or the model is not there, or not a file, or not executable.
Validate ==
    /\ pc = "validate"
    /\ \/ NoTranscript
       \/ Run("whisper", "whisper") /\ UNCHANGED <<envVars, textVars, deskVars>>

\* Whisper has printed at least one timestamped segment with words in it.
WhisperSpeaks ==
    /\ pc = "whisper"
    /\ lastTranscript' = dictation /\ Goto("copy")
    /\ UNCHANGED <<envVars, dictation, lastText, deskVars>>

\* It fails, or it prints no such segment.
WhisperFails == pc = "whisper" /\ NoTranscript

-----------------------------------------------------------------------------
(* The choice of the commands.  The preferences of the profiles are those of *)
(* the desktop (pbcopy, osascript) or wl-copy and wtype, so the branches for  *)
(* a preferred xclip or xdotool are never taken.                           *)

FirstOf(names) ==
    LET found == {i \in DOMAIN names : names[i] \in tools}
    IN  IF found = {} THEN "none"
        ELSE names[CHOOSE i \in found : \A j \in found : i <= j]

CopyCommand ==
    FirstOf(CASE desktop = "darwin"  -> <<"pbcopy">>
              [] desktop = "x11"     -> <<"xclip">>
              [] desktop = "wayland" -> <<"wl-copy", "xclip">>)

\* "type" and "wtype" type the text itself, "osascript" and "keys" press the
\* keys that paste the clipboard of the desktop.
PasteCommand ==
    LET name == FirstOf(CASE desktop = "darwin"  -> <<"osascript">>
                          [] desktop = "x11"     -> <<"xdotool", "wtype">>
                          [] desktop = "wayland" -> <<"wtype", "xdotool">>)
    IN  IF name # "xdotool" THEN name
        ELSE IF desktop = "x11" THEN "type" ELSE "keys"

Direct == {"type", "wtype"}

CanTypeDirectly == desktop = "x11" /\ "xdotool" \in tools

-----------------------------------------------------------------------------
(* Copy                                                                    *)

\* The end of the context, before anything is done.
Cancelled ==
    /\ pc \in {"copy", "paste"} /\ Finish("failed")
    /\ UNCHANGED <<envVars, textVars, deskVars>>

\* Mutant: the text is kept only once a command is found.
CopyKeepingLate ==
    /\ pc = "copy"
    /\ IF CopyCommand # "none"
         THEN lastText' = lastTranscript /\ Run("copying", CopyCommand)
         ELSE UNCHANGED lastText /\ IF CanTypeDirectly THEN Goto("paste") ELSE Finish("failed")
    /\ UNCHANGED <<envVars, dictation, lastTranscript, deskVars>>

CopyStarts ==
    /\ pc = "copy" /\ lastText' = lastTranscript
    /\ IF CopyCommand # "none" THEN Run("copying", CopyCommand)
       ELSE IF CanTypeDirectly THEN Goto("paste")
       ELSE Finish("failed")
    /\ UNCHANGED <<envVars, dictation, lastTranscript, deskVars>>

\* Mutant: wl-copy gets the pipes of CombinedOutput like the other commands.
CopyDoneThroughPipes ==
    /\ pc = "copying"
    /\ clipboard' = lastText /\ lost' = FALSE
    /\ Goto("paste") \/ (command \in {"xclip", "wl-copy"} /\ Run("owned", command))
    /\ UNCHANGED <<envVars, textVars, typed>>

\* xclip goes on in the background to own the clipboard; if it keeps the pipes
\* of CombinedOutput, Wait returns only when another program takes over.
CopyDone ==
    /\ pc = "copying"
    /\ clipboard' = lastText /\ lost' = FALSE
    /\ Goto("paste") \/ (command = "xclip" /\ Run("owned", "xclip"))
    /\ UNCHANGED <<envVars, textVars, typed>>

OwnerReleased ==
    /\ pc = "owned" /\ lost
    /\ Goto("paste")
    /\ UNCHANGED <<envVars, textVars, deskVars>>

\* An error, perhaps after the clipboard was set.
CopyFailed ==
    /\ pc = "copying" /\ Finish("failed")
    /\ \/ UNCHANGED <<clipboard, lost>>
       \/ clipboard' = lastText /\ lost' = FALSE
    /\ UNCHANGED <<envVars, textVars, typed>>

\* Whisper and the commands are killed when their timeout or context ends.
TimesOut ==
    \/ pc = "whisper" /\ NoTranscript
    \/ /\ pc \in {"copying", "pasting"} /\ Finish("failed")
       /\ UNCHANGED <<envVars, textVars, deskVars>>

-----------------------------------------------------------------------------
(* Paste.  There is always a text by now, so ErrNothingCopied cannot occur.  *)

PasteDisabled ==
    /\ pc = "paste" /\ ~enablePaste
    /\ Finish("ok")
    /\ UNCHANGED <<envVars, textVars, deskVars>>

PasteStarts ==
    /\ pc = "paste" /\ enablePaste
    /\ IF PasteCommand # "none" THEN Run("pasting", PasteCommand) ELSE Finish("failed")
    /\ UNCHANGED <<envVars, textVars, deskVars>>

Pasted == typed' = IF command \in Direct THEN lastText ELSE clipboard

PasteDone ==
    /\ pc = "pasting" /\ Pasted /\ Finish("ok")
    /\ UNCHANGED <<envVars, textVars, clipboard, lost>>

PasteFailed ==
    /\ pc = "pasting" /\ Finish("failed")
    /\ Pasted \/ UNCHANGED typed
    /\ UNCHANGED <<envVars, textVars, clipboard, lost>>

-----------------------------------------------------------------------------
\* What the daemon does by itself, and what others do or fail to do.
Step == Validate \/ CopyStarts \/ PasteDisabled \/ PasteStarts \/ TimesOut

Next ==
    \/ Dictate \/ Retry \/ OtherProgramCopies \/ ToolChanges \/ Step
    \/ WhisperSpeaks \/ WhisperFails \/ Cancelled
    \/ CopyDone \/ OwnerReleased \/ CopyFailed \/ PasteDone \/ PasteFailed

Spec == Init /\ [][Next]_vars

\* The daemon runs on, its timers fire, and an owner of the clipboard that has
\* lost it exits.  Whisper and the tools may hang.
FairSpec == Spec /\ WF_vars(Step) /\ WF_vars(OwnerReleased)

(***************************************************************************)
(* Properties                                                              *)
(***************************************************************************)

\* Whatever fails, the window never gets the text of an earlier dictation, and
\* a delivery that reports success with paste enabled has typed its own text.
\* The one exception is a clipboard that another program has taken since.
DeliversOwnText ==
    [][LET own == typed' = lastTranscript \/ (typed' = Foreign /\ lost)
       IN  /\ typed' # typed => own
           /\ outcome' = "ok" /\ enablePaste => own]_vars

\* A delivery ends although whisper and the tools may never exit: the timeout
\* keeps it from staying in "processing" (README.md 538-540, clipboard.go
\* 263-298).
DeliveryEnds == (pc # "idle") ~> (pc = "idle")

\* What the timeouts do achieve: nothing keeps a delivery for ever but an xclip
\* that still owns the clipboard.  wl-copy leaves an owner behind as well, but
\* is given no pipes (clipboard.go 281-290).
OnlyXclipHolds ==
    []<>(pc = "idle") \/ <>[](pc = "owned" /\ command = "xclip" /\ ~lost)

\* A delivery that reports success leaves its text in the window or in the
\* clipboard: Copy says of a copy it skips that direct typing is available.
TextIsSomewhere ==
    pc = "idle" /\ outcome = "ok" =>
        lost \/ lastTranscript \in {typed, clipboard}
=============================================================================

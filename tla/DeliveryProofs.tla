--------------------------- MODULE DeliveryProofs ---------------------------
(***************************************************************************)
(* Proofs about Delivery, for any number of dictations and any coming and   *)
(* going of the tools.                                                     *)
(***************************************************************************)
EXTENDS Delivery, TLAPS

\* What the window gets is the text of this delivery, or what another program
\* has put into the clipboard since.
IsOwn(text) == text = lastTranscript \/ (text = Foreign /\ lost)

Desktops ==
    desktop \in {"darwin", "x11", "wayland"} /\ enablePaste \in BOOLEAN

\* The clipboard service has kept the text of this delivery.
TextKept ==
    pc \in {"copying", "owned", "paste", "pasting"} => lastText = lastTranscript

\* It is also in the clipboard, but on X11, where Copy may leave that out
\* because Paste types the text itself.
TextCopied ==
    /\ pc \in {"owned", "paste"} /\ desktop # "x11" => IsOwn(clipboard)
    /\ pc = "pasting" /\ command \notin Direct => IsOwn(clipboard)

\* A delivery that has succeeded has typed its text, and is over.
TextTyped ==
    outcome = "ok" => pc = "idle" /\ (enablePaste => IsOwn(typed))

IInv == Desktops /\ TextKept /\ TextCopied /\ TextTyped

-----------------------------------------------------------------------------
(* The choice of a command                                                 *)

\* Of two names the first that is found.
LEMMA FirstOfTwo ==
  ASSUME NEW a, NEW b
  PROVE  FirstOf(<<a, b>>) =
           IF a \in tools THEN a ELSE IF b \in tools THEN b ELSE "none"
<1> DEFINE names == <<a, b>>
           found == {i \in DOMAIN names : names[i] \in tools}
<1>1. DOMAIN names = {1, 2} /\ names[1] = a /\ names[2] = b
  OBVIOUS
<1>2. CASE a \in tools
  <2>1. 1 \in found /\ \A j \in found : 1 <= j
    BY <1>1, <1>2
  <2>2. \A i \in found : (\A j \in found : i <= j) => i = 1
    BY <1>1, <2>1
  <2>3. (CHOOSE i \in found : \A j \in found : i <= j) = 1
    BY <2>1, <2>2
  <2>4. QED
    BY <1>1, <1>2, <2>1, <2>3 DEF FirstOf
<1>3. CASE a \notin tools /\ b \in tools
  <2>1. found = {2}
    BY <1>1, <1>3
  <2>2. (CHOOSE i \in found : \A j \in found : i <= j) = 2
    BY <2>1
  <2>3. QED
    BY <1>1, <1>3, <2>1, <2>2 DEF FirstOf
<1>4. CASE a \notin tools /\ b \notin tools
  <2>1. found = {}
    BY <1>1, <1>4
  <2>2. QED
    BY <1>4, <2>1 DEF FirstOf
<1>5. QED
  BY <1>2, <1>3, <1>4

\* On X11 every command of Paste types the text itself.
LEMMA X11TypesDirectly ==
  desktop = "x11" => PasteCommand \in Direct \cup {"none"}
<1> SUFFICES ASSUME desktop = "x11"
             PROVE  PasteCommand \in Direct \cup {"none"}
  OBVIOUS
<1> DEFINE name == FirstOf(<<"xdotool", "wtype">>)
<1>1. PasteCommand = IF name # "xdotool" THEN name ELSE "type"
  BY DEF PasteCommand
<1>2. name \in {"xdotool", "wtype", "none"}
  BY FirstOfTwo
<1>3. QED
  BY <1>1, <1>2 DEF Direct

-----------------------------------------------------------------------------
(* The inductive invariant                                                 *)

LEMMA IInvInductive == IInv /\ [Next]_vars => IInv'
<1> SUFFICES ASSUME IInv, [Next]_vars PROVE IInv'
  OBVIOUS
<1> USE DEF IInv, Desktops, TextKept, TextCopied, TextTyped, IsOwn, envVars, textVars,
            deskVars, Finish, Goto, Run
<1>1. CASE Dictate \/ Retry
  BY <1>1 DEF Dictate, Retry
<1>2. CASE OtherProgramCopies
  BY <1>2 DEF OtherProgramCopies
<1>3. CASE ToolChanges
  BY <1>3 DEF ToolChanges
<1>4. CASE Validate
  BY <1>4 DEF Validate, NoTranscript
<1>5. CASE WhisperSpeaks
  BY <1>5 DEF WhisperSpeaks
<1>6. CASE WhisperFails
  BY <1>6 DEF WhisperFails, NoTranscript
<1>7. CASE Cancelled
  BY <1>7 DEF Cancelled
<1>8. CASE CopyStarts
  BY <1>8 DEF CopyStarts, CanTypeDirectly
<1>9. CASE CopyDone
  BY <1>9 DEF CopyDone
<1>10. CASE OwnerReleased
  BY <1>10 DEF OwnerReleased
<1>11. CASE CopyFailed
  BY <1>11 DEF CopyFailed
<1>12. CASE TimesOut
  BY <1>12 DEF TimesOut, NoTranscript
<1>13. CASE PasteDisabled
  BY <1>13 DEF PasteDisabled
<1>14. CASE PasteStarts
  BY <1>14, X11TypesDirectly DEF PasteStarts
<1>15. CASE PasteDone
  BY <1>15 DEF PasteDone, Pasted
<1>16. CASE PasteFailed
  BY <1>16 DEF PasteFailed
<1>17. CASE UNCHANGED vars
  BY <1>17 DEF vars
<1>18. QED
  BY <1>1, <1>2, <1>3, <1>4, <1>5, <1>6, <1>7, <1>8, <1>9, <1>10, <1>11, <1>12, <1>13,
     <1>14, <1>15, <1>16, <1>17 DEF Next, Step

\* The invariant, for any number of dictations and of changes to the tools.
THEOREM Invariance == Spec => []IInv
<1>1. Init => IInv
  BY DEF Init, IInv, Desktops, TextKept, TextCopied, TextTyped
<1>2. QED
  BY <1>1, IInvInductive, PTL DEF Spec

\* The window never gets the text of another dictation, and a delivery that
\* reports success with paste enabled has typed its own.
THEOREM OwnTextDelivered == Spec => DeliversOwnText
<1> DEFINE Own == typed' = lastTranscript \/ (typed' = Foreign /\ lost)
           Delivers == /\ typed' # typed => Own
                       /\ outcome' = "ok" /\ enablePaste => Own
<1>1. IInv /\ [Next]_vars => (Delivers \/ UNCHANGED vars)
  <2> SUFFICES ASSUME IInv, [Next]_vars PROVE Delivers \/ UNCHANGED vars
    OBVIOUS
  <2> USE DEF IInv, TextKept, TextCopied, TextTyped, IsOwn, envVars, textVars, deskVars,
              Finish, Goto, Run
  <2>1. CASE PasteDone
    BY <2>1 DEF PasteDone, Pasted
  <2>2. CASE PasteFailed
    BY <2>2 DEF PasteFailed, Pasted
  <2>3. CASE PasteDisabled
    BY <2>3 DEF PasteDisabled
  <2>4. CASE ToolChanges \/ OtherProgramCopies
    BY <2>4 DEF ToolChanges, OtherProgramCopies
  <2>5. CASE Dictate \/ Retry \/ Cancelled \/ WhisperSpeaks \/ WhisperFails \/ Validate
    BY <2>5 DEF Dictate, Retry, Cancelled, WhisperSpeaks, WhisperFails, Validate,
       NoTranscript
  <2>6. CASE CopyStarts \/ CopyDone \/ OwnerReleased \/ CopyFailed \/ PasteStarts
    BY <2>6 DEF CopyStarts, CopyDone, OwnerReleased, CopyFailed, PasteStarts
  <2>7. CASE TimesOut
    BY <2>7 DEF TimesOut, NoTranscript
  <2>8. QED
    BY <2>1, <2>2, <2>3, <2>4, <2>5, <2>6, <2>7 DEF Next, Step
<1>2. QED
  BY <1>1, Invariance, PTL DEF Spec, DeliversOwnText
=============================================================================

------------------------------ MODULE Recorder ------------------------------
(***************************************************************************)
(* The contract of audio.Recorder, as the session sees it: Start opens the *)
(* microphone, Stop closes it and hands over one file.  The recorder of     *)
(* Linux writes one fixed path (TempDir/FileName), so the file of an        *)
(* earlier recording is there until somebody removes it; PWRecord shows     *)
(* that it implements this contract.                                       *)
(*                                                                         *)
(* A recording is identified by its number, its "take"; 0 is no take.       *)
(***************************************************************************)
EXTENDS Naturals

CONSTANT MaxTakes     \* bound: how many recordings may ever be opened

ASSUME MaxTakesAssumption == MaxTakes \in Nat \ {0}

VARIABLES
    capturing,        \* PWRecordRecorder.recording
    take,             \* the number of the last recording that was opened
    wav               \* the take whose audio is in the file, 0: no usable file

recVars == <<capturing, take, wav>>

Take == 0..MaxTakes

RecTypeOK ==
    /\ capturing \in BOOLEAN
    /\ take \in Take
    /\ wav \in Take

\* A daemon that died while it recorded may have left its file: then the
\* count starts with that take.
RecInit ==
    /\ capturing = FALSE
    /\ take \in 0..1
    /\ wav \in 0..take

\* Mutant: Start does not remove the file of the previous recording.
RecorderStartedOverOldFile ==
    /\ ~capturing
    /\ take < MaxTakes
    /\ capturing' = TRUE
    /\ take' = take + 1
    /\ UNCHANGED wav

(***************************************************************************)
(* Start removes the file of the previous recording before it opens the    *)
(* device.                                                                 *)
(***************************************************************************)
RecorderStarted ==
    /\ ~capturing
    /\ take < MaxTakes
    /\ capturing' = TRUE
    /\ take' = take + 1
    /\ wav' = 0

\* Start fails: the recorder is already active, or the context is done, or
\* pw-record is missing (the old file stays), or the device does not open
\* (the old file is gone by then).  When only the camera wake failed,
\* pw-record has run and been stopped again, and its file may be there.
RecorderStartFailed ==
    /\ UNCHANGED capturing
    /\ \/ wav' \in (IF capturing THEN {wav} ELSE {0, wav}) /\ UNCHANGED take
       \/ /\ ~capturing /\ take < MaxTakes
          /\ take' = take + 1 /\ wav' \in {0, take'}

(***************************************************************************)
(* Stop forgets the recording before it waits for the process, so the      *)
(* recorder is free whatever happens next.  The process may have written   *)
(* frames or none; a file without frames, or one that was not finalized,    *)
(* is an error, and that error leaves the file where it is.                 *)
(***************************************************************************)
RecorderStopped(frames) ==
    /\ capturing
    /\ capturing' = FALSE
    /\ wav' = IF frames THEN take ELSE wav
    /\ wav' # 0
    /\ UNCHANGED take

\* Mutant: Stop gives up before it forgets the recording.
RecorderStopGivesUp(frames) == UNCHANGED <<capturing, wav, take>>

RecorderStopFailed(frames) ==
    /\ capturing' = FALSE
    /\ wav' = IF capturing /\ frames THEN take ELSE wav
    /\ UNCHANGED take

\* os.Remove(recording.Path), deferred by the session.
RecordingRemoved ==
    /\ wav' = 0
    /\ UNCHANGED <<capturing, take>>

RecNext ==
    \/ RecorderStarted \/ RecorderStartFailed \/ RecordingRemoved
    \/ \E frames \in BOOLEAN : RecorderStopped(frames) \/ RecorderStopFailed(frames)

RecSpec == RecInit /\ [][RecNext]_recVars
=============================================================================

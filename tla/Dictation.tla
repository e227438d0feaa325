------------------------------ MODULE Dictation ------------------------------
(***************************************************************************)
(* What the session service promises to the person who dictates, without   *)
(* callers, channel, or failures of the devices: one recording is made at   *)
(* a time, it is worked on only after the microphone is closed, at most one *)
(* transcript is kept, and nothing but the kept transcript is ever typed.   *)
(***************************************************************************)
EXTENDS Naturals

CONSTANT MaxTakes

VARIABLES
    phase,      \* "quiet", "listening" (the microphone is open) or "working"
    take,       \* number of the last recording
    kept,       \* the take whose transcript can be typed, 0: none
    typed       \* the take whose transcript was typed last, 0: none

vars == <<phase, take, kept, typed>>

\* Takes of an earlier daemon count, their transcripts are forgotten.
Init == phase = "quiet" /\ take \in 0..1 /\ kept = 0 /\ typed = 0

Listen ==
    /\ phase = "quiet" /\ take < MaxTakes
    /\ phase' = "listening" /\ take' = take + 1
    /\ UNCHANGED <<kept, typed>>

\* A recording that came to nothing before anybody listened.
Misfire ==
    /\ phase = "quiet" /\ take < MaxTakes
    /\ take' = take + 1
    /\ UNCHANGED <<phase, kept, typed>>

HandOver ==
    /\ phase = "listening" /\ phase' = "working"
    /\ UNCHANGED <<take, kept, typed>>

\* Work ends with the transcript of this very take, or with none at all.
Transcribe ==
    /\ phase = "working" /\ kept' \in {0, take}
    /\ UNCHANGED <<phase, take, typed>>

\* While a take is worked on, only its own transcript is typed; afterwards
\* the kept one may be typed again.
Type ==
    /\ phase # "listening" /\ kept # 0
    /\ phase = "working" => kept = take
    /\ typed' = kept
    /\ UNCHANGED <<phase, take, kept>>

Finish ==
    /\ phase = "working" /\ phase' = "quiet"
    /\ UNCHANGED <<take, kept, typed>>

Next == Listen \/ Misfire \/ HandOver \/ Transcribe \/ Type \/ Finish

Spec == Init /\ [][Next]_vars
=============================================================================

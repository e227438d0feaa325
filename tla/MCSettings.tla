----------------------------- MODULE MCSettings -----------------------------
(* Two processes; inputs and files chosen so that each can make the other's  *)
(* reading stale, and one caller without a runtime directory.              *)
EXTENDS Settings, TLC

CONSTANTS a1, a2

MCApplies == {a1, a2}
Symmetry == Permutations(MCApplies)

Ask(model, control, socket, runtimeDir) ==
    [model |-> model, control |-> control, socket |-> socket, runtimeDir |-> runtimeDir]

MCInputs == {
    Ask("tiny", Keep, Keep, TRUE),     Ask("other", Keep, Keep, TRUE),
    Ask(Keep, "true", Keep, FALSE),    Ask(Keep, "true", "", TRUE),
    Ask("tiny", "false", Keep, TRUE),  Ask(Keep, Keep, "rel", TRUE),
    Ask(Keep, "true", "abs", TRUE)}

At(profile, control, socket) ==
    [profile |-> profile, model |-> "base", control |-> control, socket |-> socket]

MCInstalled == {At("linux", "false", ""), At("linux", "true", ""), At("linux", "true", "abs"),
                At("steam_deck", "unset", "")}
=============================================================================

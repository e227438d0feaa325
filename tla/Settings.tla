------------------------------ MODULE Settings ------------------------------
(***************************************************************************)
(* The settings of the service: ApplyDaemonConfig of internal/admin, run by *)
(* any number of sttdctl processes at once, on the one environment file and *)
(* the one directory of models, and the daemon that systemd starts with the *)
(* file.                                                                   *)
(*                                                                         *)
(* Of the file this module keeps the profile, the model, the switch and the *)
(* socket of external control; language and paste are changed in the same  *)
(* way and decide nothing else.  A socket path is "" (not given), "default" *)
(* (the one below XDG_RUNTIME_DIR), "abs" or "rel".                         *)
(***************************************************************************)
CONSTANTS
    Applies,      \* processes, one `sttdctl config apply` each
    Inputs,       \* what they may be asked for
    Installed     \* the files they may find

Keep == "keep"    \* a flag that was not given
EmptyFile == [profile |-> "linux", model |-> "", control |-> "unset", socket |-> ""]

Supported == {"tiny", "base"}    \* ModelCatalog, two of four
Socket == {"", "default", "abs", "rel"}
File == [profile : {"linux", "steam_deck"}, model : Supported \union {""},
         control : {"unset", "true", "false"}, socket : Socket]
Input == [model : Supported \union {"other", Keep}, control : {"true", "false", Keep},
          socket : Socket \union {Keep}, runtimeDir : BOOLEAN]

ASSUME InputsAssumption == Inputs \subseteq Input
ASSUME InstalledAssumption == Installed \subseteq {f \in File : f.model = "base"}

VARIABLES
    env,          \* the environment file
    store,        \* the files of the models: "absent", "ok" or "corrupt"
    loaded,       \* the file that the daemon was last started with
    opened,       \* applies that hold the file open to restore it
    pc, input,    \* of each apply: its point, what it is asked for
    seen, path,   \* what its two reads gave: the file, the path of the model
    fetched,      \* its download: "ok" or "corrupt"
    tmp, orig,    \* the new file before it is renamed, the backup
    result,
    alone,        \* nobody else has written the file since it began
    disturbed     \* some apply was killed, or could not restart the service

shared  == <<env, store, loaded, opened>>
locals  == <<input, seen, path, fetched, tmp, orig>>
history == <<alone, disturbed>>
vars == <<shared, pc, locals, result, history>>

NoInput == [model |-> Keep, control |-> Keep, socket |-> Keep, runtimeDir |-> TRUE]

Init ==
    /\ env \in Installed /\ loaded = env /\ opened = {}
    /\ store \in {[base |-> "ok", tiny |-> s] : s \in {"absent", "ok", "corrupt"}}
    /\ pc = [a \in Applies |-> "begin"]
    /\ input = [a \in Applies |-> NoInput]
    /\ seen = [a \in Applies |-> EmptyFile] /\ path = [a \in Applies |-> ""]
    /\ fetched = [a \in Applies |-> "none"]
    /\ tmp = [a \in Applies |-> EmptyFile] /\ orig = [a \in Applies |-> EmptyFile]
    /\ result = [a \in Applies |-> "none"]
    /\ alone = [a \in Applies |-> TRUE] /\ disturbed = FALSE

Goto(a, point) == pc' = [pc EXCEPT ![a] = point] /\ UNCHANGED result

\* What a finished apply remembers is forgotten.
Finish(a, outcome) ==
    /\ pc' = [pc EXCEPT ![a] = "done"] /\ result' = [result EXCEPT ![a] = outcome]
    /\ input' = [input EXCEPT ![a] = NoInput]
    /\ seen' = [seen EXCEPT ![a] = EmptyFile] /\ path' = [path EXCEPT ![a] = ""]
    /\ fetched' = [fetched EXCEPT ![a] = "none"]
    /\ tmp' = [tmp EXCEPT ![a] = EmptyFile] /\ orig' = [orig EXCEPT ![a] = EmptyFile]

\* a changes the file: no other apply that is under way is alone any more.
Writes(a) == alone' = [b \in Applies |-> alone[b] /\ (b = a \/ pc[b] \in {"begin", "done"})]

-----------------------------------------------------------------------------
(* The two readers of the file                                             *)

ResolveSocketPath(socket, runtimeDir) ==
    CASE socket = "rel" -> "error"
      [] socket = ""    -> IF runtimeDir THEN "default" ELSE "error"
      [] OTHER          -> socket

\* What sttdctl reports of file f; its socket is "error" where it reports an error.
GetDaemonConfig(f, runtimeDir) ==
    [control |-> IF f.control = "true" THEN "true" ELSE "false",
     socket  |-> IF f.control = "true" THEN ResolveSocketPath(f.socket, runtimeDir) ELSE f.socket]

\* Where `sttdctl control` of the user looks for a daemon, if it looks for one.
Dialled(f) ==
    LET config == GetDaemonConfig(f, TRUE)
    IN  IF config.control = "false" \/ config.socket = "error" THEN "nowhere"
        ELSE ResolveSocketPath(config.socket, TRUE)

EnabledByDefault(profile) == profile = "steam_deck"
ControlEnabled(f) == f.control = "true" \/ (f.control = "unset" /\ EnabledByDefault(f.profile))

\* A daemon started with f ends at once.
Refuses(f) == f.socket = "rel" \/ f.model = "" \/ store[f.model] = "absent"

\* Where a daemon started with f listens; systemd passes it the runtime directory.
ListensAt(f) ==
    IF Refuses(f) \/ ~ControlEnabled(f) THEN "nowhere" ELSE ResolveSocketPath(f.socket, TRUE)

-----------------------------------------------------------------------------
(* The service manager                                                     *)

\* Restart=on-failure, or somebody restarts the service.
DaemonStarts == loaded' = env /\ UNCHANGED <<env, store, opened, pc, locals, result, history>>

-----------------------------------------------------------------------------
(* Reading, and the model                                                  *)

Begin(a) ==
    /\ pc[a] = "begin"
    /\ \E i \in Inputs :
         /\ GetDaemonConfig(env, i.runtimeDir).socket # "error"
         /\ input' = [input EXCEPT ![a] = i] /\ seen' = [seen EXCEPT ![a] = env]
    /\ Goto(a, "values") /\ UNCHANGED <<shared, path, fetched, tmp, orig, history>>

BeginFails(a) ==
    /\ pc[a] = "begin"
    /\ \E i \in Inputs : GetDaemonConfig(env, i.runtimeDir).socket = "error"
    /\ Finish(a, "failed") /\ UNCHANGED <<shared, history>>

ReadValues(a) ==
    /\ pc[a] = "values"
    /\ path' = [path EXCEPT ![a] = env.model]
    /\ Goto(a, IF input[a].model = Keep THEN "decide" ELSE "model")
    /\ UNCHANGED <<shared, input, seen, fetched, tmp, orig, history>>

VerifiesUnread(a) == input[a].model \in Supported /\ store[input[a].model] # "absent"

\* verifyModelChecksum of a file that is already there.
Verifies(a) == input[a].model \in Supported /\ store[input[a].model] = "ok"

ModelPresent(a) ==
    /\ pc[a] = "model" /\ Verifies(a)
    /\ Goto(a, "decide") /\ UNCHANGED <<shared, locals, history>>

ModelRejected(a) ==
    /\ pc[a] = "model" /\ ~Verifies(a)
    /\ input[a].model \in Supported => store[input[a].model] # "absent"
    /\ Finish(a, "failed") /\ UNCHANGED <<shared, history>>

Download(a) ==
    /\ pc[a] = "model" /\ input[a].model \in Supported /\ store[input[a].model] = "absent"
    /\ \E f \in {"ok", "corrupt"} : fetched' = [fetched EXCEPT ![a] = f]
    /\ Goto(a, "downloaded") /\ UNCHANGED <<shared, input, seen, path, tmp, orig, history>>

DownloadFails(a) ==
    /\ pc[a] = "model" /\ input[a].model \in Supported /\ store[input[a].model] = "absent"
    /\ Finish(a, "failed") /\ UNCHANGED <<shared, history>>

InstallModel(a) ==
    /\ pc[a] = "downloaded" /\ fetched[a] = "ok"
    /\ store' = [store EXCEPT ![input[a].model] = fetched[a]]
    /\ Goto(a, "decide") /\ UNCHANGED <<env, loaded, opened, locals, history>>

InstallFails(a) ==
    /\ pc[a] = "downloaded"
    /\ Finish(a, "failed") /\ UNCHANGED <<shared, history>>

-----------------------------------------------------------------------------
(* What to write                                                           *)

\* The configuration that a will report, and that it wants in the file.
Wanted(a) ==
    LET was     == GetDaemonConfig(seen[a], input[a].runtimeDir)
        control == IF input[a].control = Keep THEN was.control ELSE input[a].control
        asked   == IF input[a].socket = Keep THEN was.socket ELSE input[a].socket
    IN  [model   |-> IF input[a].model = Keep THEN path[a] ELSE input[a].model,
         control |-> control, asked |-> asked,
         socket  |-> IF control = "true"
                     THEN ResolveSocketPath(asked, input[a].runtimeDir) ELSE asked]

\* The keys it has to write for that: those that differ from what it has read.
Updates(a) ==
    LET was == GetDaemonConfig(seen[a], input[a].runtimeDir)
        want == Wanted(a)
    IN  {k \in {"model", "control", "socket"} :
           \/ k = "model" /\ want.model # path[a]
           \/ k = "control" /\ want.control # was.control
           \/ k = "socket" /\ (want.asked # was.socket \/ want.socket # want.asked)}

ResolveFails(a) ==
    /\ pc[a] = "decide" /\ Wanted(a).socket = "error"
    /\ Finish(a, "failed") /\ UNCHANGED <<shared, history>>

NothingToWrite(a) ==
    /\ pc[a] = "decide" /\ Wanted(a).socket # "error" /\ Updates(a) = {}
    /\ Goto(a, "status") /\ UNCHANGED <<shared, locals, history>>

Backup(a) ==
    /\ pc[a] = "decide" /\ Wanted(a).socket # "error" /\ Updates(a) # {}
    /\ orig' = [orig EXCEPT ![a] = env]
    /\ Goto(a, "merge") /\ UNCHANGED <<shared, input, seen, path, fetched, tmp, history>>

-----------------------------------------------------------------------------
(* Writing the file, restarting the service, restoring the file            *)

\* WriteEnvFile reads the file once more and changes the lines of its keys.
Merge(a) ==
    /\ pc[a] = "merge"
    /\ tmp' = [tmp EXCEPT ![a] =
                 [k \in DOMAIN env |-> IF k \in Updates(a) THEN Wanted(a)[k] ELSE env[k]]]
    /\ Goto(a, "replace") /\ UNCHANGED <<shared, input, seen, path, fetched, orig, history>>

WriteFails(a) ==
    /\ pc[a] \in {"merge", "replace"}
    /\ Finish(a, "failed") /\ UNCHANGED <<shared, history>>

ReplaceBackingUpLate(a) ==
    /\ pc[a] = "replace"
    /\ env' = tmp[a] /\ opened' = {} /\ Writes(a)
    /\ orig' = [orig EXCEPT ![a] = tmp[a]]
    /\ Goto(a, "restart") /\ UNCHANGED <<store, loaded, input, seen, path, fetched, tmp, disturbed>>

ReplaceRestartingForModel(a) ==
    /\ pc[a] = "replace"
    /\ env' = tmp[a] /\ opened' = {} /\ Writes(a)
    /\ Goto(a, IF "model" \in Updates(a) THEN "restart" ELSE "status")
    /\ UNCHANGED <<store, loaded, locals, disturbed>>

\* The rename: whoever holds the old file open writes into a file without a name.
Replace(a) ==
    /\ pc[a] = "replace"
    /\ env' = tmp[a] /\ opened' = {} /\ Writes(a)
    /\ Goto(a, "restart") /\ UNCHANGED <<store, loaded, locals, disturbed>>

\* systemctl reports success as soon as the daemon is started (Type=simple).
Restart(a) ==
    /\ pc[a] = "restart" /\ loaded' = env
    /\ Goto(a, "status") /\ UNCHANGED <<env, store, opened, locals, history>>

\* systemctl fails, or is given up; the service may have been restarted all the same.
RestartFails(a) ==
    /\ pc[a] = "restart" /\ loaded' \in {loaded, env} /\ disturbed' = TRUE
    /\ Goto(a, "restore") /\ UNCHANGED <<env, store, opened, locals, alone>>

\* os.WriteFile truncates the file, then writes it.
RestoreOpens(a) ==
    /\ pc[a] = "restore"
    /\ env' = EmptyFile /\ opened' = opened \union {a} /\ Writes(a)
    /\ Goto(a, "rewrite") /\ UNCHANGED <<store, loaded, locals, disturbed>>

\* Where another restore has written meanwhile, the end of its text may stay behind.
RestoreWrites(a) ==
    /\ pc[a] = "rewrite"
    /\ \/ /\ a \in opened
          /\ \E left \in SUBSET {k \in DOMAIN env : env[k] # EmptyFile[k]} :
               env' = [k \in DOMAIN env |-> IF k \in left THEN env[k] ELSE orig[a][k]]
          /\ Writes(a)
       \/ a \notin opened /\ UNCHANGED <<env, alone>>
    /\ opened' = opened \ {a}
    /\ Finish(a, "failed") /\ UNCHANGED <<store, loaded, disturbed>>

RestoreFails(a) ==
    /\ pc[a] \in {"restore", "rewrite"} /\ opened' = opened \ {a}
    /\ Finish(a, "unrestored") /\ UNCHANGED <<env, store, loaded, history>>

StatusRead(a) ==
    /\ pc[a] = "status" /\ Finish(a, "ok") /\ UNCHANGED <<shared, history>>

StatusFails(a) ==
    /\ pc[a] = "status" /\ Finish(a, "failed") /\ UNCHANGED <<shared, history>>

\* The process is killed, at any point.
Crash(a) ==
    /\ pc[a] \notin {"begin", "done"} /\ disturbed' = TRUE /\ opened' = opened \ {a}
    /\ Finish(a, "crashed") /\ UNCHANGED <<env, store, loaded, alone>>

Apply(a) ==
    \/ Begin(a) \/ BeginFails(a) \/ ReadValues(a)
    \/ ModelPresent(a) \/ ModelRejected(a)
    \/ Download(a) \/ DownloadFails(a) \/ InstallModel(a) \/ InstallFails(a)
    \/ ResolveFails(a) \/ NothingToWrite(a) \/ Backup(a) \/ Merge(a) \/ WriteFails(a)
    \/ Replace(a) \/ Restart(a) \/ RestartFails(a)
    \/ RestoreOpens(a) \/ RestoreWrites(a) \/ RestoreFails(a)
    \/ StatusRead(a) \/ StatusFails(a) \/ Crash(a)

Next == DaemonStarts \/ \E a \in Applies : Apply(a)

Spec == Init /\ [][Next]_vars

-----------------------------------------------------------------------------
(* Whatever two applies, failures and crashes do to the file and to the     *)
(* downloads, the model that the file names is there and is the one with    *)
(* the right checksum (ensureModelDownloaded before WriteEnvFile).          *)
EnvPointsToModel == env.model # "" => store[env.model] = "ok"

(* With every file written and followed by its restart, no matter how       *)
(* several applies interleave, the daemon runs what the file says, and it   *)
(* listens at the socket that sttdctl dials, if sttdctl takes external      *)
(* control to be enabled (admin/config.go:184-187, and the two readings of   *)
(* the file in admin/config.go:86-100 and config/config.go:383-388).        *)
ServiceRunsTheFile ==
    (~disturbed /\ \A a \in Applies : pc[a] # "restart") =>
        /\ loaded = env
        /\ Dialled(env) # "nowhere" => ListensAt(loaded) = Dialled(env)

(* An apply that reports an error, and had the file to itself, has left the *)
(* file as it found it, unless it was the status that could not be read:    *)
(* then the daemon runs what was applied (admin/config.go:187-202).         *)
FailedApplyRestores ==
    [][\A a \in Applies :
         (pc[a] # "done" /\ result'[a] = "failed" /\ alone'[a]) =>
             \/ pc[a] = "begin" \/ env' = seen[a]
             \/ pc[a] = "status" /\ loaded' = env']_vars
=============================================================================

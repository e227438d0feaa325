--------------------------- MODULE SettingsProofs ---------------------------
(***************************************************************************)
(* Proofs about Settings, for any set of applies, of requests and of files  *)
(* to begin with.                                                          *)
(***************************************************************************)
EXTENDS Settings, TLAPS

Point == {"begin", "values", "model", "downloaded", "decide", "merge", "replace",
          "restart", "restore", "rewrite", "status", "done"}
Outcome == {"none", "ok", "failed", "unrestored", "crashed"}

TypeOK ==
    /\ env \in File /\ loaded \in File /\ opened \subseteq Applies
    /\ store \in [Supported -> {"absent", "ok", "corrupt"}]
    /\ pc \in [Applies -> Point] /\ input \in [Applies -> Input]
    /\ seen \in [Applies -> File] /\ path \in [Applies -> Supported \union {""}]
    /\ fetched \in [Applies -> {"none", "ok", "corrupt"}]
    /\ tmp \in [Applies -> File] /\ orig \in [Applies -> File]
    /\ result \in [Applies -> Outcome]
    /\ alone \in [Applies -> BOOLEAN] /\ disturbed \in BOOLEAN

\* The model is there, with the right checksum, if one is named.
Present(model) == model # "" => store[model] = "ok"

\* Every file that is or may become the environment file names such a model.
FilesGood ==
    /\ Present(env.model)
    /\ \A a \in Applies :
         Present(tmp[a].model) /\ Present(orig[a].model) /\ Present(path[a])

\* What an apply knows of the model and the socket it was asked for.
Choice(a) ==
    /\ pc[a] = "model" => input[a].model # Keep
    /\ pc[a] = "downloaded" => input[a].model \in Supported
    /\ pc[a] \in {"decide", "merge"} =>
         input[a].model = Keep \/ (input[a].model \in Supported /\ store[input[a].model] = "ok")
    /\ pc[a] = "merge" => Wanted(a).socket # "error"

ChoiceGood == \A a \in Applies : Choice(a)

\* As long as every restart succeeds and no apply is killed, nobody restores, no
\* file is empty, and whoever has not restarted the service yet is about to.
Calm ==
    ~disturbed =>
        /\ env.model # ""
        /\ \A a \in Applies :
             /\ pc[a] \notin {"restore", "rewrite"}
             /\ pc[a] \in {"model", "downloaded", "decide", "merge"} => path[a] # ""
             /\ pc[a] = "replace" => tmp[a].model # ""
        /\ (\A a \in Applies : pc[a] # "restart") => loaded = env

\* What an apply that has the file to itself knows of it.
Knows(a) ==
    /\ pc[a] # "done" => result[a] = "none"
    /\ alone[a] =>
         /\ pc[a] \in {"values", "model", "downloaded", "decide", "merge", "replace"} =>
              env = seen[a]
         /\ pc[a] \in {"merge", "replace", "restart", "restore", "rewrite"} => orig[a] = seen[a]
         /\ pc[a] = "rewrite" => env = EmptyFile /\ a \in opened
         /\ pc[a] = "status" => env = seen[a] \/ loaded = env

AloneKnows == \A a \in Applies : Knows(a)

IInv == TypeOK /\ FilesGood /\ ChoiceGood /\ Calm /\ AloneKnows

\* The names the actions use are names of points, results and models, and what an
\* apply forgets is of the right type.
LEMMA Names ==
    /\ EmptyFile \in File /\ NoInput \in Input /\ EmptyFile.model = ""
    /\ Installed \subseteq File /\ Inputs \subseteq Input
    /\ "" \in Supported \union {""} /\ {"tiny", "base"} = Supported
    /\ \A f \in File : f.model \in Supported \union {""}
    /\ \A p \in {"begin", "values", "model", "downloaded", "decide", "merge", "replace",
          "restart", "restore", "rewrite", "status", "done"} : p \in Point
    /\ \A o \in {"none", "ok", "failed", "unrestored", "crashed"} : o \in Outcome
BY InputsAssumption, InstalledAssumption
   DEF EmptyFile, NoInput, File, Input, Socket, Supported, Keep, Point, Outcome

\* What an apply wants can be written: Backup lets no error of the socket pass.
LEMMA WantedIsTyped ==
  ASSUME TypeOK, ChoiceGood, NEW a \in Applies, pc[a] = "merge"
  PROVE  /\ Wanted(a).model \in Supported \union {""}
         /\ Wanted(a).control \in {"true", "false"}
         /\ Wanted(a).socket \in Socket
<1>1. seen[a] \in File /\ input[a] \in Input /\ path[a] \in Supported \union {""}
  BY DEF TypeOK
<1>2. Wanted(a).model \in Supported \union {""}
  BY <1>1 DEF ChoiceGood, Choice, Wanted, Keep, Input
<1>3. Wanted(a).control \in {"true", "false"}
  BY <1>1 DEF Wanted, GetDaemonConfig, Input, Keep
<1>4. GetDaemonConfig(seen[a], input[a].runtimeDir).socket \in Socket \union {"error"}
  BY <1>1 DEF GetDaemonConfig, ResolveSocketPath, File, Input, Socket
<1>5. Wanted(a).asked \in Socket \union {"error"}
  BY <1>1, <1>4 DEF Wanted, Input, Keep
<1>6. Wanted(a).socket \in Socket \union {"error"}
  BY <1>5, <1>1 DEF Wanted, ResolveSocketPath, Socket, Input
<1>7. QED
  BY <1>2, <1>3, <1>6 DEF ChoiceGood, Choice

\* The file that a prepares in its merge.
Merged(a) ==
  [k \in DOMAIN env |-> IF k \in Updates(a) THEN Wanted(a)[k] ELSE env[k]]

\* A merge makes an environment file.
LEMMA MergedIsFile ==
  ASSUME TypeOK, ChoiceGood, NEW a \in Applies, pc[a] = "merge"
  PROVE  Merged(a) \in File
<1>1. env \in File
  BY DEF TypeOK
<1>2. DOMAIN env = {"profile", "model", "control", "socket"}
  BY <1>1 DEF File
<1>3. /\ env.profile \in {"linux", "steam_deck"} /\ env.model \in Supported \union {""}
      /\ env.control \in {"unset", "true", "false"} /\ env.socket \in Socket
  BY <1>1 DEF File
<1>4. "profile" \notin Updates(a)
  BY DEF Updates
<1> DEFINE W == Wanted(a)
<1> DEFINE U == Updates(a)
<1>5. W.model \in Supported \union {""} /\ W.control \in {"true", "false"} /\ W.socket \in Socket
  BY WantedIsTyped
<1>6. "profile" \notin U
  BY <1>4
<1> HIDE DEF W, U
<1>7. [k \in DOMAIN env |-> IF k \in U THEN W[k] ELSE env[k]] \in File
  BY <1>2, <1>3, <1>5, <1>6 DEF File
<1>8. QED
  BY <1>7 DEF W, U, Merged

\* Two files of which parts are mixed make an environment file.
LEMMA OverlaidIsFile ==
  ASSUME NEW f \in File, NEW g \in File, NEW left
  PROVE  [k \in DOMAIN f |-> IF k \in left THEN f[k] ELSE g[k]] \in File
<1>1. DOMAIN f = {"profile", "model", "control", "socket"}
  BY DEF File
<1>2. QED
  BY <1>1 DEF File

\* Every variable keeps its type.
LEMMA TypeInductive == TypeOK /\ ChoiceGood /\ [Next]_vars => TypeOK'
<1> SUFFICES ASSUME TypeOK, ChoiceGood, [Next]_vars PROVE TypeOK'
  OBVIOUS
<1> USE DEF TypeOK, Goto, Finish, Writes, shared, locals, history
<1>0. CASE DaemonStarts
  BY <1>0 DEF DaemonStarts
<1>1. ASSUME NEW a \in Applies, Begin(a) PROVE TypeOK'
  <2>1. PICK i \in Inputs : input' = [input EXCEPT ![a] = i] /\ seen' = [seen EXCEPT ![a] = env]
    BY <1>1 DEF Begin
  <2>2. QED
    BY <1>1, <2>1, Names DEF Begin
<1>2. ASSUME NEW a \in Applies, BeginFails(a) PROVE TypeOK'
  BY <1>2, Names DEF BeginFails
<1>3. ASSUME NEW a \in Applies, ReadValues(a) PROVE TypeOK'
  BY <1>3, Names DEF ReadValues
<1>4. ASSUME NEW a \in Applies, ModelPresent(a) PROVE TypeOK'
  BY <1>4, Names DEF ModelPresent
<1>5. ASSUME NEW a \in Applies, ModelRejected(a) PROVE TypeOK'
  BY <1>5, Names DEF ModelRejected
<1>6. ASSUME NEW a \in Applies, Download(a) PROVE TypeOK'
  <2>1. PICK f \in {"ok", "corrupt"} : fetched' = [fetched EXCEPT ![a] = f]
    BY <1>6 DEF Download
  <2>2. QED
    <3>1. fetched' \in [Applies -> {"none", "ok", "corrupt"}]
      BY <2>1
    <3>2. QED
      BY <1>6, <3>1, Names DEF Download
<1>7. ASSUME NEW a \in Applies, DownloadFails(a) PROVE TypeOK'
  BY <1>7, Names DEF DownloadFails
<1>8. ASSUME NEW a \in Applies, InstallModel(a) PROVE TypeOK'
  BY <1>8, Names DEF InstallModel
<1>9. ASSUME NEW a \in Applies, InstallFails(a) PROVE TypeOK'
  BY <1>9, Names DEF InstallFails
<1>10. ASSUME NEW a \in Applies, ResolveFails(a) PROVE TypeOK'
  BY <1>10, Names DEF ResolveFails
<1>11. ASSUME NEW a \in Applies, NothingToWrite(a) PROVE TypeOK'
  BY <1>11, Names DEF NothingToWrite
<1>12. ASSUME NEW a \in Applies, Backup(a) PROVE TypeOK'
  BY <1>12, Names DEF Backup
<1>13. ASSUME NEW a \in Applies, Merge(a) PROVE TypeOK'
  <2>1. PICK f \in File : tmp' = [tmp EXCEPT ![a] = f]
    BY <1>13, MergedIsFile DEF Merge, Merged
  <2>2. /\ pc' = [pc EXCEPT ![a] = "replace"]
        /\ UNCHANGED <<env, store, loaded, opened, input, seen, path,
                        fetched, orig, result, alone, disturbed>>
    BY <1>13 DEF Merge
  <2>3. QED
    BY <2>1, <2>2, Names
<1>14. ASSUME NEW a \in Applies, WriteFails(a) PROVE TypeOK'
  BY <1>14, Names DEF WriteFails
<1>15. ASSUME NEW a \in Applies, Replace(a) PROVE TypeOK'
  BY <1>15, Names DEF Replace
<1>16. ASSUME NEW a \in Applies, Restart(a) PROVE TypeOK'
  BY <1>16, Names DEF Restart
<1>17. ASSUME NEW a \in Applies, RestartFails(a) PROVE TypeOK'
  BY <1>17, Names DEF RestartFails
<1>18. ASSUME NEW a \in Applies, RestoreOpens(a) PROVE TypeOK'
  BY <1>18, Names DEF RestoreOpens
<1>19. ASSUME NEW a \in Applies, RestoreWrites(a) PROVE TypeOK'
  <2>1. env' \in File
    <3>1. CASE a \notin opened
      BY <1>19, <3>1 DEF RestoreWrites
    <3>2. CASE a \in opened
      <4>1. PICK left : env' = [k \in DOMAIN env |-> IF k \in left THEN env[k] ELSE orig[a][k]]
        BY <1>19, <3>2 DEF RestoreWrites
      <4>2. env \in File /\ orig[a] \in File
        OBVIOUS
      <4>3. [k \in DOMAIN env |-> IF k \in left THEN env[k] ELSE orig[a][k]] \in File
        BY ONLY <4>2, OverlaidIsFile, Zenon
      <4>4. QED
        BY <4>1, <4>3
    <3>3. QED
      BY <3>1, <3>2
  <2>2. alone' \in [Applies -> BOOLEAN]
    BY <1>19 DEF RestoreWrites
  <2>3. Finish(a, "failed") /\ opened' = opened \ {a} /\ UNCHANGED <<store, loaded, disturbed>>
    BY <1>19 DEF RestoreWrites
  <2>4. QED
    BY <2>1, <2>2, <2>3, Names
<1>20. ASSUME NEW a \in Applies, RestoreFails(a) PROVE TypeOK'
  BY <1>20, Names DEF RestoreFails
<1>21. ASSUME NEW a \in Applies, StatusRead(a) PROVE TypeOK'
  BY <1>21, Names DEF StatusRead
<1>22. ASSUME NEW a \in Applies, StatusFails(a) PROVE TypeOK'
  BY <1>22, Names DEF StatusFails
<1>23. ASSUME NEW a \in Applies, Crash(a) PROVE TypeOK'
  BY <1>23, Names DEF Crash
<1>24. CASE UNCHANGED vars
  BY <1>24 DEF vars
<1>25. QED
  BY <1>0, <1>1, <1>2, <1>3, <1>4, <1>5, <1>6, <1>7, <1>8, <1>9, <1>10, <1>11,
     <1>12, <1>13, <1>14, <1>15, <1>16, <1>17, <1>18, <1>19, <1>20, <1>21, <1>22,
     <1>23, <1>24 DEF Next, Apply

\* No apply changes what another one remembers.
LEMMA OthersUntouched ==
  ASSUME TypeOK, NEW a \in Applies, Apply(a), NEW b \in Applies, b # a
  PROVE  /\ pc'[b] = pc[b] /\ result'[b] = result[b] /\ input'[b] = input[b]
         /\ seen'[b] = seen[b] /\ path'[b] = path[b] /\ fetched'[b] = fetched[b]
         /\ tmp'[b] = tmp[b] /\ orig'[b] = orig[b]
<1> USE DEF TypeOK, Goto, Finish, shared, locals
<1>1. CASE Begin(a)
  <2>1. PICK i \in Inputs : input' = [input EXCEPT ![a] = i] /\ seen' = [seen EXCEPT ![a] = env]
    BY <1>1 DEF Begin
  <2>2. QED
    BY <1>1, <2>1 DEF Begin
<1>2. CASE BeginFails(a)
  BY <1>2 DEF BeginFails
<1>3. CASE ReadValues(a)
  BY <1>3 DEF ReadValues
<1>4. CASE ModelPresent(a)
  BY <1>4 DEF ModelPresent
<1>5. CASE ModelRejected(a)
  BY <1>5 DEF ModelRejected
<1>6. CASE Download(a)
  <2>1. PICK f \in {"ok", "corrupt"} : fetched' = [fetched EXCEPT ![a] = f]
    BY <1>6 DEF Download
  <2>2. QED
    BY <1>6, <2>1 DEF Download
<1>7. CASE DownloadFails(a)
  BY <1>7 DEF DownloadFails
<1>8. CASE InstallModel(a)
  BY <1>8 DEF InstallModel
<1>9. CASE InstallFails(a)
  BY <1>9 DEF InstallFails
<1>10. CASE ResolveFails(a)
  BY <1>10 DEF ResolveFails
<1>11. CASE NothingToWrite(a)
  BY <1>11 DEF NothingToWrite
<1>12. CASE Backup(a)
  BY <1>12 DEF Backup
<1>13. CASE Merge(a)
  <2>1. PICK f : tmp' = [tmp EXCEPT ![a] = f]
    BY <1>13 DEF Merge
  <2>2. QED
    BY <1>13, <2>1 DEF Merge
<1>14. CASE WriteFails(a)
  BY <1>14 DEF WriteFails
<1>15. CASE Replace(a)
  BY <1>15 DEF Replace
<1>16. CASE Restart(a)
  BY <1>16 DEF Restart
<1>17. CASE RestartFails(a)
  BY <1>17 DEF RestartFails
<1>18. CASE RestoreOpens(a)
  BY <1>18 DEF RestoreOpens
<1>19. CASE RestoreWrites(a)
  BY <1>19 DEF RestoreWrites
<1>20. CASE RestoreFails(a)
  BY <1>20 DEF RestoreFails
<1>21. CASE StatusRead(a)
  BY <1>21 DEF StatusRead
<1>22. CASE StatusFails(a)
  BY <1>22 DEF StatusFails
<1>23. CASE Crash(a)
  BY <1>23 DEF Crash
<1>24. QED
  BY <1>1, <1>2, <1>3, <1>4, <1>5, <1>6, <1>7, <1>8, <1>9, <1>10, <1>11, <1>12,
     <1>13, <1>14, <1>15, <1>16, <1>17, <1>18, <1>19, <1>20, <1>21, <1>22, <1>23 DEF
     Apply

\* A model that is there with the right checksum stays there.
LEMMA StoreKeeps ==
  ASSUME TypeOK, [Next]_vars, NEW m \in Supported, store[m] = "ok"
  PROVE  store'[m] = "ok"
<1>1. ASSUME NEW a \in Applies, InstallModel(a) PROVE store'[m] = "ok"
  BY <1>1 DEF InstallModel, TypeOK
<1>2. ASSUME NEW a \in Applies, Apply(a), ~InstallModel(a) PROVE store' = store
  BY <1>2 DEF Apply, shared, Begin, BeginFails, ReadValues, ModelPresent, ModelRejected,
    Download, DownloadFails, InstallFails, ResolveFails, NothingToWrite, Backup, Merge,
    WriteFails, Replace, Restart, RestartFails, RestoreOpens, RestoreWrites, RestoreFails,
    StatusRead, StatusFails, Crash
<1>3. CASE DaemonStarts \/ UNCHANGED vars
  BY <1>3 DEF DaemonStarts, vars, shared
<1>4. QED
  BY <1>1, <1>2, <1>3 DEF Next

\* What an apply knows of its model and socket depends on its own memory only,
\* and on models staying where they are.
LEMMA ChoiceFrame ==
  ASSUME TypeOK, NEW b \in Applies, Choice(b),
         pc'[b] = pc[b], input'[b] = input[b], seen'[b] = seen[b], path'[b] = path[b],
         \A m \in Supported : store[m] = "ok" => store'[m] = "ok"
  PROVE  Choice(b)'
<1>1. Wanted(b)' = Wanted(b)
  BY DEF Wanted, GetDaemonConfig, ResolveSocketPath
<1>2. QED
  BY <1>1 DEF Choice

\* The apply that moves still knows its model and its socket.
LEMMA OwnChoice ==
  ASSUME NEW a \in Applies, Apply(a),
         TypeOK, ChoiceGood, \A m \in Supported : store[m] = "ok" => store'[m] = "ok"
  PROVE  Choice(a)'
<1> USE DEF TypeOK, Goto, Finish, shared, locals, history
<1>1. CASE Begin(a)
  BY <1>1 DEF Begin, ChoiceGood, Choice
<1>2. CASE BeginFails(a)
  BY <1>2 DEF BeginFails, ChoiceGood, Choice
<1>3. CASE ReadValues(a)
  BY <1>3 DEF ReadValues, ChoiceGood, Choice
<1>4. CASE ModelPresent(a)
  BY <1>4 DEF ModelPresent, Verifies, ChoiceGood, Choice
<1>5. CASE ModelRejected(a)
  BY <1>5 DEF ModelRejected, ChoiceGood, Choice
<1>6. CASE Download(a)
  BY <1>6 DEF Download, ChoiceGood, Choice
<1>7. CASE DownloadFails(a)
  BY <1>7 DEF DownloadFails, ChoiceGood, Choice
<1>8. CASE InstallModel(a)
  BY <1>8 DEF InstallModel, ChoiceGood, Choice
<1>9. CASE InstallFails(a)
  BY <1>9 DEF InstallFails, ChoiceGood, Choice
<1>10. CASE ResolveFails(a)
  BY <1>10 DEF ResolveFails, ChoiceGood, Choice
<1>11. CASE NothingToWrite(a)
  BY <1>11 DEF NothingToWrite, ChoiceGood, Choice
<1>12. CASE Backup(a)
  <2>1. Wanted(a)' = Wanted(a)
    BY <1>12 DEF Backup, Wanted, GetDaemonConfig, ResolveSocketPath
  <2>2. QED
    BY <1>12, <2>1 DEF Backup, ChoiceGood, Choice
<1>13. CASE Merge(a)
  BY <1>13 DEF Merge, ChoiceGood, Choice
<1>14. CASE WriteFails(a)
  BY <1>14 DEF WriteFails, ChoiceGood, Choice
<1>15. CASE Replace(a)
  BY <1>15 DEF Replace, ChoiceGood, Choice
<1>16. CASE Restart(a)
  BY <1>16 DEF Restart, ChoiceGood, Choice
<1>17. CASE RestartFails(a)
  BY <1>17 DEF RestartFails, ChoiceGood, Choice
<1>18. CASE RestoreOpens(a)
  BY <1>18 DEF RestoreOpens, ChoiceGood, Choice
<1>19. CASE RestoreWrites(a)
  BY <1>19 DEF RestoreWrites, ChoiceGood, Choice
<1>20. CASE RestoreFails(a)
  BY <1>20 DEF RestoreFails, ChoiceGood, Choice
<1>21. CASE StatusRead(a)
  BY <1>21 DEF StatusRead, ChoiceGood, Choice
<1>22. CASE StatusFails(a)
  BY <1>22 DEF StatusFails, ChoiceGood, Choice
<1>23. CASE Crash(a)
  BY <1>23 DEF Crash, ChoiceGood, Choice
<1>24. QED
  BY <1>1, <1>2, <1>3, <1>4, <1>5, <1>6, <1>7, <1>8, <1>9, <1>10, <1>11, <1>12,
     <1>13, <1>14, <1>15, <1>16, <1>17, <1>18, <1>19, <1>20, <1>21, <1>22, <1>23 DEF
     Apply

\* ChoiceGood is kept by every step.
LEMMA ChoiceGoodInductive == TypeOK /\ ChoiceGood /\ [Next]_vars => ChoiceGood'
<1> SUFFICES ASSUME TypeOK, ChoiceGood, [Next]_vars, NEW b \in Applies PROVE Choice(b)'
  BY DEF ChoiceGood
<1>1. \A m \in Supported : store[m] = "ok" => store'[m] = "ok"
  BY StoreKeeps
<1>2. Choice(b)
  BY DEF ChoiceGood
<1>3. CASE Apply(b)
  BY <1>1, <1>3, OwnChoice
<1>4. ASSUME NEW a \in Applies, Apply(a), b # a PROVE Choice(b)'
  BY <1>1, <1>2, <1>4, OthersUntouched, ChoiceFrame
<1>5. CASE DaemonStarts \/ UNCHANGED vars
  <2>1. UNCHANGED <<pc, input, seen, path>>
    BY <1>5 DEF DaemonStarts, vars, locals
  <2>2. QED
    BY <1>1, <1>2, <2>1, ChoiceFrame
<1>6. QED
  BY <1>3, <1>4, <1>5 DEF Next

\* The files that an apply holds, and the one it leaves behind, name a model that
\* is there, for it has looked before it wrote.
LEMMA OwnFilesGood ==
  ASSUME NEW a \in Applies, Apply(a),
         TypeOK, ChoiceGood, FilesGood, \A m \in Supported : store[m] = "ok" => store'[m] = "ok"
  PROVE  /\ Present(env.model)' /\ Present(tmp[a].model)'
         /\ Present(orig[a].model)' /\ Present(path[a])'
<1> USE DEF TypeOK, Goto, Finish, shared, locals, history
<1>1. CASE Begin(a)
  BY <1>1, Names DEF Begin, FilesGood, Present
<1>2. CASE BeginFails(a)
  BY <1>2, Names DEF BeginFails, FilesGood, Present
<1>3. CASE ReadValues(a)
  BY <1>3, Names DEF ReadValues, FilesGood, Present
<1>4. CASE ModelPresent(a)
  BY <1>4, Names DEF ModelPresent, FilesGood, Present
<1>5. CASE ModelRejected(a)
  BY <1>5, Names DEF ModelRejected, FilesGood, Present
<1>6. CASE Download(a)
  <2>1. PICK f : fetched' = [fetched EXCEPT ![a] = f]
    BY <1>6 DEF Download
  <2>2. QED
    BY <1>6, <2>1 DEF Download, FilesGood, Present
<1>7. CASE DownloadFails(a)
  <2>1. Finish(a, "failed") /\ UNCHANGED shared
    BY <1>7 DEF DownloadFails
  <2>2. QED
    BY <2>1, Names DEF FilesGood, Present
<1>8. CASE InstallModel(a)
  <2>1. UNCHANGED <<env, locals>>
    BY <1>8 DEF InstallModel
  <2>2. \A m \in Supported \union {""} : Present(m) => Present(m)'
    BY DEF Present
  <2>3. QED
    BY <2>1, <2>2, Names DEF FilesGood, Present
<1>9. CASE InstallFails(a)
  BY <1>9, Names DEF InstallFails, FilesGood, Present
<1>10. CASE ResolveFails(a)
  BY <1>10, Names DEF ResolveFails, FilesGood, Present
<1>11. CASE NothingToWrite(a)
  BY <1>11, Names DEF NothingToWrite, FilesGood, Present
<1>12. CASE Backup(a)
  BY <1>12, Names DEF Backup, FilesGood, Present
<1>13. CASE Merge(a)
  <2>1. tmp' = [tmp EXCEPT ![a] = Merged(a)]
    BY <1>13 DEF Merge, Merged
  <2>2. Merged(a).model \in {env.model, Wanted(a).model}
    BY DEF File, Merged
  <2>3. /\ pc[a] = "merge" /\ pc' = [pc EXCEPT ![a] = "replace"]
        /\ UNCHANGED <<shared, input, seen, path, fetched, orig, history>>
    BY <1>13 DEF Merge
  <2>4. Wanted(a).model = path[a]
       \/ (Wanted(a).model \in Supported /\ store[Wanted(a).model] = "ok")
    BY <2>3 DEF ChoiceGood, Choice, Wanted
  <2>5. Present(Merged(a).model)
    BY <2>2, <2>4 DEF FilesGood, Present
  <2>6. QED
    BY <2>1, <2>3, <2>5 DEF FilesGood, Present
<1>14. CASE WriteFails(a)
  BY <1>14, Names DEF WriteFails, FilesGood, Present
<1>15. CASE Replace(a)
  BY <1>15, Names DEF Replace, FilesGood, Present
<1>16. CASE Restart(a)
  BY <1>16, Names DEF Restart, FilesGood, Present
<1>17. CASE RestartFails(a)
  BY <1>17, Names DEF RestartFails, FilesGood, Present
<1>18. CASE RestoreOpens(a)
  BY <1>18, Names DEF RestoreOpens, FilesGood, Present
<1>19. CASE RestoreWrites(a)
  <2>1. env'.model \in {env.model, orig[a].model}
    <3>1. CASE a \notin opened
      BY <1>19, <3>1 DEF RestoreWrites
    <3>2. CASE a \in opened
      <4>1. PICK left : env' = [k \in DOMAIN env |-> IF k \in left THEN env[k] ELSE orig[a][k]]
        BY <1>19, <3>2 DEF RestoreWrites
      <4>2. "model" \in DOMAIN env
        BY DEF File
      <4>3. QED
        BY <4>1, <4>2
    <3>3. QED
      BY <3>1, <3>2
  <2>2. Finish(a, "failed") /\ store' = store
    BY <1>19 DEF RestoreWrites
  <2>3. Present(env.model)'
    <3>1. Present(env.model) /\ Present(orig[a].model)
      BY DEF FilesGood
    <3>2. QED
      BY <2>1, <2>2, <3>1 DEF Present
  <2>4. Present(tmp[a].model)' /\ Present(orig[a].model)' /\ Present(path[a])'
    BY <2>2, Names DEF Present
  <2>5. QED
    BY <2>3, <2>4
<1>20. CASE RestoreFails(a)
  BY <1>20, Names DEF RestoreFails, FilesGood, Present
<1>21. CASE StatusRead(a)
  BY <1>21, Names DEF StatusRead, FilesGood, Present
<1>22. CASE StatusFails(a)
  BY <1>22, Names DEF StatusFails, FilesGood, Present
<1>23. CASE Crash(a)
  BY <1>23, Names DEF Crash, FilesGood, Present
<1>24. QED
  BY <1>1, <1>2, <1>3, <1>4, <1>5, <1>6, <1>7, <1>8, <1>9, <1>10, <1>11, <1>12,
     <1>13, <1>14, <1>15, <1>16, <1>17, <1>18, <1>19, <1>20, <1>21, <1>22, <1>23 DEF
     Apply

\* FilesGood is kept by every step.
LEMMA FilesGoodInductive == TypeOK /\ ChoiceGood /\ FilesGood /\ [Next]_vars => FilesGood'
<1> SUFFICES ASSUME TypeOK, ChoiceGood, FilesGood, [Next]_vars PROVE FilesGood'
  OBVIOUS
<1>1. \A m \in Supported : store[m] = "ok" => store'[m] = "ok"
  BY StoreKeeps
<1>2. ASSUME NEW a \in Applies, Apply(a) PROVE FilesGood'
  <2>1. /\ Present(env.model)' /\ Present(tmp[a].model)'
        /\ Present(orig[a].model)' /\ Present(path[a])'
    BY <1>1, <1>2, OwnFilesGood
  <2>2. ASSUME NEW b \in Applies, b # a
        PROVE  Present(tmp[b].model)' /\ Present(orig[b].model)' /\ Present(path[b])'
    <3>1. tmp'[b] = tmp[b] /\ orig'[b] = orig[b] /\ path'[b] = path[b]
      BY <1>2, <2>2, OthersUntouched
    <3>2. {tmp[b].model, orig[b].model, path[b]} \subseteq Supported \union {""}
      BY Names DEF TypeOK
    <3>3. QED
      BY <1>1, <3>1, <3>2 DEF FilesGood, Present
  <2>3. QED
    BY <2>1, <2>2 DEF FilesGood
<1>3. CASE DaemonStarts \/ UNCHANGED vars
  BY <1>3 DEF DaemonStarts, vars, shared, locals, FilesGood, Present
<1>4. QED
  BY <1>2, <1>3 DEF Next

\* Once disturbed, always disturbed.
LEMMA StaysDisturbed ==
  ASSUME NEW a \in Applies, Apply(a), disturbed
  PROVE  disturbed'
BY DEF Apply, shared, history, Begin, BeginFails, ReadValues, ModelPresent, ModelRejected,
   Download, DownloadFails, InstallModel, InstallFails, ResolveFails, NothingToWrite, Backup,
   Merge, WriteFails, Replace, Restart, RestartFails, RestoreOpens, RestoreWrites,
   RestoreFails, StatusRead, StatusFails, Crash

\* Of one step, as long as nothing has been disturbed.
LEMMA OwnCalm ==
  ASSUME NEW a \in Applies, Apply(a), TypeOK, ChoiceGood, Calm, ~disturbed'
  PROVE  /\ env.model # "" /\ env'.model # ""
         /\ pc'[a] \notin {"restore", "rewrite"}
         /\ pc'[a] \in {"model", "downloaded", "decide", "merge"} => path'[a] # ""
         /\ pc'[a] = "replace" => tmp'[a].model # ""
         /\ (pc'[a] # "restart" /\ (pc[a] # "restart" => loaded = env)) => loaded' = env'
<1> USE DEF TypeOK, Calm, Goto, Finish, shared, locals, history
<1>1. CASE Begin(a)
  BY <1>1 DEF Begin
<1>2. CASE BeginFails(a)
  BY <1>2 DEF BeginFails
<1>3. CASE ReadValues(a)
  BY <1>3 DEF ReadValues
<1>4. CASE ModelPresent(a)
  BY <1>4 DEF ModelPresent
<1>5. CASE ModelRejected(a)
  BY <1>5 DEF ModelRejected
<1>6. CASE Download(a)
  BY <1>6 DEF Download
<1>7. CASE DownloadFails(a)
  BY <1>7 DEF DownloadFails
<1>8. CASE InstallModel(a)
  BY <1>8 DEF InstallModel
<1>9. CASE InstallFails(a)
  BY <1>9 DEF InstallFails
<1>10. CASE ResolveFails(a)
  BY <1>10 DEF ResolveFails
<1>11. CASE NothingToWrite(a)
  BY <1>11 DEF NothingToWrite
<1>12. CASE Backup(a)
  BY <1>12 DEF Backup
<1>13. CASE Merge(a)
  <2>1. tmp' = [tmp EXCEPT ![a] = Merged(a)]
    BY <1>13 DEF Merge, Merged
  <2>2. Merged(a).model \in {env.model, Wanted(a).model}
    BY DEF File, Merged
  <2>3. /\ pc[a] = "merge" /\ pc' = [pc EXCEPT ![a] = "replace"]
        /\ UNCHANGED <<shared, input, seen, path, fetched, orig, history>>
    BY <1>13 DEF Merge
  <2>4. Wanted(a).model # ""
    BY <2>3 DEF ChoiceGood, Choice, Wanted, Supported
  <2>5. QED
    BY <2>1, <2>2, <2>3, <2>4
<1>14. CASE WriteFails(a)
  BY <1>14 DEF WriteFails
<1>15. CASE Replace(a)
  BY <1>15 DEF Replace
<1>16. CASE Restart(a)
  BY <1>16 DEF Restart
<1>17. CASE RestartFails(a)
  BY <1>17 DEF RestartFails
<1>18. CASE RestoreOpens(a)
  BY <1>18 DEF RestoreOpens
<1>19. CASE RestoreWrites(a)
  BY <1>19 DEF RestoreWrites
<1>20. CASE RestoreFails(a)
  BY <1>20 DEF RestoreFails
<1>21. CASE StatusRead(a)
  BY <1>21 DEF StatusRead
<1>22. CASE StatusFails(a)
  BY <1>22 DEF StatusFails
<1>23. CASE Crash(a)
  BY <1>23 DEF Crash
<1>24. QED
  BY <1>1, <1>2, <1>3, <1>4, <1>5, <1>6, <1>7, <1>8, <1>9, <1>10, <1>11, <1>12,
     <1>13, <1>14, <1>15, <1>16, <1>17, <1>18, <1>19, <1>20, <1>21, <1>22, <1>23 DEF
     Apply

\* Calm is kept by every step.
LEMMA CalmInductive == TypeOK /\ ChoiceGood /\ Calm /\ [Next]_vars => Calm'
<1> SUFFICES ASSUME TypeOK, ChoiceGood, Calm, [Next]_vars, ~disturbed' PROVE Calm'
  BY DEF Calm
<1>1. ASSUME NEW a \in Applies, Apply(a) PROVE Calm'
  <2>1. ASSUME NEW b \in Applies, b # a
        PROVE  pc'[b] = pc[b] /\ path'[b] = path[b] /\ tmp'[b] = tmp[b]
    BY <1>1, <2>1, OthersUntouched
  <2>2. ~disturbed
    BY <1>1, StaysDisturbed
  <2>3. /\ env'.model # ""
        /\ pc'[a] \notin {"restore", "rewrite"}
        /\ pc'[a] \in {"model", "downloaded", "decide", "merge"} => path'[a] # ""
        /\ pc'[a] = "replace" => tmp'[a].model # ""
        /\ (pc'[a] # "restart" /\ (pc[a] # "restart" => loaded = env)) => loaded' = env'
    BY <1>1, OwnCalm
  <2>4. ASSUME \A b \in Applies : pc'[b] # "restart" PROVE loaded' = env'
    BY <2>1, <2>2, <2>3, <2>4 DEF Calm
  <2>5. QED
    BY <2>1, <2>2, <2>3, <2>4 DEF Calm
<1>2. CASE DaemonStarts \/ UNCHANGED vars
  BY <1>2 DEF DaemonStarts, vars, shared, locals, history, Calm
<1>3. QED
  BY <1>1, <1>2 DEF Next

\* The apply that moves knows the file, if it has it to itself.
LEMMA OwnKnows ==
  ASSUME NEW a \in Applies, Apply(a), TypeOK, AloneKnows
  PROVE  Knows(a)'
<1> USE DEF TypeOK, Writes, Goto, Finish, shared, locals, history
<1>1. CASE Begin(a)
  <2>1. PICK i \in Inputs : input' = [input EXCEPT ![a] = i] /\ seen' = [seen EXCEPT ![a] = env]
    BY <1>1 DEF Begin
  <2>2. QED
    BY <1>1, <2>1 DEF Begin, AloneKnows, Knows
<1>2. CASE BeginFails(a)
  BY <1>2 DEF BeginFails, AloneKnows, Knows
<1>3. CASE ReadValues(a)
  BY <1>3 DEF ReadValues, AloneKnows, Knows
<1>4. CASE ModelPresent(a)
  BY <1>4 DEF ModelPresent, AloneKnows, Knows
<1>5. CASE ModelRejected(a)
  BY <1>5 DEF ModelRejected, AloneKnows, Knows
<1>6. CASE Download(a)
  <2>1. PICK f : fetched' = [fetched EXCEPT ![a] = f]
    BY <1>6 DEF Download
  <2>2. QED
    BY <1>6, <2>1 DEF Download, AloneKnows, Knows
<1>7. CASE DownloadFails(a)
  BY <1>7 DEF DownloadFails, AloneKnows, Knows
<1>8. CASE InstallModel(a)
  BY <1>8 DEF InstallModel, AloneKnows, Knows
<1>9. CASE InstallFails(a)
  BY <1>9 DEF InstallFails, AloneKnows, Knows
<1>10. CASE ResolveFails(a)
  BY <1>10 DEF ResolveFails, AloneKnows, Knows
<1>11. CASE NothingToWrite(a)
  BY <1>11 DEF NothingToWrite, AloneKnows, Knows
<1>12. CASE Backup(a)
  BY <1>12 DEF Backup, AloneKnows, Knows
<1>13. CASE Merge(a)
  BY <1>13 DEF Merge, AloneKnows, Knows
<1>14. CASE WriteFails(a)
  BY <1>14 DEF WriteFails, AloneKnows, Knows
<1>15. CASE Replace(a)
  BY <1>15 DEF Replace, AloneKnows, Knows
<1>16. CASE Restart(a)
  BY <1>16 DEF Restart, AloneKnows, Knows
<1>17. CASE RestartFails(a)
  BY <1>17 DEF RestartFails, AloneKnows, Knows
<1>18. CASE RestoreOpens(a)
  BY <1>18 DEF RestoreOpens, AloneKnows, Knows
<1>19. CASE RestoreWrites(a)
  <2>1. pc'[a] = "done"
    BY <1>19 DEF RestoreWrites
  <2>2. QED
    BY <2>1 DEF Knows
<1>20. CASE RestoreFails(a)
  BY <1>20 DEF RestoreFails, AloneKnows, Knows
<1>21. CASE StatusRead(a)
  BY <1>21 DEF StatusRead, AloneKnows, Knows
<1>22. CASE StatusFails(a)
  BY <1>22 DEF StatusFails, AloneKnows, Knows
<1>23. CASE Crash(a)
  BY <1>23 DEF Crash, AloneKnows, Knows
<1>24. QED
  BY <1>1, <1>2, <1>3, <1>4, <1>5, <1>6, <1>7, <1>8, <1>9, <1>10, <1>11, <1>12,
     <1>13, <1>14, <1>15, <1>16, <1>17, <1>18, <1>19, <1>20, <1>21, <1>22, <1>23 DEF
     Apply

\* Another apply knows the file too, or is no longer alone.
LEMMA OthersKnow ==
  ASSUME NEW a \in Applies, Apply(a), TypeOK, NEW b \in Applies, Knows(b)
  PROVE  a # b => Knows(b)'
<1> USE DEF TypeOK, Writes, Knows, Goto, Finish, shared, locals, history
<1>1. CASE Begin(a)
  <2>1. PICK i \in Inputs : input' = [input EXCEPT ![a] = i] /\ seen' = [seen EXCEPT ![a] = env]
    BY <1>1 DEF Begin
  <2>2. QED
    BY <1>1, <2>1 DEF Begin
<1>2. CASE BeginFails(a)
  BY <1>2 DEF BeginFails
<1>3. CASE ReadValues(a)
  BY <1>3 DEF ReadValues
<1>4. CASE ModelPresent(a)
  BY <1>4 DEF ModelPresent
<1>5. CASE ModelRejected(a)
  BY <1>5 DEF ModelRejected
<1>6. CASE Download(a)
  <2>1. PICK f : fetched' = [fetched EXCEPT ![a] = f]
    BY <1>6 DEF Download
  <2>2. QED
    BY <1>6, <2>1 DEF Download
<1>7. CASE DownloadFails(a)
  BY <1>7 DEF DownloadFails
<1>8. CASE InstallModel(a)
  BY <1>8 DEF InstallModel
<1>9. CASE InstallFails(a)
  BY <1>9 DEF InstallFails
<1>10. CASE ResolveFails(a)
  BY <1>10 DEF ResolveFails
<1>11. CASE NothingToWrite(a)
  BY <1>11 DEF NothingToWrite
<1>12. CASE Backup(a)
  BY <1>12 DEF Backup
<1>13. CASE Merge(a)
  <2>1. PICK f : tmp' = [tmp EXCEPT ![a] = f]
    BY <1>13 DEF Merge
  <2>2. QED
    BY <1>13, <2>1 DEF Merge
<1>14. CASE WriteFails(a)
  BY <1>14 DEF WriteFails
<1>15. CASE Replace(a)
  BY <1>15 DEF Replace
<1>16. CASE Restart(a)
  BY <1>16 DEF Restart
<1>17. CASE RestartFails(a)
  BY <1>17 DEF RestartFails
<1>18. CASE RestoreOpens(a)
  BY <1>18 DEF RestoreOpens
<1>19. CASE RestoreWrites(a)
  <2>1. Finish(a, "failed") /\ opened' = opened \ {a} /\ loaded' = loaded
    BY <1>19 DEF RestoreWrites
  <2>2. UNCHANGED <<env, alone>> \/ Writes(a)
    BY <1>19 DEF RestoreWrites
  <2>3. CASE UNCHANGED <<env, alone>>
    BY <2>1, <2>3
  <2>4. CASE Writes(a)
    BY <2>1, <2>4
  <2>5. QED
    BY <2>2, <2>3, <2>4
<1>20. CASE RestoreFails(a)
  BY <1>20 DEF RestoreFails
<1>21. CASE StatusRead(a)
  BY <1>21 DEF StatusRead
<1>22. CASE StatusFails(a)
  BY <1>22 DEF StatusFails
<1>23. CASE Crash(a)
  BY <1>23 DEF Crash
<1>24. QED
  BY <1>1, <1>2, <1>3, <1>4, <1>5, <1>6, <1>7, <1>8, <1>9, <1>10, <1>11, <1>12,
     <1>13, <1>14, <1>15, <1>16, <1>17, <1>18, <1>19, <1>20, <1>21, <1>22, <1>23 DEF
     Apply

\* AloneKnows is kept by every step.
LEMMA AloneKnowsInductive == TypeOK /\ AloneKnows /\ [Next]_vars => AloneKnows'
<1> SUFFICES ASSUME TypeOK, AloneKnows, [Next]_vars, NEW b \in Applies PROVE Knows(b)'
  BY DEF AloneKnows
<1>1. Knows(b)
  BY DEF AloneKnows
<1>2. CASE Apply(b)
  BY <1>2, OwnKnows
<1>3. ASSUME NEW a \in Applies, Apply(a), b # a PROVE Knows(b)'
  BY <1>1, <1>3, OthersKnow
<1>4. CASE DaemonStarts \/ UNCHANGED vars
  BY <1>1, <1>4 DEF DaemonStarts, vars, shared, locals, history, Knows
<1>5. QED
  BY <1>2, <1>3, <1>4 DEF Next

\* The invariant holds as the first apply begins.
LEMMA InitIInv == Init => IInv
<1> SUFFICES ASSUME Init PROVE IInv
  OBVIOUS
<1>0. PICK s \in {"absent", "ok", "corrupt"} : store = [base |-> "ok", tiny |-> s]
  BY DEF Init
<1>1. env \in File /\ env.model = "base" /\ "base" \in Supported /\ store["base"] = "ok"
  <2>1. env \in {f \in File : f.model = "base"}
    BY InstalledAssumption DEF Init
  <2>2. QED
    BY <1>0, <2>1 DEF Supported
<1>2. TypeOK
  <2>1. store \in [Supported -> {"absent", "ok", "corrupt"}]
    BY <1>0 DEF Supported
  <2>2. QED
    BY <1>1, <2>1, Names DEF Init, TypeOK
<1>3. FilesGood
  BY <1>1, Names DEF Init, FilesGood, Present
<1>4. ChoiceGood
  BY DEF Init, ChoiceGood, Choice
<1>5. Calm
  BY <1>1 DEF Init, Calm
<1>6. AloneKnows
  BY DEF Init, AloneKnows, Knows
<1>7. QED
  BY <1>2, <1>3, <1>4, <1>5, <1>6 DEF IInv

\* IInv is an invariant of the specification.
THEOREM Invariance == Spec => []IInv
<1>1. IInv /\ [Next]_vars => IInv'
  BY TypeInductive, FilesGoodInductive, ChoiceGoodInductive, CalmInductive,
     AloneKnowsInductive DEF IInv
<1>2. QED
  BY InitIInv, <1>1, PTL DEF Spec

\* Whatever the applies do and however they fail, the model that the
\* environment file names is there with the right checksum.
THEOREM ModelStaysThere == Spec => []EnvPointsToModel
<1>1. IInv => EnvPointsToModel
  BY DEF IInv, FilesGood, Present, EnvPointsToModel
<1>2. QED
  BY Invariance, <1>1, PTL

\* Two readers agree: where sttdctl looks for a daemon, the daemon that is
\* started with the same file listens, if its model is there.
LEMMA ReadersAgree ==
  ASSUME NEW f \in File, f.model # "", store[f.model] = "ok", Dialled(f) # "nowhere"
  PROVE  ListensAt(f) = Dialled(f)
<1>1. f.control = "true" /\ f.socket # "rel"
  BY DEF Dialled, GetDaemonConfig, ResolveSocketPath
<1>2. ~Refuses(f) /\ ControlEnabled(f)
  BY <1>1 DEF Refuses, ControlEnabled
<1>3. Dialled(f) = ResolveSocketPath(f.socket, TRUE)
  BY <1>1 DEF Dialled, GetDaemonConfig, ResolveSocketPath, File, Socket
<1>4. QED
  BY <1>2, <1>3 DEF ListensAt

\* Undisturbed, and with no restart due, the daemon runs the file and listens
\* where sttdctl dials.
THEOREM ServiceFollows == Spec => []ServiceRunsTheFile
<1>1. IInv => ServiceRunsTheFile
  BY ReadersAgree DEF IInv, TypeOK, FilesGood, Present, Calm, ServiceRunsTheFile
<1>2. QED
  BY Invariance, <1>1, PTL

\* An apply that fails, and that had the file to itself, leaves the file it read.
LEMMA FailsRestored ==
  ASSUME NEW a \in Applies, Apply(a),
         TypeOK, AloneKnows, pc[a] # "done", result'[a] = "failed", alone'[a]
  PROVE  \/ pc[a] = "begin" \/ env' = seen[a]
         \/ pc[a] = "status" /\ loaded' = env'
<1> USE DEF TypeOK, AloneKnows, Knows, Writes, Goto, Finish, shared, locals, history
<1>1. CASE Begin(a)
  BY <1>1 DEF Begin
<1>2. CASE BeginFails(a)
  BY <1>2 DEF BeginFails
<1>3. CASE ReadValues(a)
  BY <1>3 DEF ReadValues
<1>4. CASE ModelPresent(a)
  BY <1>4 DEF ModelPresent
<1>5. CASE ModelRejected(a)
  BY <1>5 DEF ModelRejected
<1>6. CASE Download(a)
  BY <1>6 DEF Download
<1>7. CASE DownloadFails(a)
  BY <1>7 DEF DownloadFails
<1>8. CASE InstallModel(a)
  BY <1>8 DEF InstallModel
<1>9. CASE InstallFails(a)
  BY <1>9 DEF InstallFails
<1>10. CASE ResolveFails(a)
  BY <1>10 DEF ResolveFails
<1>11. CASE NothingToWrite(a)
  BY <1>11 DEF NothingToWrite
<1>12. CASE Backup(a)
  BY <1>12 DEF Backup
<1>13. CASE Merge(a)
  BY <1>13 DEF Merge
<1>14. CASE WriteFails(a)
  BY <1>14 DEF WriteFails
<1>15. CASE Replace(a)
  BY <1>15 DEF Replace
<1>16. CASE Restart(a)
  BY <1>16 DEF Restart
<1>17. CASE RestartFails(a)
  BY <1>17 DEF RestartFails
<1>18. CASE RestoreOpens(a)
  BY <1>18 DEF RestoreOpens
<1>19. CASE RestoreWrites(a)
  <2>1. alone[a] /\ pc[a] = "rewrite"
    BY <1>19 DEF RestoreWrites
  <2>2. env = EmptyFile /\ a \in opened /\ orig[a] = seen[a] /\ orig[a] \in File
    BY <2>1
  <2>3. PICK left \in SUBSET {k \in DOMAIN env : env[k] # EmptyFile[k]} :
          env' = [k \in DOMAIN env |-> IF k \in left THEN env[k] ELSE orig[a][k]]
    BY <1>19, <2>2 DEF RestoreWrites
  <2>4. left = {}
    BY <2>2
  <2>5. DOMAIN env = DOMAIN orig[a]
    BY <2>2 DEF EmptyFile, File
  <2>6. env' = orig[a]
    <3>1. env' = [k \in DOMAIN orig[a] |-> orig[a][k]]
      BY <2>3, <2>4, <2>5
    <3>2. orig[a] = [k \in DOMAIN orig[a] |-> orig[a][k]]
      BY <2>2 DEF File
    <3>3. QED
      BY <3>1, <3>2
  <2>7. QED
    BY <2>2, <2>6
<1>20. CASE RestoreFails(a)
  BY <1>20 DEF RestoreFails
<1>21. CASE StatusRead(a)
  BY <1>21 DEF StatusRead
<1>22. CASE StatusFails(a)
  BY <1>22 DEF StatusFails
<1>23. CASE Crash(a)
  BY <1>23 DEF Crash
<1>24. QED
  BY <1>1, <1>2, <1>3, <1>4, <1>5, <1>6, <1>7, <1>8, <1>9, <1>10, <1>11, <1>12,
     <1>13, <1>14, <1>15, <1>16, <1>17, <1>18, <1>19, <1>20, <1>21, <1>22, <1>23 DEF
     Apply

\* An apply that reports an error, and had the file to itself, has put the file
\* back, unless all that failed was reading the status.
THEOREM FailureRestores == Spec => FailedApplyRestores
<1> DEFINE Restored ==
      \A a \in Applies :
         (pc[a] # "done" /\ result'[a] = "failed" /\ alone'[a]) =>
             \/ pc[a] = "begin" \/ env' = seen[a]
             \/ pc[a] = "status" /\ loaded' = env'
<1>1. ASSUME IInv, Next PROVE Restored
  <2> SUFFICES ASSUME NEW b \in Applies, pc[b] # "done", result'[b] = "failed", alone'[b]
               PROVE  \/ pc[b] = "begin" \/ env' = seen[b]
                      \/ pc[b] = "status" /\ loaded' = env'
    OBVIOUS
  <2>1. result[b] = "none"
    BY <1>1 DEF IInv, AloneKnows, Knows
  <2>2. CASE DaemonStarts
    BY <2>1, <2>2 DEF DaemonStarts
  <2>3. CASE Apply(b)
    BY <1>1, <2>3, FailsRestored DEF IInv
  <2>4. ASSUME NEW a \in Applies, Apply(a), a # b PROVE FALSE
    BY <1>1, <2>1, <2>4, OthersUntouched DEF IInv
  <2>5. QED
    BY <1>1, <2>2, <2>3, <2>4 DEF Next
<1>2. IInv /\ [Next]_vars => [Restored]_vars
  BY <1>1
<1>3. QED
  BY Invariance, <1>2, PTL DEF Spec, FailedApplyRestores

=============================================================================

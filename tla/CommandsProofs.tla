--------------------------- MODULE CommandsProofs ---------------------------
(***************************************************************************)
(* Theorems about an installation, for any configuration files, any days   *)
(* that may be announced and any number of commands and starts.            *)
(***************************************************************************)
EXTENDS Commands, TLAPS

(***************************************************************************)
(* A job that delivers has a message to deliver: the type invariant alone  *)
(* lets a job of any kind carry a command.                                 *)
(***************************************************************************)
Delivers(job) == job.at = "deliver" => job.what \in Messages

Typed ==
    /\ CommandsTypeOK
    /\ Delivers(turn) /\ Delivers(request) /\ Delivers(command)

\* What `Job' builds is a job.
LEMMA JobIsTyped ==
  ASSUME NEW at, NEW what,
         at \in {"idle", "connect", "waiting", "evaluate", "deliver", "done", "off", "sleep"},
         what \in Messages \cup Actions \cup {None}
  PROVE  /\ Job(at, what) \in Jobs
         /\ Job(at, what).at = at /\ Job(at, what).what = what
BY DEF Job, Jobs

LEMMA IdleIsTyped == Idle \in Jobs /\ Idle.at = "idle"
BY DEF Idle, Jobs

\* run_once ends, or it has a day to announce.
LEMMA JudgedIsTyped ==
  ASSUME CommandsTypeOK, NEW p \in Procs, NEW j \in Judged(p)
  PROVE  j \in Jobs /\ Delivers(j) /\ j.at \in {"idle", "deliver"}
<1>1. CASE j = Idle
  BY <1>1, IdleIsTyped DEF Delivers
<1>2. ASSUME NEW s \in {spike} \ ({None} \cup memory[p]), j = Job("deliver", s)
      PROVE  j \in Jobs /\ Delivers(j) /\ j.at \in {"idle", "deliver"}
  <2>1. s \in Messages
    BY DEF CommandsTypeOK, Messages
  <2> QED
    BY <1>2, <2>1, JobIsTyped DEF Delivers
<1> QED
  BY <1>1, <1>2 DEF Judged

\* A message that is recorded, or lost, leaves the memories and the file with
\* messages only.
LEMMA RecordedIsTyped ==
  ASSUME CommandsTypeOK, NEW p \in Procs, NEW m \in Messages, Recorded(p, m) \/ Nothing
  PROVE  /\ memory' \in [Procs -> SUBSET Messages]
         /\ disk' \subseteq Messages /\ said' \subseteq Messages
BY DEF CommandsTypeOK, Recorded, Nothing

LEMMA TypedInit == CommandsInit => Typed
<1> SUFFICES ASSUME CommandsInit PROVE Typed
  OBVIOUS
<1> USE CommandsAssumption DEF CommandsInit
<1>1. turn \in Jobs /\ turn.at = "off"
  BY JobIsTyped
<1>2. request \in Jobs /\ command \in Jobs /\ request.at = "idle" /\ command.at = "idle"
  BY IdleIsTyped
<1>3. memory \in [Procs -> SUBSET Messages]
  OBVIOUS
<1>4. turn.at # "off" => Alive
  BY <1>1
<1>5. runs \in 0 .. MaxRuns /\ boots \in 0 .. MaxBoots
  OBVIOUS
<1>6. CommandsTypeOK
  <2> HIDE CommandsAssumption
  <2> QED
    BY <1>1, <1>2, <1>3, <1>4, <1>5 DEF CommandsTypeOK
<1> QED
  BY <1>1, <1>2, <1>6 DEF Typed, Delivers

\* Where the command goes to act by itself.
LEMMA ActAloneIsTyped ==
  ASSUME Typed, NEW c, NEW alongside \in BOOLEAN, ActAlone(c, alongside)
  PROVE  /\ command' \in Jobs /\ Delivers(command)'
         /\ memory' \in [Procs -> SUBSET Messages] /\ beside' \in BOOLEAN
<1> USE DEF Typed, CommandsTypeOK, ActAlone
<1>1. CASE Builds(file)
  <2>1. Job("evaluate", None) \in Jobs /\ Job("evaluate", None).at = "evaluate"
    BY JobIsTyped
  <2>2. /\ Job("deliver", TestMessage) \in Jobs
        /\ Job("deliver", TestMessage).what = TestMessage
    BY JobIsTyped DEF Messages
  <2>3. command' \in Jobs /\ Delivers(command)'
    BY <1>1, <2>1, <2>2 DEF FirstJob, Delivers, Messages
  <2>4. memory' \in [Procs -> SUBSET Messages] /\ beside' \in BOOLEAN
    BY <1>1 DEF Restored
  <2> QED
    BY <2>3, <2>4
<1>2. CASE ~Builds(file)
  BY <1>2, IdleIsTyped DEF Delivers
<1> QED
  BY <1>1, <1>2

\* The steps of the server's life.
LEMMA ServerIsTyped ==
  ASSUME Typed, Boot \/ Open \/ Close \/ StopScheduler \/ Drained \/ Killed
  PROVE  Typed'
<1> USE DEF Typed, CommandsTypeOK
<1>1. CASE Boot
  <2>1. memory' \in [Procs -> SUBSET Messages] /\ beside' \in BOOLEAN
    BY <1>1 DEF Boot, Restored
  <2>2. turn.at = "off" /\ request = Idle
    BY <1>1 DEF Boot, Alive
  <2>3. boots' \in 0 .. MaxBoots
    BY <1>1, CommandsAssumption DEF Boot
  <2> QED
    BY <1>1, <2>1, <2>2, <2>3 DEF Boot, Delivers
<1>2. CASE Open
  <2>1. turn' \in Jobs /\ turn'.at \in {"off", "sleep"}
    BY <1>2, JobIsTyped DEF Open
  <2>2. Alive'
    BY <1>2 DEF Open, Alive
  <2> QED
    BY <1>2, <2>1, <2>2 DEF Open, Delivers
<1>3. CASE Close
  BY <1>3 DEF Close, Delivers, Alive
<1>4. CASE StopScheduler
  <2>1. turn' \in Jobs /\ turn'.at = "off"
    BY <1>4, JobIsTyped DEF StopScheduler
  <2> QED
    BY <1>4, <2>1 DEF StopScheduler, Delivers
<1>5. CASE Drained
  BY <1>5 DEF Drained, Delivers, Alive
<1>6. CASE Killed
  <2>1. turn' \in Jobs /\ turn'.at = "off" /\ request' \in Jobs /\ request'.at = "idle"
    BY <1>6, JobIsTyped, IdleIsTyped DEF Killed
  <2> QED
    BY <1>6, <2>1 DEF Killed, Delivers
<1> QED
  BY <1>1, <1>2, <1>3, <1>4, <1>5, <1>6

\* What the server does while it is open: the detector, a request, an alert.
LEMMA WorkIsTyped ==
  ASSUME Typed,
         \/ Wake \/ TurnEvaluates \/ TurnDelivers \/ SendAlert
         \/ RequestEvaluates \/ RequestDelivers \/ Unheard
  PROVE  Typed'
<1> USE DEF Typed
<1>1. CASE Wake
  <2>1. turn' \in Jobs /\ turn'.at = "evaluate"
    BY <1>1, JobIsTyped DEF Wake
  <2> QED
    BY <1>1, <2>1 DEF Wake, CommandsTypeOK, Delivers, Alive
<1>2. CASE TurnEvaluates
  <2>1. turn' \in Jobs /\ Delivers(turn)'
    <3>1. PICK j \in Judged("server") : turn' = IF j = Idle THEN Sleeps(turn) ELSE j
      BY <1>2 DEF TurnEvaluates
    <3>2. j \in Jobs /\ Delivers(j)
      BY JudgedIsTyped DEF Procs
    <3>3. Job("sleep", None) \in Jobs /\ Job("sleep", None).at = "sleep"
      BY JobIsTyped
    <3> QED
      BY <3>1, <3>2, <3>3 DEF Sleeps, Delivers
  <2> QED
    BY <1>2, <2>1 DEF TurnEvaluates, CommandsTypeOK, Delivers, Alive
<1>3. CASE TurnDelivers
  <2>1. turn.what \in Messages
    BY <1>3 DEF TurnDelivers, Delivers
  <2>2. /\ memory' \in [Procs -> SUBSET Messages]
        /\ disk' \subseteq Messages /\ said' \subseteq Messages
    BY <1>3, <2>1, RecordedIsTyped DEF TurnDelivers, Procs
  <2>3. turn' \in Jobs /\ turn'.at = "sleep"
    BY <1>3, JobIsTyped DEF TurnDelivers, Sleeps
  <2> QED
    BY <1>3, <2>2, <2>3 DEF TurnDelivers, CommandsTypeOK, Delivers, Alive
<1>4. CASE SendAlert
  <2>1. /\ memory' \in [Procs -> SUBSET Messages]
        /\ disk' \subseteq Messages /\ said' \subseteq Messages
    BY <1>4, RecordedIsTyped DEF SendAlert, Procs, Messages
  <2> QED
    BY <1>4, <2>1 DEF SendAlert, CommandsTypeOK, Delivers, Alive
<1>5. CASE RequestEvaluates
  <2>1. request' \in Jobs /\ Delivers(request)'
    <3>1. PICK j \in Judged("server") : request' = IF j = Idle THEN Job("done", None) ELSE j
      BY <1>5 DEF RequestEvaluates
    <3>2. j \in Jobs /\ Delivers(j)
      BY JudgedIsTyped DEF Procs
    <3>3. Job("done", None) \in Jobs /\ Job("done", None).at = "done"
      BY JobIsTyped
    <3> QED
      BY <3>1, <3>2, <3>3 DEF Delivers
  <2> QED
    BY <1>5, <2>1 DEF RequestEvaluates, CommandsTypeOK, Delivers, Alive
<1>6. CASE RequestDelivers
  <2>1. request.what \in Messages
    BY <1>6 DEF RequestDelivers, Delivers
  <2>2. /\ memory' \in [Procs -> SUBSET Messages]
        /\ disk' \subseteq Messages /\ said' \subseteq Messages
    BY <1>6, <2>1, RecordedIsTyped DEF RequestDelivers, Procs
  <2>3. request' \in Jobs /\ request'.at = "done"
    BY <1>6, JobIsTyped DEF RequestDelivers
  <2> QED
    BY <1>6, <2>2, <2>3 DEF RequestDelivers, CommandsTypeOK, Delivers, Alive
<1>7. CASE Unheard
  <2>1. request' = Idle /\ request' \in Jobs /\ request'.at = "idle"
    BY <1>7, IdleIsTyped DEF Unheard
  <2> QED
    BY <1>7, <2>1 DEF Unheard, CommandsTypeOK, Delivers, Alive, Idle
<1> QED
  BY <1>1, <1>2, <1>3, <1>4, <1>5, <1>6, <1>7

\* The steps of the command.
LEMMA CommandIsTyped ==
  ASSUME Typed,
         \/ \E c \in Actions : Give(c)
         \/ Connect \/ ConnectError \/ ErrorStatus \/ NoAnswer \/ Answered
         \/ CommandEvaluates \/ CommandDelivers
  PROVE  Typed'
<1> USE DEF Typed
<1>1. ASSUME NEW c \in Actions, Give(c) PROVE Typed'
  <2>1. command' \in Jobs /\ command'.at \in {"idle", "connect"}
    BY <1>1, JobIsTyped, IdleIsTyped DEF Give
  <2>2. runs' \in 0 .. MaxRuns
    BY <1>1, CommandsAssumption DEF Give, CommandsTypeOK
  <2> QED
    BY <1>1, <2>1, <2>2 DEF Give, CommandsTypeOK, Delivers, Alive
<1>2. CASE Connect
  <2>1. command' \in Jobs /\ command'.at = "waiting"
    BY <1>2, JobIsTyped DEF Connect, CommandsTypeOK, Jobs
  <2>2. request' \in Jobs /\ Delivers(request)'
    <3>1. Job("evaluate", None) \in Jobs /\ Job("evaluate", None).at = "evaluate"
      BY JobIsTyped
    <3>2. /\ Job("deliver", TestMessage) \in Jobs
          /\ Job("deliver", TestMessage).what = TestMessage
      BY JobIsTyped DEF Messages
    <3> QED
      BY <1>2, <3>1, <3>2 DEF Connect, FirstJob, Delivers, Messages
  <2>3. Alive'
    BY <1>2 DEF Connect, Listening, Alive
  <2> QED
    BY <1>2, <2>1, <2>2, <2>3 DEF Connect, CommandsTypeOK, Delivers
<1>3. ASSUME NEW c, NEW alongside \in BOOLEAN, ActAlone(c, alongside), UNCHANGED request
      PROVE  Typed'
  <2>1. /\ command' \in Jobs /\ Delivers(command)'
        /\ memory' \in [Procs -> SUBSET Messages] /\ beside' \in BOOLEAN
    BY <1>3, ActAloneIsTyped
  <2> QED
    BY <1>3, <2>1 DEF ActAlone, CommandsTypeOK, Delivers, Alive
<1>4. CASE ConnectError \/ ErrorStatus \/ NoAnswer
  <2>1. ASSUME ConnectError PROVE Typed'
    BY <2>1, <1>3, (server \in {"checking", "closing", "draining"}) \in BOOLEAN DEF ConnectError
  <2>2. ASSUME ErrorStatus PROVE Typed'
    BY <2>2, <1>3, TRUE \in BOOLEAN DEF ErrorStatus
  <2>3. ASSUME NoAnswer PROVE Typed'
    BY <2>3, <1>3, (server # "down") \in BOOLEAN DEF NoAnswer
  <2> QED
    BY <1>4, <2>1, <2>2, <2>3
<1>5. CASE Answered
  <2>1. command' \in Jobs /\ command'.at = "idle" /\ request' = Idle /\ request' \in Jobs
    BY <1>5, IdleIsTyped DEF Answered
  <2> QED
    BY <1>5, <2>1, IdleIsTyped DEF Answered, CommandsTypeOK, Delivers, Alive, Idle
<1>6. CASE CommandEvaluates
  <2>1. command' \in Jobs /\ Delivers(command)'
    BY <1>6, JudgedIsTyped DEF CommandEvaluates, Procs, Delivers
  <2> QED
    BY <1>6, <2>1 DEF CommandEvaluates, CommandsTypeOK, Delivers, Alive
<1>7. CASE CommandDelivers
  <2>1. command.what \in Messages
    BY <1>7 DEF CommandDelivers, Delivers
  <2>2. /\ memory' \in [Procs -> SUBSET Messages]
        /\ disk' \subseteq Messages /\ said' \subseteq Messages
    BY <1>7, <2>1, RecordedIsTyped DEF CommandDelivers, Procs
  <2>3. command' \in Jobs /\ command'.at = "idle"
    BY <1>7, IdleIsTyped DEF CommandDelivers
  <2> QED
    BY <1>7, <2>2, <2>3 DEF CommandDelivers, CommandsTypeOK, Delivers, Alive
<1> QED
  BY <1>1, <1>2, <1>4, <1>5, <1>6, <1>7

LEMMA TypedStep == Typed /\ [CommandsNext]_cvars => Typed'
<1> SUFFICES ASSUME Typed, [CommandsNext]_cvars PROVE Typed'
  OBVIOUS
<1>1. CASE Spends
  BY <1>1 DEF Spends, Typed, CommandsTypeOK, Delivers, Alive
<1>2. CASE UNCHANGED cvars
  BY <1>2 DEF cvars, Typed, CommandsTypeOK, Delivers, Alive
<1> QED
  BY <1>1, <1>2, ServerIsTyped, WorkIsTyped, CommandIsTyped DEF CommandsNext

LEMMA AlwaysTyped == CommandsSpec => []Typed
<1> QED
  BY TypedInit, TypedStep, PTL DEF CommandsSpec

\* A detector's task and a request live only in a server that is open or
\* closing; memories, file and jobs hold messages.
\* (scheduler.stop, app.lifespan)
THEOREM CommandsTypeCorrect == CommandsSpec => []CommandsTypeOK
<1>1. Typed => CommandsTypeOK
  BY DEF Typed
<1> QED
  BY AlwaysTyped, <1>1, PTL

-----------------------------------------------------------------------------
(***************************************************************************)
(* NothingForgotten alone is not inductive: a command that acts writes its *)
(* own memory over the file.  What saves the file is that, unless `beside' *)
(* says so, such a command began with no server alive and none has started *)
(* since, so that its memory is the file's.                                *)
(***************************************************************************)
Acting == command.at \in {"evaluate", "deliver"}

Kept ==
    /\ NothingForgotten
    /\ ~beside /\ Acting => server = "down" /\ memory["command"] = disk

LEMMA KeptInit == CommandsInit => Kept
BY DEF CommandsInit, Kept, NothingForgotten, Acting, Idle

\* The server writes what it remembers, and it remembers what the file holds.
LEMMA ServerRecords ==
  ASSUME Typed, Kept, server # "down",
         NEW m, Recorded("server", m) \/ Nothing, UNCHANGED <<server, command, beside>>
  PROVE  Kept'
BY DEF Typed, CommandsTypeOK, Kept, NothingForgotten, Acting, Recorded, Nothing, Procs

\* A command that takes to acting by itself, with no server alive or beside it.
LEMMA ActingAlone ==
  ASSUME Typed, Kept, NEW c, NEW alongside \in BOOLEAN, ActAlone(c, alongside),
         ~Acting, server # "down" => alongside
  PROVE  Kept'
<1> USE DEF Typed, CommandsTypeOK, Kept, NothingForgotten, Acting, ActAlone, Procs
<1>1. CASE Builds(file)
  BY <1>1 DEF Restored
<1>2. CASE ~Builds(file)
  BY <1>2 DEF Idle
<1> QED
  BY <1>1, <1>2

LEMMA KeptStep == Typed /\ Kept /\ [CommandsNext]_cvars => Kept'
<1> SUFFICES ASSUME Typed, Kept, [CommandsNext]_cvars PROVE Kept'
  OBVIOUS
<1>1. CASE Boot
  BY <1>1 DEF Boot, Restored, Typed, CommandsTypeOK, Kept, NothingForgotten, Acting, Procs
<1>2. CASE Open \/ Close \/ StopScheduler \/ Drained \/ Killed
  BY <1>2 DEF Open, Close, StopScheduler, Drained, Killed, Kept, NothingForgotten, Acting
<1>3. CASE Wake \/ TurnEvaluates \/ RequestEvaluates \/ Unheard \/ Spends
  BY <1>3 DEF Wake, TurnEvaluates, RequestEvaluates, Unheard, Spends, Kept, NothingForgotten, Acting
<1>4. CASE TurnDelivers
  BY <1>4, ServerRecords DEF TurnDelivers, Alive
<1>5. CASE RequestDelivers
  BY <1>5, ServerRecords DEF RequestDelivers, Alive
<1>6. CASE SendAlert
  BY <1>6, ServerRecords DEF SendAlert
<1>7. ASSUME NEW c \in Actions, Give(c) PROVE Kept'
  <2>1. ~Acting'
    BY <1>7, JobIsTyped, IdleIsTyped DEF Give, Acting
  <2> QED
    BY <1>7, <2>1 DEF Give, Kept, NothingForgotten
<1>8. CASE Connect
  <2>1. ~Acting'
    BY <1>8 DEF Connect, Acting, Job
  <2> QED
    BY <1>8, <2>1 DEF Connect, Kept, NothingForgotten
<1>9. CASE ConnectError
  <2>1. server # "down" => server \in {"checking", "closing", "draining"}
    BY <1>9 DEF ConnectError, Listening, Typed, CommandsTypeOK
  <2>2. (server \in {"checking", "closing", "draining"}) \in BOOLEAN /\ ~Acting
    BY <1>9 DEF ConnectError, Acting
  <2> QED
    BY <1>9, <2>1, <2>2, ActingAlone DEF ConnectError
<1>10. CASE ErrorStatus
  <2>1. TRUE \in BOOLEAN /\ ~Acting
    BY <1>10 DEF ErrorStatus, Acting
  <2> QED
    BY <1>10, <2>1, ActingAlone DEF ErrorStatus
<1>11. CASE NoAnswer
  <2>1. (server # "down") \in BOOLEAN /\ ~Acting
    BY <1>11 DEF NoAnswer, Acting
  <2> QED
    BY <1>11, <2>1, ActingAlone DEF NoAnswer
<1>12. CASE Answered
  BY <1>12 DEF Answered, Kept, NothingForgotten, Acting, Idle
<1>13. CASE CommandEvaluates
  BY <1>13 DEF CommandEvaluates, Kept, NothingForgotten, Acting
<1>14. CASE CommandDelivers
  <2>1. ~Acting'
    BY <1>14 DEF CommandDelivers, Acting, Idle
  <2> QED
    BY <1>14, <2>1
       DEF CommandDelivers, Recorded, Nothing, Typed, CommandsTypeOK, Kept, NothingForgotten, Acting, Procs
<1>15. CASE UNCHANGED cvars
  BY <1>15 DEF cvars, Kept, NothingForgotten, Acting
<1> QED
  BY <1>1, <1>2, <1>3, <1>4, <1>5, <1>6, <1>7, <1>8, <1>9, <1>10, <1>11, <1>12, <1>13, <1>14, <1>15
     DEF CommandsNext

\* __main__._via_server, Dispatcher._restore: as long as no command acts by
\* itself beside a server, whatever was sent is in the file, through stops,
\* crashes and commands, and the server remembers what the file holds.
THEOREM NothingIsForgotten == CommandsSpec => []NothingForgotten
<1>1. Kept => NothingForgotten
  BY DEF Kept
<1> QED
  BY AlwaysTyped, KeptInit, KeptStep, <1>1, PTL DEF CommandsSpec

-----------------------------------------------------------------------------
\* A file without a channel, or with none that names severities, restricts
\* nothing.
LEMMA NoRoutesAcceptAll ==
  ASSUME NEW f, Routed(f) = {}, NEW n, NEW sev
  PROVE  AcceptsOf(f, n, sev)
BY DEF AcceptsOf, Routes

\* What `problems' lets through has no orphan.
LEMMA BuildsHasNoOrphans ==
  ASSUME NEW f, Builds(f)
  PROVE  Orphans(f) = {}
<1>1. Problems(f) = {}
  BY DEF Builds, Loads
<1>2. {p \in {"orphans"} : Orphans(f) # {}} = {}
  BY <1>1 DEF Problems
<1> QED
  BY <1>2

LEMMA BuildsIsRouted ==
  ASSUME NEW f \in Files, Builds(f), NEW sev \in Firings
  PROVE  \E n \in Channels(f) : AcceptsOf(f, n, sev)
<1>1. CASE f.notify = <<>>
  <2>1. Routed(f) = {}
    BY <1>1 DEF Routed
  <2> QED
    BY <1>1, <2>1, NoRoutesAcceptAll DEF Channels
<1>2. CASE f.notify # <<>> /\ Routes(f) = <<>>
  <2>1. \E n : n \in Names(f)
    <3>1. f.notify \in Seq([name : STRING, severities : {All} \cup SUBSET STRING])
      BY CommandsAssumption
    <3>2. 1 \in DOMAIN f.notify
      BY <1>2, <3>1
    <3> QED
      BY <3>2 DEF Names
  <2>2. DOMAIN Routes(f) = {}
    BY <1>2
  <2> QED
    BY <1>2, <2>1, <2>2 DEF Channels, AcceptsOf
<1>3. CASE f.notify # <<>> /\ Routes(f) # <<>>
  BY <1>3, BuildsHasNoOrphans DEF Orphans, Channels
<1> QED
  BY <1>1, <1>2, <1>3

\* config.Config.problems, Policy.accepts, runtime.build: whatever the file,
\* what starts with it has a channel for every severity.
THEOREM EverySeverityIsRouted == CommandsSpec => []AcceptedIsRouted
<1>1. Typed => AcceptedIsRouted
  BY BuildsIsRouted DEF Typed, CommandsTypeOK, AcceptedIsRouted
<1> QED
  BY AlwaysTyped, <1>1, PTL
=============================================================================

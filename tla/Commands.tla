------------------------------ MODULE Commands -----------------------------
(***************************************************************************)
(* One installation: the server (app.py's lifespan, with the detector that *)
(* scheduler.py runs in it) and the command line (__main__.py), which asks *)
(* the server to act and, when that fails, acts in a process of its own.   *)
(* Both dispatch, each from its own memory, and save it whole to one file. *)
(* Of the dispatcher there is what tells the two apart: which messages it  *)
(* remembers having sent today, in memory and in the file.                 *)
(*                                                                         *)
(* The server is down, checking (its memory is read, the port not open),   *)
(* up, closing (the port is closed, requests end), or draining.            *)
(* A job is idle, or evaluate, or deliver a message.  The jobs are the     *)
(* detector's turn, the request the server works on, and the command.      *)
(***************************************************************************)
EXTENDS Config, FiniteSets

CONSTANTS
    Files,       \* the configuration files
    Spikes,      \* the days that may be announced
    MaxRuns,     \* BOUND: so many commands are given
    MaxBoots,    \* BOUND: the server is started so many times
    None

TestMessage == "notify_test"
AlertMessage == "alert"
Messages == Spikes \cup {TestMessage, AlertMessage}
Actions == {"notify_test", "detect", "local"}
Procs == {"server", "command"}

ASSUME CommandsAssumption ==
    /\ \A f \in Files : f.notify \in Seq([name : STRING, severities : {All} \cup SUBSET STRING])
    /\ MaxRuns \in Nat /\ MaxBoots \in Nat
    /\ Spikes \cap {TestMessage, AlertMessage} = {} /\ None \notin Messages

VARIABLES
    file,
    server,
    memory,     \* what each process remembers
    disk,       \* the dispatcher's state file
    spike,      \* the day that is a spike now, or None
    turn,       \* the detector's task: off, sleep, evaluate, deliver
    request,    \* what the server does for the command
    command,
    runs, boots,
    said,       \* what has been delivered and recorded, by any process
    beside      \* a command took to acting by itself with a server alive

cvars == <<file, server, memory, disk, spike, turn, request, command, runs, boots, said, beside>>

Idle == [at |-> "idle", what |-> None]
Job(at, what) == [at |-> at, what |-> what]

CommandsInit ==
    /\ file \in Files
    /\ server = "down" /\ memory = [p \in Procs |-> {}] /\ disk = {}
    /\ spike \in Spikes \cup {None}
    /\ turn = Job("off", None) /\ request = Idle /\ command = Idle
    /\ runs = 0 /\ boots = 0 /\ said = {} /\ beside = FALSE

-----------------------------------------------------------------------------
(* The dispatcher of a process.                                            *)

\* mutant: a process starts without what the file holds
Forgetful == {}

\* Dispatcher._restore
Restored == disk

\* The end of send: the mark, and the whole of the memory to the file.
Recorded(p, message) ==
    /\ memory' = [memory EXCEPT ![p] = @ \cup {message}]
    /\ disk' = memory[p] \cup {message}
    /\ said' = said \cup {message}

Nothing == UNCHANGED <<memory, disk, said>>

\* run_once, up to send: no spike, no answer of the backend, or a spike that
\* is remembered, end it.
Judged(p) ==
    {Idle} \cup {Job("deliver", s) : s \in {spike} \ ({None} \cup memory[p])}

-----------------------------------------------------------------------------
(* The server.                                                             *)

\* serve and lifespan: the runtime is built, then every port is tried.
Boot ==
    /\ server = "down" /\ boots < MaxBoots /\ Builds(file)
    /\ server' = "checking" /\ boots' = boots + 1
    /\ memory' = [memory EXCEPT !["server"] = Restored]
    /\ beside' = (beside \/ command.at \in {"evaluate", "deliver"})
    /\ UNCHANGED <<file, disk, spike, turn, request, command, runs, said>>

\* ... and whatever that shows the server opens.
Open ==
    /\ server = "checking" /\ server' = "up"
    /\ turn' = Job(IF Schedules(file) THEN "sleep" ELSE "off", None)
    /\ UNCHANGED <<file, memory, disk, spike, request, command, runs, boots, said, beside>>

Alive == server \in {"up", "closing"}

\* mutant: a run that fails ends the task
DiesOfIt(t) == Job("off", None)

\* _loop: whatever becomes of the run, the task sleeps and goes on.
Sleeps(t) == Job("sleep", None)

Wake ==
    /\ Alive /\ turn.at = "sleep" /\ turn' = Job("evaluate", None)
    /\ UNCHANGED <<file, server, memory, disk, spike, request, command, runs, boots, said, beside>>

TurnEvaluates ==
    /\ Alive /\ turn.at = "evaluate"
    /\ \E j \in Judged("server") : turn' = IF j = Idle THEN Sleeps(turn) ELSE j
    /\ UNCHANGED <<file, server, memory, disk, spike, request, command, runs, boots, said, beside>>

TurnDelivers ==
    /\ Alive /\ turn.at = "deliver"
    /\ Recorded("server", turn.what) \/ Nothing
    /\ turn' = Sleeps(turn)
    /\ UNCHANGED <<file, server, spike, request, command, runs, boots, beside>>

\* cost_spike_run and notify_test of the routes.
RequestEvaluates ==
    /\ Alive /\ request.at = "evaluate"
    /\ \E j \in Judged("server") : request' = IF j = Idle THEN Job("done", None) ELSE j
    /\ UNCHANGED <<file, server, memory, disk, spike, turn, command, runs, boots, said, beside>>

RequestDelivers ==
    /\ Alive /\ request.at = "deliver"
    /\ Recorded("server", request.what) \/ Nothing
    /\ request' = Job("done", None)
    /\ UNCHANGED <<file, server, spike, turn, command, runs, boots, beside>>

\* The port closes first; the requests that are in end before the lifespan.
Close ==
    /\ server = "up" /\ server' = "closing"
    /\ UNCHANGED <<file, memory, disk, spike, turn, request, command, runs, boots, said, beside>>

\* mutant: the tasks are not cancelled
StopWithoutCancel ==
    /\ server = "closing" /\ request = Idle
    /\ server' = "draining"
    /\ UNCHANGED <<file, memory, disk, spike, turn, request, command, runs, boots, said, beside>>

\* scheduler.stop
StopScheduler ==
    /\ server = "closing" /\ request = Idle
    /\ server' = "draining" /\ turn' = Job("off", None)
    /\ UNCHANGED <<file, memory, disk, spike, request, command, runs, boots, said, beside>>

\* An alert is sent, at the latest by the drain.
SendAlert ==
    /\ server \in {"up", "closing", "draining"}
    /\ Recorded("server", AlertMessage)
    /\ UNCHANGED <<file, server, spike, turn, request, command, runs, boots, beside>>

Drained ==
    /\ server = "draining" /\ server' = "down"
    /\ UNCHANGED <<file, memory, disk, spike, turn, request, command, runs, boots, said, beside>>

Killed ==
    /\ server # "down" /\ server' = "down"
    /\ turn' = Job("off", None) /\ request' = Idle
    /\ UNCHANGED <<file, memory, disk, spike, command, runs, boots, said, beside>>

-----------------------------------------------------------------------------
(* The command line.                                                       *)

\* main, load: a file that does not load ends the command; what needs no
\* server (a tool, a question, a dry run, preflight) dispatches nothing.
Give(c) ==
    /\ command = Idle /\ runs < MaxRuns /\ runs' = runs + 1
    /\ command' = IF c = "local" \/ ~Loads(file) THEN Idle ELSE Job("connect", c)
    /\ UNCHANGED <<file, server, memory, disk, spike, turn, request, boots, said, beside>>

\* Where a notify-test and a detection begin.
FirstJob(c) == IF c = "detect" THEN Job("evaluate", None) ELSE Job("deliver", TestMessage)

\* In its own process: build, then the same send and run_once.
ActAlone(c, alongside) ==
    /\ IF Builds(file)
       THEN /\ command' = FirstJob(c)
            /\ memory' = [memory EXCEPT !["command"] = Restored]
            /\ beside' = (beside \/ alongside)
       ELSE command' = Idle /\ UNCHANGED <<memory, beside>>
    /\ UNCHANGED <<file, server, disk, spike, turn, runs, boots, said>>

\* mutant: no server is ever asked
AsksNobody == FALSE

\* The port is open.
Listening == server = "up"

\* _via_server
Connect ==
    /\ command.at = "connect" /\ Listening /\ request = Idle
    /\ command' = Job("waiting", command.what)
    /\ request' = FirstJob(command.what)
    /\ UNCHANGED <<file, server, memory, disk, spike, turn, runs, boots, said, beside>>

ConnectError ==
    /\ command.at = "connect" /\ ~Listening
    /\ ActAlone(command.what, server \in {"checking", "closing", "draining"}) /\ UNCHANGED request

\* A status of 400 or more.
ErrorStatus ==
    /\ command.at = "connect" /\ Listening
    /\ ActAlone(command.what, TRUE) /\ UNCHANGED request

\* The timeout of the client, or a server that dies: an HTTPError either way.
NoAnswer ==
    /\ command.at = "waiting" /\ request.at # "done"
    /\ ActAlone(command.what, server # "down") /\ UNCHANGED request

Answered ==
    /\ command.at = "waiting" /\ request.at = "done"
    /\ command' = Idle /\ request' = Idle
    /\ UNCHANGED <<file, server, memory, disk, spike, turn, runs, boots, said, beside>>

\* Nobody waits for the answer any more.
Unheard ==
    /\ command.at # "waiting" /\ request.at = "done"
    /\ request' = Idle
    /\ UNCHANGED <<file, server, memory, disk, spike, turn, command, runs, boots, said, beside>>

CommandEvaluates ==
    /\ command.at = "evaluate"
    /\ \E j \in Judged("command") : command' = j
    /\ UNCHANGED <<file, server, memory, disk, spike, turn, request, runs, boots, said, beside>>

CommandDelivers ==
    /\ command.at = "deliver"
    /\ Recorded("command", command.what) \/ Nothing
    /\ command' = Idle
    /\ UNCHANGED <<file, server, spike, turn, request, runs, boots, beside>>

-----------------------------------------------------------------------------

\* The bills show a spike, or another one.
Spends ==
    /\ spike' \in Spikes \ {spike}
    /\ UNCHANGED <<file, server, memory, disk, turn, request, command, runs, boots, said, beside>>

CommandsNext ==
    \/ Boot \/ Open \/ Close \/ StopScheduler \/ Drained \/ Killed
    \/ Wake \/ TurnEvaluates \/ TurnDelivers \/ SendAlert
    \/ RequestEvaluates \/ RequestDelivers \/ Unheard
    \/ \E c \in Actions : Give(c)
    \/ Connect \/ ConnectError \/ ErrorStatus \/ NoAnswer \/ Answered
    \/ CommandEvaluates \/ CommandDelivers
    \/ Spends

\* The intervals pass, and whatever a run of the detector waits for has a
\* timeout.
CommandsFairness == WF_cvars(Wake) /\ WF_cvars(TurnEvaluates) /\ WF_cvars(TurnDelivers)

CommandsSpec == CommandsInit /\ [][CommandsNext]_cvars /\ CommandsFairness

-----------------------------------------------------------------------------
(* Properties.                                                             *)

Jobs == [at : {"idle", "connect", "waiting", "evaluate", "deliver", "done", "off", "sleep"},
         what : Messages \cup Actions \cup {None}]

\* Jobs are where they can be, and a detector's task lives only in a server
\* that is open or closing.
CommandsTypeOK ==
    /\ file \in Files
    /\ server \in {"down", "checking", "up", "closing", "draining"}
    /\ memory \in [Procs -> SUBSET Messages] /\ disk \subseteq Messages
    /\ spike \in Spikes \cup {None} /\ {turn, request, command} \subseteq Jobs
    /\ turn.at # "off" => Alive
    /\ request # Idle => Alive
    /\ runs \in 0 .. MaxRuns /\ boots \in 0 .. MaxBoots
    /\ said \subseteq Messages /\ beside \in BOOLEAN

\* A configuration that starts leaves no severity without a channel: nothing
\* that is sent with one is dropped for want of a route.
\* (config.Config.problems, Policy.accepts, runtime.build)
AcceptedIsRouted ==
    Builds(file) => \A sev \in Firings : \E n \in Channels(file) : AcceptsOf(file, n, sev)

\* As long as no command acts by itself beside a server, whatever was sent
\* is remembered through stops, crashes and commands, and the server's memory
\* is what the file holds.  (__main__._via_server, Dispatcher._restore)
NothingForgotten ==
    ~beside => /\ said \subseteq disk
               /\ server # "down" => memory["server"] = disk

\* The same without that condition.
FileIsNeverOverwritten == said \subseteq disk

\* A detector that is enabled runs again and again while the server stays
\* open, whatever becomes of each run.  (scheduler._loop)
DetectorKeepsRunning ==
    (Schedules(file) /\ <>[](server = "up")) => []<>(turn.at = "evaluate")
=============================================================================

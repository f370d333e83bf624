------------------------------ MODULE AgentLoop ------------------------------
(***************************************************************************)
(* A turn of the agent: loop.run (src/copilot/agent/loop.py) with the      *)
(* executor that service.answer gives it, which runs a tool through the    *)
(* registry and then records it in the audit.  The turn is                 *)
(*   head      at the top of the `for'                                     *)
(*   asking    awaiting model.complete                                     *)
(*   running   awaiting the tools of a round                               *)
(*   closing   awaiting the answer without tools                           *)
(*   answered  `run' returned                                              *)
(*   failed    the model raised, or the task of the turn was cancelled     *)
(***************************************************************************)
EXTENDS Naturals, Sequences, FiniteSets, SequencesExt

CONSTANTS
    Tools,       \* the tools of the catalogue, all of effect `read'
    Invented,    \* names that the model makes up
    MaxCalls,    \* bound: tools that a reply asks for
    MaxSteps,    \* agent.max_steps
    MaxSeconds,  \* agent.max_seconds
    MaxClock     \* bound: instants 0..MaxClock; the turn starts at 0

ASSUME AgentLoopAssumption ==
    /\ Tools \cap Invented = {}
    /\ MaxCalls \in Nat \ {0}
    /\ MaxSteps \in Nat \ {0}
    /\ MaxSeconds \in Nat
    /\ MaxClock \in Nat

VARIABLES
    phase,
    stepN,      \* step_n
    history,    \* what follows the prompt and the question in `history'
    outputs,    \* of the round that runs: "none" until a tool ended
    steps,      \* res.steps
    text,       \* res.text: "blank", "model" or "excuse"
    stoppedBy,  \* res.stopped_by
    audit,      \* the entries that this turn recorded
    clock,
    \* observers
    queried,    \* the tools that were really called, a pair <<round, call>> each
    lateRounds  \* rounds that started after the deadline

vars == <<phase, stepN, history, outputs, steps, text, stoppedBy, audit, clock,
          queried, lateRounds>>

Names    == Tools \cup Invented
Requests == UNION {[1..n -> Names] : n \in 1..MaxCalls}

Assistant(calls)    == [role |-> "assistant", calls |-> calls]
Answer(i, name, ok) == [role |-> "tool", call |-> i, name |-> name, ok |-> ok]
CloseNow            == [role |-> "user"]

\* The calls of the round that runs.
Calls == Last(history).calls

Expired == clock > MaxSeconds

-----------------------------------------------------------------------------
\* mutant: the time is looked at only before the first step
AskWhateverTheTime ==
    /\ phase = "head"
    /\ stepN < MaxSteps
    /\ stepN = 0 => ~Expired
    /\ phase' = "asking"
    /\ UNCHANGED <<stepN, history, outputs, steps, text, stoppedBy, audit, clock,
                   queried, lateRounds>>

\* mutant: one step more than the budget
AskOnceMore ==
    /\ phase = "head"
    /\ stepN <= MaxSteps
    /\ ~Expired
    /\ phase' = "asking"
    /\ UNCHANGED <<stepN, history, outputs, steps, text, stoppedBy, audit, clock,
                   queried, lateRounds>>

\* The top of the loop, with steps and time left.
Ask ==
    /\ phase = "head"
    /\ stepN < MaxSteps
    /\ ~Expired
    /\ phase' = "asking"
    /\ UNCHANGED <<stepN, history, outputs, steps, text, stoppedBy, audit, clock,
                   queried, lateRounds>>

\* Out of steps (the `else' of the `for') or of time: the model is asked to
\* close without tools.
Stop ==
    /\ phase = "head"
    /\ \/ stepN < MaxSteps /\ Expired /\ stoppedBy' = "time"
       \/ stepN = MaxSteps /\ stoppedBy' = "budget"
    /\ history' = Append(history, CloseNow)
    /\ phase' = "closing"
    /\ UNCHANGED <<stepN, outputs, steps, text, audit, clock, queried, lateRounds>>

\* The model answers without asking for tools: that is the answer, as it is.
Reply(said) ==
    /\ phase = "asking"
    /\ text' = said
    /\ phase' = "answered"
    /\ UNCHANGED <<stepN, history, outputs, steps, stoppedBy, audit, clock,
                   queried, lateRounds>>

\* permissions.verify: a name that is not in the catalogue is denied before
\* anything is called.
Allowed(name) == name \in Tools

\* registry.execute never raises.
Outcomes(name) == IF Allowed(name) THEN {"ok", "error"} ELSE {"error"}

\* The model asks for tools: all of them start.
RequestTools(calls) ==
    /\ phase = "asking"
    /\ history' = Append(history, Assistant(calls))
    /\ outputs' = [i \in DOMAIN calls |-> "none"]
    /\ queried' = queried \cup {<<stepN, i>> : i \in {j \in DOMAIN calls : Allowed(calls[j])}}
    /\ lateRounds' = IF Expired THEN lateRounds + 1 ELSE lateRounds
    /\ phase' = "running"
    /\ UNCHANGED <<stepN, steps, text, stoppedBy, audit, clock>>

\* mutant: the answers of a round in reverse
ReverseAnswers(outs) ==
    Reverse([i \in DOMAIN outs |-> Answer(i, Calls[i], outs[i] = "ok")])

\* The answers of a round, in the order of the calls and not of their ends.
Answers(outs) == [i \in DOMAIN outs |-> Answer(i, Calls[i], outs[i] = "ok")]

Entry(i, out) == [round |-> stepN, call |-> i, tool |-> Calls[i], ok |-> out = "ok"]

\* mutant: a tool that failed is not audited
RecordSuccess(i, out) == IF out = "ok" THEN Append(audit, Entry(i, out)) ELSE audit

\* audit.record, after the tool and whatever came of it
Record(i, out) == Append(audit, Entry(i, out))

\* A tool ends, well or not; the last one of the round ends the round.
ToolEnds(i, out) ==
    /\ phase = "running"
    /\ outputs[i] = "none"
    /\ out \in Outcomes(Calls[i])
    /\ audit' = Record(i, out)
    /\ LET outs == [outputs EXCEPT ![i] = out]
       IN IF \E j \in DOMAIN outs : outs[j] = "none"
          THEN outputs' = outs /\ UNCHANGED <<phase, stepN, history, steps>>
          ELSE /\ outputs' = <<>>
               /\ steps' = steps \o [j \in DOMAIN outs |->
                                        [tool |-> Calls[j], ok |-> outs[j] = "ok"]]
               /\ history' = history \o Answers(outs)
               /\ stepN' = stepN + 1
               /\ phase' = "head"
    /\ UNCHANGED <<text, stoppedBy, clock, queried, lateRounds>>

\* mutant: what the model says to close is taken as it is
ClosingText(said) == said

\* A blank answer to the closing request is replaced by an explanation.
FinalText(said) == IF said = "blank" THEN "excuse" ELSE said

CloseTurn(said) ==
    /\ phase = "closing"
    /\ text' = FinalText(said)
    /\ phase' = "answered"
    /\ UNCHANGED <<stepN, history, outputs, steps, stoppedBy, audit, clock,
                   queried, lateRounds>>

Fails ==
    /\ phase' = "failed"
    /\ outputs' = <<>>
    /\ UNCHANGED <<stepN, history, steps, text, stoppedBy, audit, clock, queried, lateRounds>>

\* model.complete raises: nobody catches it here.
ModelFails == phase \in {"asking", "closing"} /\ Fails

\* The task is cancelled: CancelledError is no Exception, and what comes
\* after the await of a tool, its audit too, does not run.
Cancel ==
    /\ phase \in {"asking", "running", "closing"}
    /\ Fails

Tick ==
    /\ clock < MaxClock
    /\ clock' = clock + 1
    /\ UNCHANGED <<phase, stepN, history, outputs, steps, text, stoppedBy, audit,
                   queried, lateRounds>>

-----------------------------------------------------------------------------
Init ==
    /\ phase = "head"
    /\ stepN = 0
    /\ history = <<>>
    /\ outputs = <<>>
    /\ steps = <<>>
    /\ text = "blank"
    /\ stoppedBy = ""
    /\ audit = <<>>
    /\ clock = 0
    /\ queried = {}
    /\ lateRounds = 0

Model ==
    \/ \E said \in {"blank", "model"} : Reply(said) \/ CloseTurn(said)
    \/ \E calls \in Requests : RequestTools(calls)
    \/ ModelFails

Turn ==
    \/ Ask
    \/ Stop
    \/ Model
    \/ \E i \in DOMAIN outputs, out \in {"ok", "error"} : ToolEnds(i, out)

Next == Turn \/ Cancel \/ Tick

\* The event loop goes on, the model answers or its client times out, and so
\* do the backends of the tools.
Spec == Init /\ [][Next]_vars /\ WF_vars(Turn)

-----------------------------------------------------------------------------
TypeOK ==
    /\ phase \in {"head", "asking", "running", "closing", "answered", "failed"}
    /\ stepN \in 0..MaxSteps
    /\ Len(history) <= MaxSteps * (1 + MaxCalls) + 1
    /\ phase = "running" => /\ Last(history).role = "assistant"
                            /\ outputs \in [DOMAIN Calls -> {"none", "ok", "error"}]
    /\ phase # "running" => outputs = <<>>
    /\ \A k \in DOMAIN steps : steps[k] \in [tool : Names, ok : BOOLEAN]
    /\ text \in {"blank", "model", "excuse"}
    /\ stoppedBy \in {"", "time", "budget"}
    /\ \A k \in DOMAIN audit :
          audit[k] \in [round : 0..(MaxSteps - 1), call : 1..MaxCalls, tool : Names, ok : BOOLEAN]
    /\ clock \in 0..MaxClock
    /\ queried \subseteq (0..(MaxSteps - 1)) \X (1..MaxCalls)
    /\ lateRounds \in Nat

Times(s, step) == Cardinality({k \in DOMAIN s : [tool |-> s[k].tool, ok |-> s[k].ok] = step})

\* Between rounds, the trace that the user gets and the audit tell the same
\* story: each tool that ran, and how it went, as many times as it ran.
TraceIsAudited ==
    phase \in {"head", "asking", "closing", "answered"} =>
        \A step \in [tool : Names, ok : BOOLEAN] : Times(steps, step) = Times(audit, step)

\* The time is looked at before each step only: what a slow reply asked for
\* still runs, but no more than that one round after max_seconds.
OneLateRound == lateRounds <= 1

\* A turn cut by its budget or its time says something, whatever the model
\* does (loop.py:193-196).
CutTurnSpeaks == phase = "answered" /\ stoppedBy # "" => text # "blank"

\* No turn ends in blank.
NoBlankTurn == phase = "answered" => text # "blank"

\* What was asked of the backends of the client is in the audit
\* (audit.py:3-6), but for the round under way and the one in which a turn was
\* cancelled: their entries come after the answers.
QueriesAreAudited ==
    \A q \in queried :
        \/ \E k \in DOMAIN audit : q = <<audit[k].round, audit[k].call>>
        \/ q[1] = stepN /\ phase \in {"running", "failed"}

\* The audit says what was done, to the user and about the backends.
AuditIsFaithful == TraceIsAudited /\ QueriesAreAudited

-----------------------------------------------------------------------------
\* What the model sees of the turn: a round when it is answered.
Seen == IF history # <<>> /\ Last(history).role = "assistant" THEN Front(history) ELSE history

TurnDialogue == INSTANCE Dialogue WITH
    talk <- Seen, over <- phase \in {"answered", "failed"}

\* However the tools of a round interleave and fail, the model is shown
\* rounds with an answer for each call, in order, and an end.
LoopIsDialogue == TurnDialogue!DialogueSpec
=============================================================================

----------------------------- MODULE AgentProofs -----------------------------
(***************************************************************************)
(* Theorems about a turn of the agent, for any catalogue, any budget and   *)
(* any number of tools in a round.                                         *)
(***************************************************************************)
EXTENDS AgentLoop, FiniteSetTheorems, TLAPS

(***************************************************************************)
(* The time is looked at before a question to the model and not after it.  *)
(* A round that starts late finds the deadline past, and the deadline      *)
(* stays past: no other question is asked.                                 *)
(***************************************************************************)
Deadline ==
    /\ clock \in Nat
    /\ lateRounds \in Nat
    /\ lateRounds <= 1
    /\ lateRounds = 1 => Expired /\ phase # "asking"

\* The deadline holds of a turn that starts.
LEMMA DeadlineInit == Init => Deadline
<1> SUFFICES ASSUME Init PROVE Deadline
  OBVIOUS
<1>1. clock = 0 /\ lateRounds = 0
  BY DEF Init
<1> QED
  BY <1>1 DEF Deadline

\* And no step of the turn breaks it.
LEMMA DeadlineStep == Deadline /\ [Next]_vars => Deadline'
<1> SUFFICES ASSUME Deadline, [Next]_vars PROVE Deadline'
  OBVIOUS
<1> USE AgentLoopAssumption DEF Deadline, Expired
<1>1. CASE Ask
  BY <1>1 DEF Ask
<1>2. CASE Stop
  BY <1>2 DEF Stop
<1>3. ASSUME NEW said \in {"blank", "model"}, Reply(said) \/ CloseTurn(said)
      PROVE  Deadline'
  BY <1>3 DEF Reply, CloseTurn
<1>4. ASSUME NEW calls \in Requests, RequestTools(calls)
      PROVE  Deadline'
  BY <1>4 DEF RequestTools
<1>5. CASE ModelFails \/ Cancel
  BY <1>5 DEF ModelFails, Cancel, Fails
<1>6. ASSUME NEW i \in DOMAIN outputs, NEW out \in {"ok", "error"}, ToolEnds(i, out)
      PROVE  Deadline'
  <2>1. /\ UNCHANGED <<clock, lateRounds>>
        /\ phase' \in {"running", "head"}
    BY <1>6 DEF ToolEnds
  <2> QED
    BY <2>1
<1>7. CASE Tick
  BY <1>7 DEF Tick
<1>8. CASE UNCHANGED vars
  BY <1>8 DEF vars
<1> QED
  BY <1>1, <1>2, <1>3, <1>4, <1>5, <1>6, <1>7, <1>8 DEF Next, Turn, Model

\* loop.py:116-119: however slow the model and the tools are, no more than one
\* round of tools starts after max_seconds.
THEOREM NoSecondLateRound == Spec => []OneLateRound
<1>1. Deadline => OneLateRound
  BY DEF Deadline, OneLateRound
<1> QED
  BY DeadlineInit, DeadlineStep, <1>1, PTL DEF Spec

-----------------------------------------------------------------------------
(***************************************************************************)
(* Only the last part of `run' can end a turn that was cut.                *)
(***************************************************************************)
CutTurns ==
    /\ stoppedBy # "" => phase \in {"closing", "answered", "failed"}
    /\ CutTurnSpeaks

\* No turn starts cut, and no step leaves a cut turn without its text.
LEMMA CutTurnsInit == Init => CutTurns
  BY DEF Init, CutTurns, CutTurnSpeaks

LEMMA CutTurnsStep == CutTurns /\ [Next]_vars => CutTurns'
<1> SUFFICES ASSUME CutTurns, [Next]_vars PROVE CutTurns'
  OBVIOUS
<1> USE DEF CutTurns, CutTurnSpeaks
<1>1. CASE Ask
  BY <1>1 DEF Ask
<1>2. CASE Stop
  BY <1>2 DEF Stop
<1>3. ASSUME NEW said \in {"blank", "model"}, Reply(said) \/ CloseTurn(said)
      PROVE  CutTurns'
  BY <1>3 DEF Reply, CloseTurn, FinalText
<1>4. ASSUME NEW calls \in Requests, RequestTools(calls)
      PROVE  CutTurns'
  BY <1>4 DEF RequestTools
<1>5. CASE ModelFails \/ Cancel
  BY <1>5 DEF ModelFails, Cancel, Fails
<1>6. ASSUME NEW i \in DOMAIN outputs, NEW out \in {"ok", "error"}, ToolEnds(i, out)
      PROVE  CutTurns'
  <2>1. /\ UNCHANGED <<text, stoppedBy>>
        /\ phase = "running"
        /\ phase' \in {"running", "head"}
    BY <1>6 DEF ToolEnds
  <2> QED
    BY <2>1
<1>7. CASE Tick
  BY <1>7 DEF Tick
<1>8. CASE UNCHANGED vars
  BY <1>8 DEF vars
<1> QED
  BY <1>1, <1>2, <1>3, <1>4, <1>5, <1>6, <1>7, <1>8 DEF Next, Turn, Model

\* loop.py:193-208: a turn that its budget or its time cut does not end in
\* blank, whatever the model answers to the closing request.
THEOREM CutTurnsSpeak == Spec => []CutTurnSpeaks
<1>1. CutTurns => CutTurnSpeaks
  BY DEF CutTurns
<1> QED
  BY CutTurnsInit, CutTurnsStep, <1>1, PTL DEF Spec
-----------------------------------------------------------------------------
(***************************************************************************)
(* How many members of a sequence are of a kind: what the trace and the    *)
(* audit are compared by, and the rounds of a dialogue.                    *)
(***************************************************************************)
Count(s, Kind) == Cardinality({k \in DOMAIN s : s[k] \in Kind})

LEMMA CountIsNat ==
  ASSUME NEW X, NEW s \in Seq(X), NEW Kind
  PROVE  Count(s, Kind) \in Nat /\ IsFiniteSet({k \in DOMAIN s : s[k] \in Kind})
<1>1. IsFiniteSet(1 .. Len(s)) /\ Len(s) \in Nat
  BY FS_Interval
<1>2. IsFiniteSet({k \in DOMAIN s : s[k] \in Kind})
  BY <1>1, FS_Subset
<1> QED
  BY <1>2, FS_CardinalityType DEF Count

\* One more member counts once, if it is of the kind.
LEMMA CountOneMore ==
  ASSUME NEW X, NEW s \in Seq(X), NEW e \in X, NEW Kind
  PROVE  Count(Append(s, e), Kind) = Count(s, Kind) + (IF e \in Kind THEN 1 ELSE 0)
<1> DEFINE old == {k \in DOMAIN s : s[k] \in Kind}
           new == {k \in DOMAIN Append(s, e) : Append(s, e)[k] \in Kind}
<1>1. IsFiniteSet(old) /\ Cardinality(old) \in Nat
  BY CountIsNat DEF Count
<1>2. Len(s) \in Nat /\ Len(s) + 1 \notin old
  OBVIOUS
<1>3. CASE e \in Kind
  <2>1. new = old \cup {Len(s) + 1}
    BY <1>2, <1>3
  <2> HIDE DEF old, new
  <2> QED
    BY <1>1, <1>2, <1>3, <2>1, FS_AddElement DEF Count, old, new
<1>4. CASE e \notin Kind
  <2>1. new = old
    BY <1>2, <1>4
  <2>2. Cardinality(new) = Cardinality(old) + 0
    <3> HIDE DEF old, new
    <3> QED
      BY <1>1, <2>1
  <2> QED
    BY <1>4, <2>2 DEF Count
<1> QED
  BY <1>3, <1>4

\* The counts of two sequences add up.
LEMMA CountOfBoth ==
  ASSUME NEW X, NEW s \in Seq(X), NEW t \in Seq(X), NEW Kind
  PROVE  Count(s \o t, Kind) = Count(s, Kind) + Count(t, Kind)
<1> DEFINE first  == {k \in DOMAIN s : s[k] \in Kind}
           second == {k \in DOMAIN t : t[k] \in Kind}
           moved  == {k \in Len(s) + 1 .. Len(s) + Len(t) : t[k - Len(s)] \in Kind}
           both   == {k \in DOMAIN (s \o t) : (s \o t)[k] \in Kind}
           shift  == [k \in second |-> Len(s) + k]
<1>1. Len(s) \in Nat /\ Len(t) \in Nat /\ DOMAIN s = 1 .. Len(s) /\ DOMAIN t = 1 .. Len(t)
  OBVIOUS
<1>2. both = first \cup moved /\ first \cap moved = {}
  <2>1. DOMAIN (s \o t) = 1 .. Len(s) + Len(t)
    BY <1>1
  <2>2. \A k \in 1 .. Len(s) : (s \o t)[k] = s[k]
    BY <1>1
  <2>3. \A k \in Len(s) + 1 .. Len(s) + Len(t) : (s \o t)[k] = t[k - Len(s)]
    BY <1>1
  <2>4. 1 .. Len(s) + Len(t) = (1 .. Len(s)) \cup (Len(s) + 1 .. Len(s) + Len(t))
    BY <1>1
  <2>5. (1 .. Len(s)) \cap (Len(s) + 1 .. Len(s) + Len(t)) = {}
    BY <1>1
  <2> QED
    BY <1>1, <2>1, <2>2, <2>3, <2>4, <2>5
<1>3. IsFiniteSet(first) /\ IsFiniteSet(second)
  BY CountIsNat
<1>4. IsFiniteSet(moved) /\ Cardinality(moved) = Cardinality(second)
  <2>1. shift \in [second -> moved]
    BY <1>1
  <2>2. \A a, b \in second : shift[a] = shift[b] => a = b
    BY <1>1
  <2>3. \A m \in moved : \E k \in second : shift[k] = m
    <3> SUFFICES ASSUME NEW m \in moved PROVE m - Len(s) \in second /\ shift[m - Len(s)] = m
      OBVIOUS
    <3> QED
      BY <1>1
  <2> HIDE DEF second, moved, shift
  <2>4. shift \in Bijection(second, moved)
    BY <2>1, <2>2, <2>3 DEF Bijection, Injection, Surjection, IsInjective
  <2>5. ExistsBijection(second, moved)
    BY <2>4 DEF ExistsBijection
  <2> QED
    BY <1>3, <2>5, FS_Bijection
<1>5. /\ Cardinality(first) \in Nat /\ Cardinality(second) \in Nat
      /\ Cardinality({}) = 0
  BY <1>3, FS_CardinalityType, FS_EmptySet
<1> HIDE DEF first, second, moved, both
<1>6. Cardinality(both) = Cardinality(first) + Cardinality(second)
  <2>1. Cardinality(both) = Cardinality(first) + Cardinality(moved) - Cardinality(first \cap moved)
    BY <1>2, <1>3, <1>4, FS_Union
  <2>2. Cardinality(first \cap moved) = 0
    BY <1>2, <1>5, Zenon
  <2> QED
    BY <1>4, <1>5, <2>1, <2>2
<1> QED
  BY <1>6 DEF Count, both, first, second

\* None of a sequence is counted when none is of the kind.
LEMMA CountNone ==
  ASSUME NEW s, NEW Kind, \A k \in DOMAIN s : s[k] \notin Kind
  PROVE  Count(s, Kind) = 0
<1>1. {k \in DOMAIN s : s[k] \in Kind} = {}
  OBVIOUS
<1> QED
  BY <1>1, FS_EmptySet DEF Count

-----------------------------------------------------------------------------
(***************************************************************************)
(* The parts of a turn are of their kind, and a round adds no more to the  *)
(* history than its request and an answer for each call.                   *)
(***************************************************************************)
Step    == [tool : Names, ok : BOOLEAN]
Entries == [round : 0 .. (MaxSteps - 1), call : 1 .. MaxCalls, tool : Names, ok : BOOLEAN]
Message ==
    [role : {"assistant"}, calls : Requests]
        \cup [role : {"tool"}, call : 1 .. MaxCalls, name : Names, ok : BOOLEAN]
        \cup {CloseNow}

InRound ==
    /\ history # <<>> /\ Last(history).role = "assistant"
    /\ outputs \in [DOMAIN Calls -> {"none", "ok", "error"}]

Reasons == {"", "time", "budget"}

\* Before the steps that are left.
HasRoom ==
    \/ Len(history) <= stepN * (1 + MaxCalls)
    \/ phase \notin {"head", "asking"} /\ Len(history) <= stepN * (1 + MaxCalls) + 1

TurnTyped ==
    /\ phase \in {"head", "asking", "running", "closing", "answered", "failed"}
    /\ stepN \in 0 .. MaxSteps
    /\ phase \in {"asking", "running"} => stepN < MaxSteps
    /\ history \in Seq(Message) /\ steps \in Seq(Step) /\ audit \in Seq(Entries)
    /\ HasRoom
    /\ phase = "running" => InRound
    /\ phase # "running" => outputs = <<>>
    /\ text \in {"blank", "model", "excuse"}
    /\ stoppedBy \in Reasons
    /\ clock \in 0 .. MaxClock
    /\ queried \subseteq (0 .. (MaxSteps - 1)) \X (1 .. MaxCalls)
    /\ lateRounds \in Nat

\* A reply asks for a tool at least.
LEMMA RequestsAreSequences ==
  ASSUME NEW calls \in Requests
  PROVE  /\ calls \in Seq(Names) /\ Len(calls) \in 1 .. MaxCalls /\ Len(calls) \in Nat
         /\ DOMAIN calls = 1 .. Len(calls) /\ DOMAIN calls \subseteq 1 .. MaxCalls
<1>1. PICK n \in 1 .. MaxCalls : calls \in [1 .. n -> Names]
  BY DEF Requests
<1>2. calls \in Seq(Names) /\ Len(calls) = n /\ n \in Nat
  BY <1>1, AgentLoopAssumption
<1> QED
  BY <1>1, <1>2, AgentLoopAssumption

\* The calls of the round that runs, each with its output.
LEMMA TheRoundThatRuns ==
  ASSUME TurnTyped, phase = "running"
  PROVE  /\ history # <<>> /\ Last(history) = Assistant(Calls) /\ Calls \in Requests
         /\ Calls \in Seq(Names) /\ Len(Calls) \in 1 .. MaxCalls /\ Len(Calls) \in Nat
         /\ DOMAIN outputs = 1 .. Len(Calls) /\ DOMAIN Calls = 1 .. Len(Calls)
         /\ outputs \in [1 .. Len(Calls) -> {"none", "ok", "error"}]
         /\ \A i \in DOMAIN outputs : Calls[i] \in Names /\ i \in 1 .. MaxCalls
<1>1. history \in Seq(Message) /\ InRound
  BY DEF TurnTyped
<1>2. Last(history) \in Message /\ Last(history).role = "assistant"
  BY <1>1 DEF InRound, Last
<1>3. Last(history) = Assistant(Calls) /\ Calls \in Requests
  BY <1>2 DEF Message, CloseNow, Assistant, Calls
<1>4. /\ Calls \in Seq(Names) /\ Len(Calls) \in 1 .. MaxCalls /\ Len(Calls) \in Nat
      /\ DOMAIN Calls = 1 .. Len(Calls) /\ DOMAIN Calls \subseteq 1 .. MaxCalls
  BY <1>3, RequestsAreSequences
<1>5. outputs \in [1 .. Len(Calls) -> {"none", "ok", "error"}]
  BY <1>1, <1>4 DEF InRound
<1> QED
  BY <1>1, <1>3, <1>4, <1>5 DEF InRound

InTrace(outs) == [j \in DOMAIN outs |-> [tool |-> Calls[j], ok |-> outs[j] = "ok"]]

\* What a round that ends adds to the trace and to the history.
LEMMA TheRoundThatEnds ==
  ASSUME TurnTyped, phase = "running",
         NEW outs \in [1 .. Len(Calls) -> {"none", "ok", "error"}]
  PROVE  /\ Answers(outs) \in Seq(Message) /\ Len(Answers(outs)) = Len(Calls)
         /\ \A i \in 1 .. Len(Calls) : Answers(outs)[i] = Answer(i, Calls[i], outs[i] = "ok")
         /\ InTrace(outs) \in Seq(Step)
<1>1. /\ Len(Calls) \in Nat /\ DOMAIN outs = 1 .. Len(Calls)
      /\ \A i \in 1 .. Len(Calls) : Calls[i] \in Names /\ i \in 1 .. MaxCalls
  BY TheRoundThatRuns
<1>2. \A i \in 1 .. Len(Calls) : (outs[i] = "ok") \in BOOLEAN
  OBVIOUS
<1>3. \A i \in 1 .. Len(Calls) : Answer(i, Calls[i], outs[i] = "ok") \in Message
  BY <1>1, <1>2 DEF Answer, Message
<1>4. \A i \in 1 .. Len(Calls) : [tool |-> Calls[i], ok |-> outs[i] = "ok"] \in Step
  BY <1>1, <1>2 DEF Step
<1> QED
  BY <1>1, <1>3, <1>4 DEF Answers, InTrace

\* The end of one tool: another one runs on, or the round is over.
With(i, out) == [outputs EXCEPT ![i] = out]

RunsOn(outs) ==
    /\ \E j \in DOMAIN outs : outs[j] = "none"
    /\ outputs' = outs
    /\ UNCHANGED <<phase, stepN, history, steps>>

IsOver(outs) ==
    /\ \A j \in DOMAIN outs : outs[j] # "none"
    /\ outputs' = <<>> /\ phase' = "head" /\ stepN' = stepN + 1
    /\ steps' = steps \o InTrace(outs)
    /\ history' = history \o Answers(outs)

LEMMA OneToolEnds ==
  ASSUME TurnTyped, NEW i \in DOMAIN outputs, NEW out \in {"ok", "error"}, ToolEnds(i, out)
  PROVE  /\ phase = "running" /\ outputs[i] = "none"
         /\ audit' = Append(audit, Entry(i, out)) /\ Entry(i, out) \in Entries
         /\ With(i, out) \in [1 .. Len(Calls) -> {"none", "ok", "error"}]
         /\ UNCHANGED <<text, stoppedBy, clock, queried, lateRounds>>
         /\ RunsOn(With(i, out)) \/ IsOver(With(i, out))
<1>1. phase = "running" /\ outputs[i] = "none"
  BY DEF ToolEnds
<1>2. /\ outputs \in [1 .. Len(Calls) -> {"none", "ok", "error"}]
      /\ Calls[i] \in Names /\ i \in 1 .. MaxCalls
  BY <1>1, TheRoundThatRuns
<1>3. With(i, out) \in [1 .. Len(Calls) -> {"none", "ok", "error"}]
  BY <1>2 DEF With
<1>4. Entry(i, out) \in Entries
  <2>1. stepN \in 0 .. (MaxSteps - 1)
    <3>1. stepN \in 0 .. MaxSteps /\ stepN < MaxSteps
      BY <1>1 DEF TurnTyped
    <3> QED
      BY <3>1, AgentLoopAssumption
  <2>2. (out = "ok") \in BOOLEAN
    OBVIOUS
  <2> QED
    BY <1>2, <2>1, <2>2 DEF Entry, Entries
<1>5. RunsOn(With(i, out)) \/ IsOver(With(i, out))
  BY DEF ToolEnds, With, RunsOn, IsOver, InTrace
<1> QED
  BY <1>1, <1>3, <1>4, <1>5 DEF ToolEnds, Record

\* A round more has room for what it says.
LEMMA RoomForARound ==
  ASSUME NEW n \in Nat, NEW m \in Nat, n < m, NEW k \in Nat
  PROVE  /\ n * k \in Nat /\ m * k \in Nat /\ (n + 1) * k = n * k + k
         /\ (n + 1) * k <= m * k
<1>1. (m - (n + 1)) * k \in Nat
  <2>1. m - (n + 1) \in Nat
    OBVIOUS
  <2>2. \A a, b \in Nat : a * b \in Nat
    OBVIOUS
  <2> QED
    BY <2>1, <2>2
<1>2. (m - (n + 1)) * k = m * k - (n + 1) * k /\ (n + 1) * k = n * k + k
  OBVIOUS
<1>3. n * k \in Nat /\ m * k \in Nat /\ (n + 1) * k \in Nat
  OBVIOUS
<1> QED
  BY <1>1, <1>2, <1>3

LEMMA TurnTypedInit == Init => TurnTyped
<1> SUFFICES ASSUME Init PROVE TurnTyped
  OBVIOUS
<1>1. 0 * (1 + MaxCalls) = 0
  BY AgentLoopAssumption
<1>2. /\ phase = "head" /\ stepN = 0 /\ history = <<>> /\ outputs = <<>> /\ steps = <<>>
      /\ text = "blank" /\ audit = <<>> /\ clock = 0 /\ queried = {} /\ lateRounds = 0
      /\ stoppedBy \in Reasons
  BY Zenon DEF Init, Reasons
<1> QED
  BY <1>1, <1>2, AgentLoopAssumption DEF TurnTyped, HasRoom

LEMMA TurnTypedStep == TurnTyped /\ [Next]_vars => TurnTyped'
<1> SUFFICES ASSUME TurnTyped, [Next]_vars PROVE TurnTyped'
  OBVIOUS
<1>0. /\ stepN \in Nat /\ MaxSteps \in Nat \ {0} /\ MaxCalls \in Nat \ {0} /\ MaxClock \in Nat
      /\ 1 + MaxCalls \in Nat /\ stepN * (1 + MaxCalls) \in Nat
  <2>1. stepN \in Nat /\ 1 + MaxCalls \in Nat
    BY AgentLoopAssumption DEF TurnTyped
  <2>2. \A a, b \in Nat : a * b \in Nat
    OBVIOUS
  <2> QED
    BY <2>1, <2>2, AgentLoopAssumption
<1> DEFINE room == stepN * (1 + MaxCalls)
<1>00. room \in Nat /\ Len(history) \in Nat
  BY <1>0 DEF TurnTyped
<1>1. CASE Ask
  BY <1>1 DEF Ask, HasRoom, TurnTyped
<1>2. CASE Stop
  <2>1. CloseNow \in Message
    BY DEF Message
  <2>2. /\ history' \in Seq(Message) /\ Len(history') = Len(history) + 1 /\ Len(history) <= room
        /\ stoppedBy' \in Reasons
    <3>1. "time" \in Reasons /\ "budget" \in Reasons
      BY Zenon DEF Reasons
    <3> QED
      BY <1>2, <2>1, <3>1 DEF Stop, TurnTyped, HasRoom
  <2> HIDE DEF room
  <2>3. Len(history') <= room + 1
    BY <1>00, <2>2
  <2> USE DEF room
  <2> QED
    BY <1>2, <2>2, <2>3 DEF Stop, HasRoom, TurnTyped
<1>3. ASSUME NEW said \in {"blank", "model"}, Reply(said) \/ CloseTurn(said)
      PROVE  TurnTyped'
  <2>1. /\ UNCHANGED <<stepN, history, outputs, steps, stoppedBy, audit, clock, queried, lateRounds>>
        /\ phase' = "answered" /\ text' \in {"blank", "model", "excuse"}
        /\ phase \in {"asking", "closing"}
    BY <1>3 DEF Reply, CloseTurn, FinalText
  <2>2. Len(history) <= room + 1
    <3>1. Len(history) <= room \/ Len(history) <= room + 1
      BY DEF TurnTyped, HasRoom
    <3> HIDE DEF room
    <3> QED
      BY <1>00, <3>1
  <2> QED
    BY <2>1, <2>2 DEF HasRoom, TurnTyped
<1>4. ASSUME NEW calls \in Requests, RequestTools(calls)
      PROVE  TurnTyped'
  <2>1. Assistant(calls) \in Message
    BY DEF Message, Assistant
  <2>2. /\ history' \in Seq(Message) /\ Len(history') = Len(history) + 1 /\ Len(history) <= room
        /\ history' # <<>> /\ Last(history') = Assistant(calls)
    BY <1>4, <2>1 DEF RequestTools, HasRoom, TurnTyped, Last
  <2>3. Len(history') <= room + 1
    <3> HIDE DEF room
    <3> QED
      BY <1>00, <2>2
  <2>4. InRound'
    BY <1>4, <2>2 DEF InRound, Calls, Assistant, RequestTools
  <2>5. queried' \subseteq (0 .. (MaxSteps - 1)) \X (1 .. MaxCalls)
    <3>1. DOMAIN calls \subseteq 1 .. MaxCalls
      BY RequestsAreSequences
    <3>2. stepN \in 0 .. (MaxSteps - 1)
      <4>1. stepN \in 0 .. MaxSteps /\ stepN < MaxSteps
        BY <1>4 DEF RequestTools, TurnTyped
      <4> QED
        BY <1>0, <4>1
    <3> QED
      BY <1>4, <3>1, <3>2 DEF RequestTools, TurnTyped
  <2>6. /\ phase' = "running" /\ UNCHANGED <<stepN, steps, text, stoppedBy, audit, clock>>
        /\ phase = "asking" /\ lateRounds' \in Nat
    BY <1>4 DEF RequestTools, TurnTyped
  <2> QED
    BY <2>2, <2>3, <2>4, <2>5, <2>6 DEF HasRoom, TurnTyped
<1>5. CASE ModelFails \/ Cancel
  <2>1. /\ phase' = "failed" /\ outputs' = <<>> /\ phase \in {"asking", "running", "closing"}
        /\ UNCHANGED <<stepN, history, steps, text, stoppedBy, audit, clock, queried, lateRounds>>
    BY <1>5 DEF ModelFails, Cancel, Fails
  <2>2. Len(history) <= room + 1
    <3>1. Len(history) <= room \/ Len(history) <= room + 1
      BY DEF TurnTyped, HasRoom
    <3> HIDE DEF room
    <3> QED
      BY <1>00, <3>1
  <2> QED
    BY <2>1, <2>2 DEF HasRoom, TurnTyped
<1>6. ASSUME NEW i \in DOMAIN outputs, NEW out \in {"ok", "error"}, ToolEnds(i, out)
      PROVE  TurnTyped'
  <2> DEFINE outs == With(i, out)
  <2>1. /\ phase = "running" /\ outs \in [1 .. Len(Calls) -> {"none", "ok", "error"}]
        /\ audit' = Append(audit, Entry(i, out)) /\ Entry(i, out) \in Entries
        /\ UNCHANGED <<text, stoppedBy, clock, queried, lateRounds>>
    BY <1>6, OneToolEnds
  <2>2. audit' \in Seq(Entries)
    BY <2>1 DEF TurnTyped
  <2> HIDE DEF outs
  <2>3. CASE RunsOn(outs)
    <3>1. DOMAIN Calls = 1 .. Len(Calls) /\ Calls' = Calls
      BY <2>1, <2>3, TheRoundThatRuns DEF Calls, RunsOn
    <3>2. InRound'
      BY <2>1, <2>3, <3>1 DEF InRound, TurnTyped, RunsOn
    <3> QED
      BY <2>1, <2>2, <2>3, <3>2 DEF HasRoom, TurnTyped, RunsOn
  <2>4. CASE IsOver(outs)
    <3>1. /\ Answers(outs) \in Seq(Message) /\ Len(Answers(outs)) = Len(Calls)
          /\ Len(Calls) \in 1 .. MaxCalls /\ InTrace(outs) \in Seq(Step)
      BY <2>1, TheRoundThatEnds, TheRoundThatRuns
    <3>2. /\ steps' \in Seq(Step) /\ history' \in Seq(Message)
          /\ Len(history') = Len(history) + Len(Calls)
      <4>1. /\ steps \in Seq(Step) /\ history \in Seq(Message)
            /\ steps' = steps \o InTrace(outs) /\ history' = history \o Answers(outs)
        BY <2>4 DEF TurnTyped, IsOver
      <4>2. InTrace(outs) \in Seq(Step) /\ Answers(outs) \in Seq(Message)
        BY <3>1
      <4>3. steps \o InTrace(outs) \in Seq(Step)
        BY <4>1, <4>2
      <4>4. /\ history \o Answers(outs) \in Seq(Message)
            /\ Len(history \o Answers(outs)) = Len(history) + Len(Answers(outs))
        BY <4>1, <4>2
      <4> QED
        BY <3>1, <4>1, <4>3, <4>4
    <3>3. Len(history) <= room + 1
      <4>1. Len(history) <= room \/ Len(history) <= room + 1
        BY DEF TurnTyped, HasRoom
      <4> HIDE DEF room
      <4> QED
        BY <1>00, <4>1
    <3>4. stepN < MaxSteps
      BY <2>1 DEF TurnTyped
    <3>5. (stepN + 1) * (1 + MaxCalls) = room + (1 + MaxCalls)
      BY <1>0, <3>4, RoomForARound
    <3>6. Len(history') <= (stepN + 1) * (1 + MaxCalls)
      <4> HIDE DEF room
      <4> QED
        BY <1>0, <1>00, <3>1, <3>2, <3>3, <3>5
    <3>7. stepN + 1 \in 0 .. MaxSteps
      BY <1>0, <3>4
    <3> QED
      BY <2>1, <2>2, <2>4, <3>2, <3>6, <3>7 DEF HasRoom, TurnTyped, IsOver
  <2> QED
    BY <1>6, <2>3, <2>4, OneToolEnds DEF outs
<1>7. CASE Tick
  <2>1. clock' \in 0 .. MaxClock
    BY <1>0, <1>7 DEF Tick, TurnTyped
  <2>2. UNCHANGED <<phase, stepN, history, outputs, steps, text, stoppedBy, audit, queried,
                    lateRounds>>
    BY <1>7 DEF Tick
  <2> QED
    BY <2>1, <2>2 DEF HasRoom, TurnTyped, InRound, Calls
<1>8. CASE UNCHANGED vars
  BY <1>8 DEF vars, HasRoom, TurnTyped, InRound, Calls
<1> QED
  BY <1>1, <1>2, <1>3, <1>4, <1>5, <1>6, <1>7, <1>8 DEF Next, Turn, Model

LEMMA AlwaysTyped == Spec => []TurnTyped
BY TurnTypedInit, TurnTypedStep, PTL DEF Spec

\* The parts of a turn are of their kind, and the history that a turn makes
\* the model read is bounded by its steps and the calls of a reply.
THEOREM TurnTypeCorrect == Spec => []TypeOK
<1>1. TurnTyped => TypeOK
  <2> SUFFICES ASSUME TurnTyped PROVE TypeOK
    OBVIOUS
  <2>1. Len(history) <= MaxSteps * (1 + MaxCalls) + 1
    <3>1. stepN \in Nat /\ stepN <= MaxSteps /\ MaxSteps \in Nat /\ 1 + MaxCalls \in Nat
      BY AgentLoopAssumption DEF TurnTyped
    <3>2. /\ stepN * (1 + MaxCalls) \in Nat /\ MaxSteps * (1 + MaxCalls) \in Nat
          /\ stepN * (1 + MaxCalls) <= MaxSteps * (1 + MaxCalls)
      <4>1. CASE stepN = MaxSteps
        <5>1. \A a, b \in Nat : a * b \in Nat
          OBVIOUS
        <5> QED
          BY <3>1, <4>1, <5>1
      <4>2. CASE stepN < MaxSteps
        <5> DEFINE k == 1 + MaxCalls
        <5>1. stepN * k \in Nat /\ MaxSteps * k \in Nat /\ stepN * k + k <= MaxSteps * k
          BY <3>1, <4>2, RoomForARound
        <5> QED
          BY <3>1, <5>1
      <4> QED
        BY <3>1, <4>1, <4>2
    <3>3. /\ Len(history) \in Nat
          /\ Len(history) <= stepN * (1 + MaxCalls) \/ Len(history) <= stepN * (1 + MaxCalls) + 1
      BY DEF HasRoom, TurnTyped
    <3> QED
      BY <3>2, <3>3
  <2>2. phase = "running" => /\ Last(history).role = "assistant"
                             /\ outputs \in [DOMAIN Calls -> {"none", "ok", "error"}]
    BY DEF TurnTyped, InRound
  <2>3. \A k \in DOMAIN steps : steps[k] \in Step
    BY DEF TurnTyped
  <2>4. \A k \in DOMAIN audit : audit[k] \in Entries
    BY DEF TurnTyped
  <2> QED
    <3>1. /\ phase \in {"head", "asking", "running", "closing", "answered", "failed"}
          /\ stepN \in 0 .. MaxSteps /\ (phase # "running" => outputs = <<>>)
          /\ text \in {"blank", "model", "excuse"} /\ clock \in 0 .. MaxClock
          /\ queried \subseteq (0 .. (MaxSteps - 1)) \X (1 .. MaxCalls) /\ lateRounds \in Nat
      BY DEF TurnTyped
    <3>2. stoppedBy \in {"", "time", "budget"}
      BY Zenon DEF TurnTyped, Reasons
    <3> QED
      BY <2>1, <2>2, <2>3, <2>4, <3>1, <3>2, Zenon DEF TypeOK, Step, Entries
<1> QED
  BY <1>1, AlwaysTyped, PTL

-----------------------------------------------------------------------------
(***************************************************************************)
(* While a round runs the audit is ahead of the trace by the tools that    *)
(* ended, and of what was queried only the tools that have not ended are   *)
(* not yet in it.                                                          *)
(***************************************************************************)
Ended(outs, step) == {i \in DOMAIN outs : outs[i] # "none" /\ InTrace(outs)[i] = step}

Noted(q) == \E k \in DOMAIN audit : q = <<audit[k].round, audit[k].call>>

Recorded ==
    /\ phase \in {"head", "asking", "closing", "answered"} =>
           \A step \in Step : Times(steps, step) = Times(audit, step)
    /\ phase = "running" =>
           \A step \in Step :
               Times(audit, step) = Times(steps, step) + Cardinality(Ended(outputs, step))
    /\ \A q \in queried :
          \/ Noted(q)
          \/ q[1] = stepN /\ phase = "failed"
          \/ /\ q[1] = stepN /\ phase = "running"
             /\ q[2] \in DOMAIN outputs /\ outputs[q[2]] = "none"

\* The trace and the audit are counted alike.
Of(step) == {e \in Step \cup Entries : e.tool = step.tool /\ e.ok = step.ok}

LEMMA TimesIsCount ==
  ASSUME NEW step \in Step, NEW s \in Seq(Step) \cup Seq(Entries)
  PROVE  Times(s, step) = Count(s, Of(step)) /\ Times(s, step) \in Nat
<1>1. \A k \in DOMAIN s : s[k] \in Step \cup Entries
  OBVIOUS
<1>2. \A k \in DOMAIN s : [tool |-> s[k].tool, ok |-> s[k].ok] = step <=> s[k] \in Of(step)
  BY <1>1 DEF Of, Step
<1>3. {k \in DOMAIN s : [tool |-> s[k].tool, ok |-> s[k].ok] = step}
        = {k \in DOMAIN s : s[k] \in Of(step)}
  BY <1>2
<1>4. Count(s, Of(step)) \in Nat
  <2>1. CASE s \in Seq(Step)
    BY <2>1, CountIsNat
  <2>2. CASE s \in Seq(Entries)
    BY <2>2, CountIsNat
  <2> QED
    BY <2>1, <2>2
<1> QED
  BY <1>3, <1>4 DEF Times, Count

LEMMA EndedIsFinite ==
  ASSUME NEW n \in Nat, NEW outs \in [1 .. n -> {"none", "ok", "error"}], NEW step
  PROVE  IsFiniteSet(Ended(outs, step)) /\ Cardinality(Ended(outs, step)) \in Nat
<1>1. IsFiniteSet(1 .. n)
  BY FS_Interval
<1>2. Ended(outs, step) \in SUBSET (1 .. n)
  BY DEF Ended
<1> QED
  BY <1>1, <1>2, FS_Subset, FS_CardinalityType

\* A tool that ends is one more of its kind, there and in the audit.
LEMMA OneMoreEnded ==
  ASSUME TurnTyped, NEW i \in DOMAIN outputs, NEW out \in {"ok", "error"}, ToolEnds(i, out),
         NEW step \in Step
  PROVE  LET one == IF [tool |-> Calls[i], ok |-> out = "ok"] = step THEN 1 ELSE 0
         IN /\ Cardinality(Ended(With(i, out), step)) = Cardinality(Ended(outputs, step)) + one
            /\ Times(Append(audit, Entry(i, out)), step) = Times(audit, step) + one
<1> DEFINE one == IF [tool |-> Calls[i], ok |-> out = "ok"] = step THEN 1 ELSE 0
           new == Ended(With(i, out), step)
           old == Ended(outputs, step)
<1>1. /\ phase = "running" /\ outputs[i] = "none" /\ Entry(i, out) \in Entries
      /\ With(i, out) \in [1 .. Len(Calls) -> {"none", "ok", "error"}]
      /\ audit \in Seq(Entries)
  BY OneToolEnds DEF TurnTyped
<1>2. /\ outputs \in [1 .. Len(Calls) -> {"none", "ok", "error"}]
      /\ DOMAIN outputs = 1 .. Len(Calls) /\ Len(Calls) \in Nat
  BY <1>1, TheRoundThatRuns
<1>3. new = old \cup (IF one = 1 THEN {i} ELSE {}) /\ i \notin old
  <2>1. i \notin old
    BY <1>1 DEF Ended
  <2>2. \A j \in 1 .. Len(Calls) : j # i => With(i, out)[j] = outputs[j]
    BY <1>2 DEF With
  <2>3. With(i, out)[i] = out /\ out # "none"
    BY <1>2 DEF With
  <2>4. /\ DOMAIN With(i, out) = 1 .. Len(Calls)
        /\ \A j \in 1 .. Len(Calls) :
              InTrace(With(i, out))[j] = [tool |-> Calls[j], ok |-> With(i, out)[j] = "ok"]
        /\ \A j \in 1 .. Len(Calls) : InTrace(outputs)[j] = [tool |-> Calls[j], ok |-> outputs[j] = "ok"]
    BY <1>1, <1>2 DEF InTrace
  <2>5. \A j \in 1 .. Len(Calls) : j # i => (j \in new <=> j \in old)
    BY <1>2, <2>2, <2>4 DEF Ended
  <2>6. i \in new <=> one = 1
    <3>1. InTrace(With(i, out))[i] = [tool |-> Calls[i], ok |-> out = "ok"]
      BY <1>2, <2>3, <2>4
    <3>2. i \in new <=> InTrace(With(i, out))[i] = step
      BY <1>2, <2>3, <2>4 DEF Ended
    <3> QED
      BY <3>1, <3>2
  <2>7. new \subseteq 1 .. Len(Calls) /\ old \subseteq 1 .. Len(Calls) /\ i \in 1 .. Len(Calls)
    BY <1>2, <2>4 DEF Ended
  <2> HIDE DEF new, old, one
  <2> QED
    BY <2>1, <2>5, <2>6, <2>7
<1>4. IsFiniteSet(old) /\ Cardinality(old) \in Nat
  BY <1>2, EndedIsFinite
<1>5. one \in {0, 1}
  OBVIOUS
<1>6. Cardinality(new) = Cardinality(old) + one
  <2> HIDE DEF new, old, one
  <2>1. CASE one = 1
    <3>1. new = old \cup {i}
      BY <1>3, <2>1
    <3>2. Cardinality(old \cup {i}) = Cardinality(old) + 1
      BY <1>3, <1>4, FS_AddElement
    <3> QED
      BY <2>1, <3>1, <3>2
  <2>2. CASE one = 0
    <3>1. new = old
      BY <1>3, <2>2
    <3> QED
      BY <1>4, <2>2, <3>1
  <2> QED
    BY <1>5, <2>1, <2>2
<1>7. Times(Append(audit, Entry(i, out)), step) = Times(audit, step) + one
  <2>1. Append(audit, Entry(i, out)) \in Seq(Entries)
    BY <1>1
  <2>2. Entry(i, out) \in Of(step) <=> one = 1
    <3>1. Entry(i, out).tool = Calls[i] /\ Entry(i, out).ok = (out = "ok")
      BY DEF Entry
    <3> QED
      BY <1>1, <3>1 DEF Of, Step
  <2> HIDE DEF one
  <2>3. Count(Append(audit, Entry(i, out)), Of(step))
          = Count(audit, Of(step)) + (IF Entry(i, out) \in Of(step) THEN 1 ELSE 0)
    BY <1>1, CountOneMore
  <2>4. /\ Times(Append(audit, Entry(i, out)), step) = Count(Append(audit, Entry(i, out)), Of(step))
        /\ Times(audit, step) = Count(audit, Of(step))
    BY <1>1, <2>1, TimesIsCount
  <2> QED
    BY <1>5, <2>2, <2>3, <2>4
<1> HIDE DEF new, old
<1> QED
  BY <1>6, <1>7 DEF new, old

\* When the round is over the trace catches up.
LEMMA TheTraceCatchesUp ==
  ASSUME TurnTyped, phase = "running", NEW step \in Step,
         NEW outs \in [1 .. Len(Calls) -> {"none", "ok", "error"}],
         \A j \in DOMAIN outs : outs[j] # "none"
  PROVE  Times(steps \o InTrace(outs), step) = Times(steps, step) + Cardinality(Ended(outs, step))
<1>1. InTrace(outs) \in Seq(Step) /\ steps \in Seq(Step)
  BY TheRoundThatEnds DEF TurnTyped
<1>2. steps \o InTrace(outs) \in Seq(Step)
  BY <1>1
<1>3. /\ Times(steps \o InTrace(outs), step) = Count(steps \o InTrace(outs), Of(step))
      /\ Times(steps, step) = Count(steps, Of(step))
      /\ Times(InTrace(outs), step) = Count(InTrace(outs), Of(step))
  BY <1>1, <1>2, TimesIsCount
<1>4. Count(steps \o InTrace(outs), Of(step)) = Count(steps, Of(step)) + Count(InTrace(outs), Of(step))
  BY <1>1, CountOfBoth
<1>5. Times(InTrace(outs), step) = Cardinality(Ended(outs, step))
  <2>1. \A k \in DOMAIN InTrace(outs) :
           [tool |-> InTrace(outs)[k].tool, ok |-> InTrace(outs)[k].ok] = InTrace(outs)[k]
    BY DEF InTrace
  <2>2. DOMAIN InTrace(outs) = DOMAIN outs
    BY DEF InTrace
  <2>3. {k \in DOMAIN InTrace(outs) :
            [tool |-> InTrace(outs)[k].tool, ok |-> InTrace(outs)[k].ok] = step}
          = Ended(outs, step)
    BY <2>1, <2>2 DEF Ended
  <2> QED
    BY <2>3 DEF Times
<1> QED
  BY <1>3, <1>4, <1>5

LEMMA RecordedInit == Init => Recorded
<1> SUFFICES ASSUME Init PROVE Recorded
  OBVIOUS
<1>1. phase = "head" /\ steps = <<>> /\ audit = <<>> /\ queried = {}
  BY Zenon DEF Init
<1> QED
  BY <1>1 DEF Recorded

\* Steps that leave the records alone, and do not start or end a round.
LEMMA NothingRecorded ==
  ASSUME Recorded, UNCHANGED <<stepN, steps, audit, queried>>,
         \/ phase' = phase /\ UNCHANGED <<outputs, history>>
         \/ /\ phase \in {"head", "asking", "closing", "answered"}
            /\ phase' \in {"head", "asking", "closing", "answered", "failed"}
         \/ phase' = "failed"
  PROVE  Recorded'
<1>1. \A q \in queried : Noted(q)' <=> Noted(q)
  BY DEF Noted
<1>2. \A step \in Step : Times(steps, step)' = Times(steps, step) /\ Times(audit, step)' = Times(audit, step)
  BY DEF Times
<1>3. CASE phase' = phase /\ UNCHANGED <<outputs, history>>
  <2>1. \A step \in Step : Ended(outputs, step)' = Ended(outputs, step)
    BY <1>3 DEF Ended, InTrace, Calls
  <2> QED
    BY <1>1, <1>2, <1>3, <2>1 DEF Recorded
<1>4. CASE /\ phase \in {"head", "asking", "closing", "answered"}
           /\ phase' \in {"head", "asking", "closing", "answered", "failed"}
  BY <1>1, <1>2, <1>4 DEF Recorded
<1>5. CASE phase' = "failed"
  BY <1>1, <1>2, <1>5 DEF Recorded
<1> QED
  BY <1>3, <1>4, <1>5

\* A round that starts has queried what is allowed, and nothing has ended.
LEMMA RequestIsRecorded ==
  ASSUME TurnTyped, Recorded, NEW calls \in Requests, RequestTools(calls)
  PROVE  Recorded'
<1>1. /\ phase = "asking" /\ phase' = "running" /\ outputs' = [i \in DOMAIN calls |-> "none"]
      /\ UNCHANGED <<stepN, steps, audit>>
      /\ queried' = queried \cup
             {<<stepN, i>> : i \in {j \in DOMAIN calls : Allowed(calls[j])}}
  BY DEF RequestTools
<1>2. ASSUME NEW step \in Step
      PROVE  Times(audit, step)' = Times(steps, step)' + Cardinality(Ended(outputs, step)')
  <2>1. Ended(outputs, step)' = {}
    BY <1>1 DEF Ended
  <2>2. Times(audit, step) = Times(steps, step) /\ Times(steps, step) \in Nat
    BY <1>1, TimesIsCount DEF Recorded, TurnTyped
  <2>3. Times(audit, step)' = Times(audit, step) /\ Times(steps, step)' = Times(steps, step)
    BY <1>1 DEF Times
  <2>4. Cardinality(Ended(outputs, step)') = 0
    BY <2>1, FS_EmptySet, Zenon
  <2> QED
    BY <2>2, <2>3, <2>4
<1>3. ASSUME NEW q \in queried'
      PROVE  Noted(q)' \/ (q[1] = stepN /\ q[2] \in DOMAIN outputs' /\ outputs'[q[2]] = "none")
  <2>1. CASE q \in queried
    BY <1>1, <2>1 DEF Recorded, Noted
  <2>2. CASE q \notin queried
    BY <1>1, <1>3, <2>2
  <2> QED
    BY <2>1, <2>2
<1> QED
  BY <1>1, <1>2, <1>3 DEF Recorded

\* A tool that ends is in the audit before the trace.
LEMMA EndIsRecorded ==
  ASSUME TurnTyped, Recorded, NEW i \in DOMAIN outputs, NEW out \in {"ok", "error"},
         ToolEnds(i, out)
  PROVE  Recorded'
<1> DEFINE outs == With(i, out)
<1>1. /\ phase = "running" /\ outs \in [1 .. Len(Calls) -> {"none", "ok", "error"}]
      /\ audit' = Append(audit, Entry(i, out)) /\ audit \in Seq(Entries)
      /\ queried' = queried /\ Len(Calls) \in Nat
      /\ RunsOn(outs) \/ IsOver(outs)
  BY OneToolEnds, TheRoundThatRuns DEF TurnTyped
<1>2. ASSUME NEW step \in Step
      PROVE  Times(audit', step) = Times(steps, step) + Cardinality(Ended(outs, step))
  <2>1. Times(audit, step) = Times(steps, step) + Cardinality(Ended(outputs, step))
    BY <1>1 DEF Recorded
  <2>2. Times(steps, step) \in Nat /\ Cardinality(Ended(outputs, step)) \in Nat
    BY <1>1, TimesIsCount, TheRoundThatRuns, EndedIsFinite DEF TurnTyped
  <2> DEFINE one == IF [tool |-> Calls[i], ok |-> out = "ok"] = step THEN 1 ELSE 0
  <2>3. /\ Cardinality(Ended(outs, step)) = Cardinality(Ended(outputs, step)) + one
        /\ Times(audit', step) = Times(audit, step) + one
    BY <1>1, OneMoreEnded
  <2>4. one \in Nat
    OBVIOUS
  <2> HIDE DEF one, outs
  <2> QED
    BY <2>1, <2>2, <2>3, <2>4
\* What was noted stays, and the tool that ends is.
<1>3. ASSUME NEW q \in queried PROVE Noted(q)' \/ (q[1] = stepN /\ outs[q[2]] = "none" /\ q[2] \in DOMAIN outs)
  <2>1. /\ Len(audit) \in Nat /\ Len(audit') = Len(audit) + 1
        /\ \A k \in DOMAIN audit : k \in DOMAIN audit' /\ audit'[k] = audit[k]
        /\ Len(audit) + 1 \in DOMAIN audit' /\ audit'[Len(audit) + 1] = Entry(i, out)
    BY <1>1
  <2>2. CASE Noted(q)
    BY <2>1, <2>2 DEF Noted
  <2>3. CASE q[1] = stepN /\ q[2] \in DOMAIN outputs /\ outputs[q[2]] = "none"
    <3>1. CASE q[2] = i
      <4>1. q = <<stepN, i>>
        <5>1. q \in (0 .. (MaxSteps - 1)) \X (1 .. MaxCalls)
          BY DEF TurnTyped
        <5> QED
          BY <2>3, <3>1, <5>1
      <4>2. Entry(i, out).round = stepN /\ Entry(i, out).call = i
        BY DEF Entry
      <4> QED
        BY <2>1, <4>1, <4>2 DEF Noted
    <3>2. CASE q[2] # i
      <4>1. outputs \in [1 .. Len(Calls) -> {"none", "ok", "error"}]
        BY <1>1, TheRoundThatRuns
      <4> QED
        BY <2>3, <3>2, <4>1 DEF With
    <3> QED
      BY <3>1, <3>2
  <2> QED
    BY <1>1, <2>2, <2>3 DEF Recorded
<1> HIDE DEF outs
<1>4. CASE RunsOn(outs)
  <2>1. /\ outputs' = outs /\ UNCHANGED <<phase, stepN, steps, history>>
    BY <1>4 DEF RunsOn
  <2>2. \A step \in Step : /\ Ended(outputs, step)' = Ended(outs, step)
                            /\ Times(steps, step)' = Times(steps, step)
                            /\ Times(audit, step)' = Times(audit', step)
    BY <2>1 DEF Ended, InTrace, Calls, Times
  <2> QED
    BY <1>1, <1>2, <1>3, <2>1, <2>2 DEF Recorded
<1>5. CASE IsOver(outs)
  <2>1. /\ \A j \in DOMAIN outs : outs[j] # "none"
        /\ phase' = "head" /\ steps' = steps \o InTrace(outs)
    BY <1>5 DEF IsOver
  <2>2. \A step \in Step : Times(steps', step) = Times(steps, step) + Cardinality(Ended(outs, step))
    BY <1>1, <2>1, TheTraceCatchesUp
  <2>3. \A step \in Step : /\ Times(steps, step)' = Times(steps', step)
                            /\ Times(audit, step)' = Times(audit', step)
    BY DEF Times
  <2>4. \A q \in queried : Noted(q)'
    BY <1>1, <1>3, <2>1
  <2> QED
    BY <1>1, <1>2, <2>1, <2>2, <2>3, <2>4 DEF Recorded
<1> QED
  BY <1>1, <1>4, <1>5

LEMMA RecordedStep == TurnTyped /\ Recorded /\ [Next]_vars => Recorded'
<1> SUFFICES ASSUME TurnTyped, Recorded, [Next]_vars PROVE Recorded'
  OBVIOUS
<1>1. CASE Ask
  BY <1>1, NothingRecorded DEF Ask
<1>2. CASE Stop
  BY <1>2, NothingRecorded DEF Stop
<1>3. ASSUME NEW said \in {"blank", "model"}, Reply(said) \/ CloseTurn(said)
      PROVE  Recorded'
  BY <1>3, NothingRecorded DEF Reply, CloseTurn
<1>4. ASSUME NEW calls \in Requests, RequestTools(calls)
      PROVE  Recorded'
  BY <1>4, RequestIsRecorded
<1>5. CASE ModelFails \/ Cancel
  BY <1>5, NothingRecorded DEF ModelFails, Cancel, Fails
<1>6. ASSUME NEW i \in DOMAIN outputs, NEW out \in {"ok", "error"}, ToolEnds(i, out)
      PROVE  Recorded'
  BY <1>6, EndIsRecorded
<1>7. CASE Tick
  BY <1>7, NothingRecorded DEF Tick
<1>8. CASE UNCHANGED vars
  BY <1>8, NothingRecorded DEF vars
<1> QED
  BY <1>1, <1>2, <1>3, <1>4, <1>5, <1>6, <1>7, <1>8 DEF Next, Turn, Model

LEMMA AlwaysRecorded == Spec => []Recorded
BY RecordedInit, RecordedStep, AlwaysTyped, PTL DEF Spec

\* The audit says what was done (audit.py:3-6, loop.py): the trace that the
\* user gets and the entries tell of each tool, and how it went, as many times
\* as it ran; and what was asked of a backend is in the audit, but for the
\* round under way and the one in which the turn was cancelled.
THEOREM TheAuditIsFaithful == Spec => []AuditIsFaithful
<1>1. Recorded => AuditIsFaithful
  BY Zenon DEF Recorded, AuditIsFaithful, TraceIsAudited, QueriesAreAudited, Noted, Step
<1> QED
  BY <1>1, AlwaysRecorded, PTL

-----------------------------------------------------------------------------
(***************************************************************************)
(* A turn is a dialogue: what the model is shown grows by whole rounds.    *)
(* A round that runs is one message, its request, that is not shown yet.   *)
(***************************************************************************)
Asked == [role : {"assistant"}, calls : Requests]

Talks ==
    /\ phase \notin {"running", "failed"} => Seen = history
    /\ phase = "running" => Seen \in Seq(Message) /\ history = Append(Seen, Assistant(Calls))
    /\ phase \in {"head", "asking", "running"} =>
           /\ Count(Seen, Asked) = stepN
           /\ \A k \in DOMAIN Seen : Seen[k] # CloseNow

\* What ends in no request is shown as it is, and a request is held back.
LEMMA ShownAsItIs ==
  ASSUME history = <<>> \/ Last(history).role # "assistant"
  PROVE  Seen = history
BY DEF Seen

LEMMA HeldBack ==
  ASSUME NEW h \in Seq(Message), NEW calls \in Requests
  PROVE  /\ Append(h, Assistant(calls)) # <<>> /\ Last(Append(h, Assistant(calls))) = Assistant(calls)
         /\ Front(Append(h, Assistant(calls))) = h
<1>1. Assistant(calls) \in Message
  BY DEF Message, Assistant
<1>2. /\ Append(h, Assistant(calls)) \in Seq(Message)
      /\ Len(Append(h, Assistant(calls))) = Len(h) + 1
      /\ Append(h, Assistant(calls))[Len(h) + 1] = Assistant(calls)
  BY <1>1
<1>3. SubSeq(Append(h, Assistant(calls)), 1, Len(h)) = h
  BY <1>1
<1>4. Len(h) + 1 - 1 = Len(h)
  OBVIOUS
<1> QED
  BY <1>2, <1>3, <1>4 DEF Front, Last

\* A round that is answered: a request and an answer for each of its calls.
LEMMA TheRoundIsShown ==
  ASSUME TurnTyped, Talks, phase = "running",
         NEW outs \in [1 .. Len(Calls) -> {"none", "ok", "error"}], IsOver(outs)
  PROVE  /\ Seen' = history' /\ history' = Append(Seen, Assistant(Calls)) \o Answers(outs)
         /\ Count(Seen', Asked) = stepN + 1
         /\ \A k \in DOMAIN Seen' : Seen'[k] # CloseNow
<1> DEFINE shown == Append(Seen, Assistant(Calls))
           answers == Answers(outs)
<1>1. /\ Seen \in Seq(Message) /\ history = shown /\ Count(Seen, Asked) = stepN
      /\ \A k \in DOMAIN Seen : Seen[k] # CloseNow
  BY DEF Talks
<1>2. Calls \in Requests /\ Len(Calls) \in Nat \ {0}
  BY TheRoundThatRuns
<1>3. Assistant(Calls) \in Message /\ Assistant(Calls) \in Asked /\ Assistant(Calls) # CloseNow
  BY <1>2 DEF Message, Assistant, Asked, CloseNow
<1>4. /\ answers \in Seq(Message) /\ Len(answers) = Len(Calls)
      /\ \A i \in 1 .. Len(Calls) : answers[i] = Answer(i, Calls[i], outs[i] = "ok")
  BY TheRoundThatEnds
<1>5. \A i \in 1 .. Len(Calls) :
         answers[i].role = "tool" /\ answers[i] \notin Asked /\ answers[i] # CloseNow
  <2> HIDE DEF answers
  <2>1. \A i \in 1 .. Len(Calls) : answers[i].role = "tool"
    <3>1. \A i, name, ok : Answer(i, name, ok).role = "tool"
      BY DEF Answer
    <3> QED
      BY <1>4, <3>1
  <2>2. \A m : m.role = "tool" => m \notin Asked /\ m # CloseNow
    BY DEF Asked, CloseNow
  <2> QED
    BY <2>1, <2>2
<1>6. shown \in Seq(Message) /\ history' = shown \o answers
  BY <1>1, <1>3 DEF IsOver
<1> HIDE DEF answers
<1>7. Len(answers) \in Nat \ {0} /\ DOMAIN answers = 1 .. Len(answers)
  BY <1>2, <1>4
<1>8. Last(history').role # "assistant"
  <2> HIDE DEF shown
  <2>0. shown \in Seq(Message) /\ answers \in Seq(Message)
    BY <1>4, <1>6
  <2>1. Len(shown \o answers) = Len(shown) + Len(answers) /\ Len(shown) \in Nat
    BY <2>0
  <2>2. (shown \o answers)[Len(shown) + Len(answers)] = answers[Len(answers)]
    BY <1>4, <1>6, <1>7
  <2> QED
    BY <1>4, <1>5, <1>6, <1>7, <2>1, <2>2 DEF Last
<1>9. Seen' = history'
  BY <1>8 DEF Seen
<1>10. Count(Seen', Asked) = stepN + 1
  <2>1. Count(shown, Asked) = stepN + 1
    BY <1>1, <1>3, CountOneMore
  <2>2. Count(answers, Asked) = 0
    BY <1>4, <1>5, <1>7, CountNone
  <2> HIDE DEF shown
  <2>3. Count(shown \o answers, Asked) = Count(shown, Asked) + Count(answers, Asked)
    BY <1>4, <1>6, CountOfBoth
  <2>4. stepN \in Nat
    BY DEF TurnTyped
  <2> QED
    BY <1>6, <1>9, <2>1, <2>2, <2>3, <2>4
<1>11. \A k \in DOMAIN Seen' : Seen'[k] # CloseNow
  <2>1. \A k \in DOMAIN shown : shown[k] # CloseNow
    BY <1>1, <1>3
  <2> HIDE DEF shown
  <2>2. ASSUME NEW k \in DOMAIN (shown \o answers) PROVE (shown \o answers)[k] # CloseNow
    <3>1. k \in 1 .. Len(shown) + Len(answers) /\ Len(shown) \in Nat
      BY <1>4, <1>6
    <3>2. CASE k <= Len(shown)
      BY <1>4, <1>6, <2>1, <3>1, <3>2
    <3>3. CASE k > Len(shown)
      <4>1. k - Len(shown) \in 1 .. Len(Calls)
        BY <1>4, <3>1, <3>3
      <4>2. (shown \o answers)[k] = answers[k - Len(shown)]
        BY <1>4, <1>6, <3>1, <3>3
      <4> QED
        BY <1>5, <4>1, <4>2
    <3> QED
      BY <3>1, <3>2, <3>3
  <2> QED
    BY <1>6, <1>9, <2>2
<1> QED
  BY <1>1, <1>6, <1>9, <1>10, <1>11 DEF answers

LEMMA TalksInit == Init => Talks
<1> SUFFICES ASSUME Init PROVE Talks
  OBVIOUS
<1>1. phase = "head" /\ history = <<>> /\ stepN = 0
  BY Zenon DEF Init
<1>2. Seen = <<>>
  BY <1>1 DEF Seen
<1> QED
  BY <1>1, <1>2, CountNone DEF Talks

\* Steps that leave the messages alone: the rounds shown stay as they are.
LEMMA NothingSaid ==
  ASSUME Talks, UNCHANGED <<history, stepN>>,
         \/ phase' = phase
         \/ phase \notin {"running", "failed"} /\ phase' \in {"asking", "answered", "failed"}
            /\ (phase' = "asking" => phase = "head")
         \/ phase' = "failed"
  PROVE  Talks' /\ Seen' = Seen
<1>1. Seen' = Seen /\ Calls' = Calls
  BY DEF Seen, Calls
<1>2. Count(Seen, Asked)' = Count(Seen, Asked)
  BY <1>1 DEF Count
<1> QED
  BY <1>1, <1>2 DEF Talks

LEMMA StopIsAskToClose ==
  ASSUME TurnTyped, Talks, Stop
  PROVE  /\ Talks' /\ Seen' = Append(Seen, CloseNow)
         /\ \A k \in DOMAIN Seen : Seen[k] # CloseNow
<1>1. /\ phase = "head" /\ phase' = "closing" /\ history' = Append(history, CloseNow)
      /\ history \in Seq(Message) /\ Seen = history
      /\ \A k \in DOMAIN Seen : Seen[k] # CloseNow
  BY DEF Stop, Talks, TurnTyped
<1>2. Last(history').role # "assistant"
  BY <1>1 DEF Last, CloseNow
<1>3. Seen' = history'
  BY <1>2 DEF Seen
<1> QED
  BY <1>1, <1>3 DEF Talks

LEMMA RequestIsHeldBack ==
  ASSUME TurnTyped, Talks, NEW calls \in Requests, RequestTools(calls)
  PROVE  Talks' /\ Seen' = Seen
<1>1. /\ phase = "asking" /\ phase' = "running" /\ history' = Append(history, Assistant(calls))
      /\ history \in Seq(Message) /\ Seen = history /\ stepN' = stepN
  BY DEF RequestTools, Talks, TurnTyped
<1>2. /\ history' # <<>> /\ Last(history') = Assistant(calls) /\ Front(history') = history
  BY <1>1, HeldBack
<1>3. Seen' = Seen
  BY <1>1, <1>2 DEF Seen, Assistant
<1>4. Calls' = calls
  BY <1>2 DEF Calls, Assistant
<1>5. Count(Seen, Asked)' = Count(Seen, Asked)
  BY <1>3 DEF Count
<1> QED
  BY <1>1, <1>3, <1>4, <1>5 DEF Talks

LEMMA EndOfToolIsShown ==
  ASSUME TurnTyped, Talks, NEW i \in DOMAIN outputs, NEW out \in {"ok", "error"}, ToolEnds(i, out)
  PROVE  /\ Talks' /\ phase = "running" /\ phase' \in {"running", "head"}
         /\ \/ Seen' = Seen
            \/ \E outs \in [1 .. Len(Calls) -> {"none", "ok", "error"}] :
                  Seen' = Append(Seen, Assistant(Calls)) \o Answers(outs)
<1> DEFINE outs == With(i, out)
<1>1. /\ phase = "running" /\ outs \in [1 .. Len(Calls) -> {"none", "ok", "error"}]
      /\ RunsOn(outs) \/ IsOver(outs)
  BY OneToolEnds
<1> HIDE DEF outs
<1>2. CASE RunsOn(outs)
  BY <1>1, <1>2, NothingSaid DEF RunsOn
<1>3. CASE IsOver(outs)
  <2>1. /\ Seen' = history' /\ history' = Append(Seen, Assistant(Calls)) \o Answers(outs)
        /\ Count(Seen', Asked) = stepN + 1
        /\ \A k \in DOMAIN Seen' : Seen'[k] # CloseNow
    BY <1>1, <1>3, TheRoundIsShown
  <2>2. phase' = "head" /\ stepN' = stepN + 1
    BY <1>3 DEF IsOver
  <2>3. Count(Seen, Asked)' = Count(Seen', Asked)
    BY DEF Count
  <2> QED
    BY <1>1, <2>1, <2>2, <2>3 DEF Talks
<1> QED
  BY <1>1, <1>2, <1>3

\* The rounds that Dialogue counts are those that were asked for.
LEMMA RoundsAreCounted ==
  ASSUME TurnTyped, Talks, phase = "running"
  PROVE  TurnDialogue!Rounds < MaxSteps
<1>1. Seen \in Seq(Message) /\ Count(Seen, Asked) = stepN /\ stepN < MaxSteps
  BY DEF Talks, TurnTyped
<1>2. \A k \in DOMAIN Seen : Seen[k].role = "assistant" <=> Seen[k] \in Asked
  <2>1. \A k \in DOMAIN Seen : Seen[k] \in Message
    BY <1>1
  <2>2. \A m \in Message : m.role = "assistant" <=> m \in Asked
    BY DEF Message, Asked, CloseNow
  <2> QED
    BY <2>1, <2>2
<1>3. {k \in DOMAIN Seen : Seen[k].role = "assistant"} = {k \in DOMAIN Seen : Seen[k] \in Asked}
  BY <1>2
<1>4. TurnDialogue!Rounds = Count(Seen, Asked)
  BY <1>3, Zenon DEF TurnDialogue!Rounds, Count, Cardinality, TurnDialogue!Cardinality
<1> QED
  BY <1>1, <1>4

LEMMA TalksStep ==
  TurnTyped /\ Talks /\ [Next]_vars =>
      Talks' /\ [TurnDialogue!DialogueNext]_(TurnDialogue!dvars)
<1> SUFFICES ASSUME TurnTyped, Talks, [Next]_vars
             PROVE  Talks' /\ [TurnDialogue!DialogueNext]_(TurnDialogue!dvars)
  OBVIOUS
<1> DEFINE over == phase \in {"answered", "failed"}
\* A step that shows nothing, and one that only ends the turn.
<1>a. ASSUME Seen' = Seen, over' <=> over
      PROVE  [TurnDialogue!DialogueNext]_(TurnDialogue!dvars)
  BY <1>a DEF TurnDialogue!dvars
<1>b. ASSUME Seen' = Seen, ~over, over'
      PROVE  [TurnDialogue!DialogueNext]_(TurnDialogue!dvars)
  BY <1>b DEF TurnDialogue!DialogueNext, TurnDialogue!End
<1>1. CASE Ask
  <2>1. Talks' /\ Seen' = Seen
    BY <1>1, NothingSaid DEF Ask
  <2> QED
    BY <1>1, <1>a, <2>1 DEF Ask
<1>2. CASE Stop
  <2>1. /\ Talks' /\ Seen' = Append(Seen, CloseNow) /\ ~over /\ ~over'
        /\ \A k \in DOMAIN Seen : Seen[k] # CloseNow
    BY <1>2, StopIsAskToClose DEF Stop
  <2>2. TurnDialogue!AskToClose
    BY <2>1 DEF TurnDialogue!AskToClose, TurnDialogue!CloseNow, CloseNow
  <2> QED
    BY <2>1, <2>2 DEF TurnDialogue!DialogueNext
<1>3. ASSUME NEW said \in {"blank", "model"}, Reply(said) \/ CloseTurn(said)
      PROVE  Talks' /\ [TurnDialogue!DialogueNext]_(TurnDialogue!dvars)
  <2>1. Talks' /\ Seen' = Seen
    BY <1>3, NothingSaid DEF Reply, CloseTurn
  <2> QED
    BY <1>3, <1>b, <2>1 DEF Reply, CloseTurn
<1>4. ASSUME NEW calls \in Requests, RequestTools(calls)
      PROVE  Talks' /\ [TurnDialogue!DialogueNext]_(TurnDialogue!dvars)
  <2>1. Talks' /\ Seen' = Seen
    BY <1>4, RequestIsHeldBack
  <2> QED
    BY <1>4, <1>a, <2>1 DEF RequestTools
<1>5. CASE ModelFails \/ Cancel
  <2>1. Talks' /\ Seen' = Seen
    BY <1>5, NothingSaid DEF ModelFails, Cancel, Fails
  <2> QED
    BY <1>5, <1>b, <2>1 DEF ModelFails, Cancel, Fails
<1>6. ASSUME NEW i \in DOMAIN outputs, NEW out \in {"ok", "error"}, ToolEnds(i, out)
      PROVE  Talks' /\ [TurnDialogue!DialogueNext]_(TurnDialogue!dvars)
  <2>1. /\ Talks' /\ phase = "running" /\ phase' \in {"running", "head"}
        /\ \/ Seen' = Seen
           \/ \E outs \in [1 .. Len(Calls) -> {"none", "ok", "error"}] :
                 Seen' = Append(Seen, Assistant(Calls)) \o Answers(outs)
    BY <1>6, EndOfToolIsShown
  <2>2. ~over /\ ~over'
    BY <2>1
  <2>3. ASSUME NEW outs \in [1 .. Len(Calls) -> {"none", "ok", "error"}],
               Seen' = Append(Seen, Assistant(Calls)) \o Answers(outs)
        PROVE  TurnDialogue!Round
    <3> DEFINE oks == [i_1 \in DOMAIN Calls |-> outs[i_1] = "ok"]
    <3>1. Calls \in Requests /\ DOMAIN Calls = 1 .. Len(Calls) /\ DOMAIN outs = 1 .. Len(Calls)
      BY <2>1, TheRoundThatRuns
    <3>2. oks \in [DOMAIN Calls -> BOOLEAN]
      OBVIOUS
    <3>3. Answers(outs) = [j \in DOMAIN Calls |-> TurnDialogue!Answer(j, Calls[j], oks[j])]
      BY <3>1 DEF Answers, Answer, TurnDialogue!Answer
    <3>4. Assistant(Calls) = TurnDialogue!Assistant(Calls)
      BY DEF Assistant, TurnDialogue!Assistant
    <3>5. TurnDialogue!CloseNow \notin {Seen[k] : k \in DOMAIN Seen}
      BY <2>1 DEF Talks, TurnDialogue!CloseNow, CloseNow
    <3>6. TurnDialogue!Rounds < MaxSteps
      BY <2>1, RoundsAreCounted
    <3>7. UNCHANGED (phase \in {"answered", "failed"})
      BY <2>2
    <3> HIDE DEF oks
    <3>8. Seen' = Append(Seen, TurnDialogue!Assistant(Calls))
                    \o [j \in DOMAIN Calls |-> TurnDialogue!Answer(j, Calls[j], oks[j])]
      BY <2>3, <3>3, <3>4
    <3> QED
      BY <2>2, <3>1, <3>2, <3>5, <3>6, <3>7, <3>8 DEF TurnDialogue!Round
  <2> QED
    BY <1>a, <2>1, <2>2, <2>3 DEF TurnDialogue!DialogueNext
<1>7. CASE Tick
  <2>1. Talks' /\ Seen' = Seen
    BY <1>7, NothingSaid DEF Tick
  <2> QED
    BY <1>7, <1>a, <2>1 DEF Tick
<1>8. CASE UNCHANGED vars
  <2>1. Talks' /\ Seen' = Seen
    BY <1>8, NothingSaid DEF vars
  <2> QED
    BY <1>8, <1>a, <2>1 DEF vars
<1> QED
  BY <1>1, <1>2, <1>3, <1>4, <1>5, <1>6, <1>7, <1>8 DEF Next, Turn, Model

LEMMA DialogueInits == Init => TurnDialogue!DialogueInit
<1> SUFFICES ASSUME Init PROVE TurnDialogue!DialogueInit
  OBVIOUS
<1>1. phase = "head" /\ history = <<>>
  BY Zenon DEF Init
<1> QED
  BY <1>1 DEF TurnDialogue!DialogueInit, Seen

\* loop.run implements the steps of Dialogue, however the tools of a round
\* interleave and fail, wherever the turn is cut or cancelled: the model is
\* shown no request without all of its answers, in its order, and at most one
\* request to close, after which it is shown nothing.
THEOREM TheLoopIsADialogue ==
  Spec => TurnDialogue!DialogueInit /\ [][TurnDialogue!DialogueNext]_(TurnDialogue!dvars)
BY TalksInit, TalksStep, DialogueInits, AlwaysTyped, PTL DEF Spec
=============================================================================

---------------------------- MODULE TunnelProofs ----------------------------
(***************************************************************************)
(* The tunnel manager for any pool of process handles.  That the handle is *)
(* never stale, and that no process is lost but by the exit event of       *)
(* another (HeldInv), needs nothing but the handlers: a start that spawns  *)
(* finds no handle to overwrite, because a held child has its attempt in   *)
(* flight or a URL on display.  A truthful status needs exit events to     *)
(* have come before the next start (~late): then at most one process       *)
(* exists at all, and it is either in its attempt or has printed the URL   *)
(* on display (Prompt).                                                    *)
(***************************************************************************)
EXTENDS TunnelManager, TLAPS

HandleInv == child # NoChild => proc[child] = "running"

IInv == TypeOK /\ HandleInv

HeldInv ==
    /\ child # NoChild => attempt = child \/ url # NoChild
    /\ attempt # NoChild => child \in {attempt, NoChild}
    /\ UnstoppedIsHeld
    /\ GracefulExitStopsAll

(* Streams, signals and the steps of the shutdown that leave processes be. *)
ServerStep == OpenStream \/ CloseStream \/ Signal \/ SecondSignal \/ Drain \/ ForceExit

Prompt ==
    /\ \A c, d \in Children : proc[c] # "none" /\ proc[d] # "none" => c = d
    /\ Serving => \A c \in Children : proc[c] = "running" => child = c /\ (attempt = c \/ url = c)
    /\ Serving /\ attempt # NoChild => proc[attempt] # "none"
    /\ Serving /\ url # NoChild => proc[url] # "none" /\ attempt # url
    /\ overtaken = {}

PromptInv == ~late => Prompt
----------------------------------------------------------------------------
LEMMA InitIInv == Init => IInv /\ PromptInv
  BY TunnelAssumption
  DEF Init, IInv, HandleInv, TypeOK, PromptInv, Prompt, ProcState, ServerState

LEMMA StepIInv == IInv /\ [Next]_vars => IInv'
  <1> SUFFICES ASSUME IInv, [Next]_vars PROVE IInv'
    OBVIOUS
  <1> USE TunnelAssumption DEF IInv, TypeOK, HandleInv, ProcState, ServerState
  <1>1. ASSUME NEW c \in Children, Spawn(c) PROVE IInv'
    BY <1>1 DEF Spawn
  <1>2. ASSUME NEW c \in Children, UrlPrinted(c) PROVE IInv'
    BY <1>2 DEF UrlPrinted
  <1>3. ASSUME NEW c \in Children, Timeout(c) PROVE IInv'
    BY <1>3 DEF Timeout, Kill
  <1>4. ASSUME NEW c \in Children, SpawnError(c) PROVE IInv'
    BY <1>4 DEF SpawnError
  <1>5. ASSUME NEW c \in Children, Exit(c) PROVE IInv'
    BY <1>5 DEF Exit, Overtakes
  <1>6. ASSUME NEW c \in Children, Dies(c) PROVE IInv'
    BY <1>6 DEF Dies
  <1>7. ASSUME Stop \/ Leave PROVE IInv'
    BY <1>7 DEF Stop, Leave, StopTunnel, Kill
  <1>8. ASSUME ServerStep \/ UNCHANGED vars PROVE IInv'
    BY <1>8
    DEF ServerStep, OpenStream, CloseStream, StreamsOnly, Signal, SecondSignal, Drain, ForceExit,
        vars
  <1>9. QED
    BY <1>1, <1>2, <1>3, <1>4, <1>5, <1>6, <1>7, <1>8 DEF Next, ServerStep

LEMMA StepHeldInv == IInv /\ HeldInv /\ [Next]_vars => HeldInv'
  <1> SUFFICES ASSUME IInv, HeldInv, [Next]_vars PROVE HeldInv'
    OBVIOUS
  <1> USE TunnelAssumption
      DEF IInv, TypeOK, HandleInv, ProcState, HeldInv, UnstoppedIsHeld, GracefulExitStopsAll,
          Serving
  <1>1. ASSUME NEW c \in Children, Spawn(c) PROVE HeldInv'
    <2>1. child = NoChild
      BY <1>1 DEF Spawn
    <2>2. QED
      BY <1>1, <2>1 DEF Spawn
  <1>2. ASSUME NEW c \in Children, UrlPrinted(c) PROVE HeldInv'
    BY <1>2 DEF UrlPrinted
  <1>3. ASSUME NEW c \in Children, Timeout(c) PROVE HeldInv'
    BY <1>3 DEF Timeout, Kill
  <1>4. ASSUME NEW c \in Children, SpawnError(c) PROVE HeldInv'
    BY <1>4 DEF SpawnError
  <1>5. ASSUME NEW c \in Children, Exit(c) PROVE HeldInv'
    <2>1. /\ overtaken' = (overtaken \ {c}) \union ({child} \ {c, NoChild})
          /\ proc' = [proc EXCEPT ![c] = "none"]
          /\ child' = NoChild /\ url' = NoChild
          /\ attempt' = IF attempt = c THEN NoChild ELSE attempt
          /\ Serving /\ server' = server
      BY <1>5 DEF Exit, Overtakes
    <2>2. \A d \in Children : proc'[d] = "running" => d \in overtaken'
      BY <2>1
    <2>3. QED
      BY <2>1, <2>2
  <1>6. ASSUME NEW c \in Children, Dies(c) PROVE HeldInv'
    BY <1>6 DEF Dies
  <1>7. ASSUME Stop \/ Leave PROVE HeldInv'
    BY <1>7 DEF Stop, Leave, StopTunnel, Kill
  <1>8. ASSUME ServerStep \/ UNCHANGED vars PROVE HeldInv'
    BY <1>8
    DEF ServerStep, OpenStream, CloseStream, StreamsOnly, Signal, SecondSignal, Drain, ForceExit,
        vars
  <1>9. QED
    BY <1>1, <1>2, <1>3, <1>4, <1>5, <1>6, <1>7, <1>8 DEF Next, ServerStep

LEMMA StepPromptInv == IInv /\ PromptInv /\ [Next]_vars => PromptInv'
  <1> SUFFICES ASSUME IInv, PromptInv, [Next]_vars, ~late' PROVE Prompt'
    BY DEF PromptInv
  <1> USE TunnelAssumption
      DEF IInv, TypeOK, HandleInv, ProcState, ServerState, PromptInv, Prompt, Serving
  <1>1. ASSUME NEW c \in Children, Spawn(c) PROVE Prompt'
    <2>1. \A d \in Children : proc[d] = "none"
      BY <1>1 DEF Spawn
    <2>2. url = NoChild
      BY <1>1, <2>1 DEF Spawn
    <2>3. QED
      BY <1>1, <2>1, <2>2 DEF Spawn
  <1>2. ASSUME NEW c \in Children, UrlPrinted(c) PROVE Prompt'
    BY <1>2 DEF UrlPrinted
  <1>3. ASSUME NEW c \in Children, Timeout(c) PROVE Prompt'
    BY <1>3 DEF Timeout, Kill
  <1>4. ASSUME NEW c \in Children, SpawnError(c) PROVE Prompt'
    BY <1>4 DEF SpawnError
  <1>5. ASSUME NEW c \in Children, Exit(c) PROVE Prompt'
    BY <1>5 DEF Exit, Overtakes
  <1>6. ASSUME NEW c \in Children, Dies(c) PROVE Prompt'
    BY <1>6 DEF Dies
  <1>7. ASSUME Stop \/ Leave PROVE Prompt'
    BY <1>7 DEF Stop, Leave, StopTunnel, Kill
  <1>8. ASSUME ServerStep \/ UNCHANGED vars
        PROVE  Prompt'
    BY <1>8
    DEF ServerStep, OpenStream, CloseStream, StreamsOnly, Signal, SecondSignal, Drain, ForceExit,
        vars
  <1>9. QED
    BY <1>1, <1>2, <1>3, <1>4, <1>5, <1>6, <1>7, <1>8 DEF Next, ServerStep
----------------------------------------------------------------------------
(* Every variable keeps its type. *)
THEOREM TypeCorrect == Spec => []TypeOK
  <1>1. IInv => TypeOK
    BY DEF IInv
  <1>2. Init => IInv
    BY InitIInv
  <1>3. QED
    BY <1>1, <1>2, StepIInv, PTL DEF Spec

(* The handle stop() signals is never that of a dead or signalled process, *)
(* however late the events of older children arrive.                       *)
THEOREM HandleNeverStale == Spec => []HandleIsLive
  <1>1. IInv => HandleIsLive
    BY DEF IInv, HandleInv, HandleIsLive
  <1>2. Init => IInv
    BY InitIInv
  <1>3. QED
    BY <1>1, <1>2, StepIInv, PTL DEF Spec

LEMMA HeldAlways == Spec => [](UnstoppedIsHeld /\ GracefulExitStopsAll)
  <1>1. HeldInv => UnstoppedIsHeld /\ GracefulExitStopsAll
    BY DEF HeldInv
  <1>2. Init => IInv /\ HeldInv
    BY InitIInv DEF Init, HeldInv, UnstoppedIsHeld, GracefulExitStopsAll
  <1>3. IInv /\ HeldInv /\ [Next]_vars => (IInv /\ HeldInv)'
    BY StepIInv, StepHeldInv
  <1>4. QED
    BY <1>1, <1>2, <1>3, PTL DEF Spec

(* No order of starts, stops, timers, URLs and errors loses a process that *)
(* nobody has told to stop: only the exit event of another one does.       *)
THEOREM NoTunnelLost == Spec => []UnstoppedIsHeld
  BY HeldAlways, PTL

(* A graceful exit has stopped every process but those, also when starts   *)
(* were in flight or a second signal cut the waiting short.                *)
THEOREM GracefulExitLeavesNone == Spec => []GracefulExitStopsAll
  BY HeldAlways, PTL

(***************************************************************************)
(* As long as exit events come before the next start, the status shows the *)
(* URL of the child that runs, and the two results above have no exception *)
(* to make: there is one tunnel, and a graceful exit leaves none.          *)
(***************************************************************************)
THEOREM PromptExitsSuffice ==
    Spec => [](StatusIsTrue /\ (~late => OneTunnel /\ overtaken = {}))
  <1>1. IInv /\ PromptInv => StatusIsTrue /\ (~late => OneTunnel /\ overtaken = {})
    BY DEF IInv, HandleInv, TypeOK, PromptInv, Prompt, OneTunnel, StatusIsTrue
  <1>2. IInv /\ PromptInv /\ [Next]_vars => (IInv /\ PromptInv)'
    BY StepIInv, StepPromptInv
  <1>3. QED
    BY <1>1, <1>2, InitIInv, PTL DEF Spec
----------------------------------------------------------------------------
(***************************************************************************)
(* The safety half of StartIsAnswered, without ~late.  The start in flight *)
(* waits for a process that exists, so that an event of it is to come and  *)
(* its timer finds it; and it is settled by such an event only - a stop()  *)
(* and the events of other children leave it alone - and before the next   *)
(* start can take its place (startInFlight).                               *)
(***************************************************************************)
AttemptHasProcess == Serving /\ attempt # NoChild => proc[attempt] # "none"

OwnEvent(c) == UrlPrinted(c) \/ Timeout(c) \/ SpawnError(c) \/ Exit(c)

SettledByItsOwn ==
    \A c \in Children :
        attempt = c /\ attempt' # c => attempt' = NoChild /\ OwnEvent(c)

LEMMA StepAttempt ==
    ASSUME IInv, AttemptHasProcess, [Next]_vars
    PROVE  AttemptHasProcess' /\ SettledByItsOwn
  <1> USE TunnelAssumption
      DEF IInv, TypeOK, ProcState, ServerState, AttemptHasProcess, Serving
  <1>1. ASSUME NEW c \in Children, Spawn(c) PROVE AttemptHasProcess' /\ SettledByItsOwn
    BY <1>1 DEF Spawn, SettledByItsOwn
  <1>2. ASSUME NEW c \in Children, UrlPrinted(c) PROVE AttemptHasProcess' /\ SettledByItsOwn
    BY <1>2 DEF UrlPrinted, SettledByItsOwn, OwnEvent
  <1>3. ASSUME NEW c \in Children, Timeout(c) PROVE AttemptHasProcess' /\ SettledByItsOwn
    BY <1>3 DEF Timeout, Kill, SettledByItsOwn, OwnEvent
  <1>4. ASSUME NEW c \in Children, SpawnError(c) PROVE AttemptHasProcess' /\ SettledByItsOwn
    BY <1>4 DEF SpawnError, SettledByItsOwn, OwnEvent
  <1>5. ASSUME NEW c \in Children, Exit(c) PROVE AttemptHasProcess' /\ SettledByItsOwn
    <2>1. attempt' = IF attempt = c THEN NoChild ELSE attempt
      BY <1>5 DEF Exit
    <2>2. SettledByItsOwn
      BY <1>5, <2>1 DEF SettledByItsOwn, OwnEvent
    <2> QED
      BY <1>5, <2>1, <2>2 DEF Exit
  <1>6. ASSUME NEW c \in Children, Dies(c) PROVE AttemptHasProcess' /\ SettledByItsOwn
    BY <1>6 DEF Dies, SettledByItsOwn
  <1>7. ASSUME Stop \/ Leave PROVE AttemptHasProcess' /\ SettledByItsOwn
    BY <1>7 DEF Stop, Leave, StopTunnel, Kill, SettledByItsOwn
  <1>8. ASSUME ServerStep \/ UNCHANGED vars
        PROVE  AttemptHasProcess' /\ SettledByItsOwn
    BY <1>8
    DEF ServerStep, OpenStream, CloseStream, StreamsOnly, Signal, SecondSignal, Drain, ForceExit,
        vars, SettledByItsOwn
  <1>9. QED
    BY <1>1, <1>2, <1>3, <1>4, <1>5, <1>6, <1>7, <1>8 DEF Next, ServerStep

(* No start waits for a process that is gone, and only an event of its own *)
(* process, or its timer, ends the wait.                                   *)
THEOREM StartsWaitForTheirOwn == Spec => []AttemptHasProcess /\ [][SettledByItsOwn]_vars
  <1>1. Init => IInv /\ AttemptHasProcess
    BY InitIInv DEF Init, AttemptHasProcess
  <1>2. IInv /\ AttemptHasProcess /\ [Next]_vars => (IInv /\ AttemptHasProcess)'
    BY StepIInv, StepAttempt
  <1>3. IInv /\ AttemptHasProcess /\ [Next]_vars => [SettledByItsOwn]_vars
    BY StepAttempt
  <1>4. QED
    BY <1>1, <1>2, <1>3, PTL DEF Spec
============================================================================

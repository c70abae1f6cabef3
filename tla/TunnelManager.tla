--------------------------- MODULE TunnelManager ---------------------------
(***************************************************************************)
(* The cloudflared quick tunnel: TunnelManager (cli/src/tunnel/manager.ts) *)
(* behind the start and stop routes, and the graceful shutdown that stops  *)
(* it (cli/src/shutdown.ts).  The manager is told about its child by       *)
(* events (output, exit, the start timer), and events of a child that was  *)
(* killed can arrive long after the manager has moved on.  Requests on     *)
(* connections that were open at the signal are served until the exit.     *)
(* A start that finds the tunnel up, or an attempt in flight, changes      *)
(* nothing and is left out.                                                *)
(***************************************************************************)
EXTENDS FiniteSets

CONSTANTS
    Children,  \* handles of spawned processes, reused after their exit event
    NoChild

ASSUME TunnelAssumption == NoChild \notin Children

VARIABLES
    child,    \* this.child
    url,      \* this.url, named by the child that printed it
    attempt,  \* this.startInFlight, named by the child it waits for
    proc,     \* none, running, or killed (signalled, exit event to come)
    server,   \* up, closing, drained, exited, or forced (process.exit(1))
    streams,  \* responses are being written: server.close() waits for them
    late,     \* history: a start came before a killed child's exit event
    overtaken \* history: children whose handle another's exit event cleared

vars == <<child, url, attempt, proc, server, streams, late, overtaken>>

ProcState == {"none", "running", "killed"}
ServerState == {"up", "closing", "drained", "exited", "forced"}
Serving == server \in {"up", "closing", "drained"}

Init ==
    /\ child = NoChild
    /\ url = NoChild
    /\ attempt = NoChild
    /\ proc = [c \in Children |-> "none"]
    /\ server = "up"
    /\ streams = FALSE
    /\ late = FALSE
    /\ overtaken = {}
----------------------------------------------------------------------------
(* killChild(c): SIGTERM. *)
Kill(c) == proc' = [x \in Children |-> IF x = c /\ proc[x] = "running" THEN "killed" ELSE proc[x]]

(* Mutant: only a known URL counts as running, attempts are not joined. *)
SpawnUnserialized(c) ==
    /\ Serving
    /\ ~(child # NoChild /\ url # NoChild)
    /\ proc[c] = "none"
    /\ proc' = [proc EXCEPT ![c] = "running"]
    /\ child' = c
    /\ attempt' = c
    /\ late' = (late \/ \E x \in Children : proc[x] = "killed")
    /\ UNCHANGED <<url, server, streams, overtaken>>

(* POST /api/tunnel/start, when it spawns: start and spawnAndWaitForUrl. *)
Spawn(c) ==
    /\ Serving
    /\ ~(child # NoChild /\ url # NoChild)
    /\ attempt = NoChild
    /\ proc[c] = "none"
    /\ proc' = [proc EXCEPT ![c] = "running"]
    /\ child' = c
    /\ attempt' = c
    /\ late' = (late \/ \E x \in Children : proc[x] = "killed")
    /\ UNCHANGED <<url, server, streams, overtaken>>

(* onChunk with a URL, from a child that lives or is dying. *)
UrlPrinted(c) ==
    /\ Serving
    /\ attempt = c
    /\ proc[c] # "none"
    /\ url' = c
    /\ attempt' = NoChild
    /\ UNCHANGED <<child, proc, server, streams, late, overtaken>>

(* Mutant: stop() has cancelled the start timer. *)
TimeoutUnlessStopped(c) ==
    /\ Serving
    /\ attempt = c
    /\ child = c
    /\ Kill(c)
    /\ child' = NoChild
    /\ attempt' = NoChild
    /\ UNCHANGED <<url, server, streams, late, overtaken>>

(* startTimeoutMs without a URL. *)
Timeout(c) ==
    /\ Serving
    /\ attempt = c
    /\ Kill(c)
    /\ child' = NoChild
    /\ attempt' = NoChild
    /\ UNCHANGED <<url, server, streams, late, overtaken>>

(* 'error' before a URL: the process could not be started. *)
SpawnError(c) ==
    /\ Serving
    /\ attempt = c
    /\ proc[c] = "running"
    /\ proc' = [proc EXCEPT ![c] = "none"]
    /\ child' = NoChild
    /\ attempt' = NoChild
    /\ overtaken' = overtaken \ {c}
    /\ UNCHANGED <<url, server, streams, late>>

(* What the exit event of c makes of the handle of another child. *)
Overtakes(c) == overtaken' = (overtaken \ {c}) \union ({child} \ {c, NoChild})

(* Mutants: the handler leaves the handle, or the URL, of the dead child. *)
ExitKeepsChild(c) ==
    /\ Serving
    /\ proc[c] # "none"
    /\ proc' = [proc EXCEPT ![c] = "none"]
    /\ url' = NoChild
    /\ attempt' = IF attempt = c THEN NoChild ELSE attempt
    /\ overtaken' = overtaken \ {c}
    /\ UNCHANGED <<child, server, streams, late>>

ExitKeepsUrl(c) ==
    /\ Serving
    /\ proc[c] # "none"
    /\ proc' = [proc EXCEPT ![c] = "none"]
    /\ child' = NoChild
    /\ attempt' = IF attempt = c THEN NoChild ELSE attempt
    /\ Overtakes(c)
    /\ UNCHANGED <<url, server, streams, late>>

(***************************************************************************)
(* 'exit' of child c, which may have ended by itself: the handler clears   *)
(* whatever the manager holds now, and settles c's own attempt.            *)
(***************************************************************************)
Exit(c) ==
    /\ Serving
    /\ proc[c] # "none"
    /\ proc' = [proc EXCEPT ![c] = "none"]
    /\ child' = NoChild
    /\ url' = NoChild
    /\ attempt' = IF attempt = c THEN NoChild ELSE attempt
    /\ Overtakes(c)
    /\ UNCHANGED <<server, streams, late>>

(* stop(): the attempt in flight is left to its own events. *)
StopTunnel ==
    /\ child' = NoChild
    /\ url' = NoChild
    /\ Kill(child)
    /\ UNCHANGED attempt

(* POST /api/tunnel/stop. *)
Stop == Serving /\ StopTunnel /\ UNCHANGED <<server, streams, late, overtaken>>
----------------------------------------------------------------------------
(* Long responses (a chat answer, a slow tool call) begin and end. *)
StreamsOnly == Serving /\ UNCHANGED <<child, url, attempt, proc, server, late, overtaken>>
OpenStream == streams' = TRUE /\ StreamsOnly
CloseStream == streams' = FALSE /\ StreamsOnly

(* SIGTERM / SIGINT: server.close(), which waits for the open responses. *)
Signal ==
    /\ server = "up"
    /\ server' = "closing"
    /\ UNCHANGED <<child, url, attempt, proc, streams, late, overtaken>>

(* Steps 1 to 3 done: no response is open.  A start whose client has gone *)
(* away holds nothing up and goes on waiting for its child.               *)
Drain ==
    /\ server = "closing"
    /\ ~streams
    /\ server' = "drained"
    /\ UNCHANGED <<child, url, attempt, proc, streams, late, overtaken>>

(***************************************************************************)
(* A second SIGTERM / SIGINT enters gracefulShutdown again: server.close() *)
(* answers with an error, which is logged, and the other steps follow,     *)
(* whatever the first call is still waiting for.                           *)
(***************************************************************************)
SecondSignal ==
    /\ server = "closing"
    /\ server' = "drained"
    /\ UNCHANGED <<child, url, attempt, proc, streams, late, overtaken>>

(* Mutant: the shutdown does not know the tunnel. *)
LeaveWithoutStop ==
    /\ server = "drained"
    /\ server' = "exited"
    /\ UNCHANGED <<child, url, attempt, proc, streams, late, overtaken>>

(* Steps 4 and 5: stop the tunnel, exit. *)
Leave ==
    /\ server = "drained"
    /\ StopTunnel
    /\ server' = "exited"
    /\ UNCHANGED <<streams, late, overtaken>>

(* SHUTDOWN_TIMEOUT_MS elapsed first: process.exit(1). *)
ForceExit ==
    /\ server \in {"closing", "drained"}
    /\ server' = "forced"
    /\ UNCHANGED <<child, url, attempt, proc, streams, late, overtaken>>

(* A signalled process dies also when nobody listens any more. *)
Dies(c) ==
    /\ ~Serving
    /\ proc[c] = "killed"
    /\ proc' = [proc EXCEPT ![c] = "none"]
    /\ UNCHANGED <<child, url, attempt, server, streams, late, overtaken>>

Next ==
    \/ \E c \in Children :
        \/ Spawn(c)
        \/ UrlPrinted(c)
        \/ Timeout(c)
        \/ SpawnError(c)
        \/ Exit(c)
        \/ Dies(c)
    \/ Stop
    \/ OpenStream
    \/ CloseStream
    \/ Signal
    \/ SecondSignal
    \/ Drain
    \/ Leave
    \/ ForceExit

(* setTimeout fires; everything else is up to clients and processes. *)
Fairness == \A c \in Children : WF_vars(Timeout(c))
Spec == Init /\ [][Next]_vars /\ Fairness
----------------------------------------------------------------------------
TypeOK ==
    /\ child \in Children \union {NoChild}
    /\ url \in Children \union {NoChild}
    /\ attempt \in Children \union {NoChild}
    /\ proc \in [Children -> ProcState]
    /\ server \in ServerState
    /\ streams \in BOOLEAN
    /\ late \in BOOLEAN
    /\ overtaken \subseteq Children

(***************************************************************************)
(* "rather than spawning a second cloudflared process" (manager.ts): at    *)
(* most one process that nobody has told to stop.                          *)
(***************************************************************************)
OneTunnel == \A c, d \in Children : proc[c] = "running" /\ proc[d] = "running" => c = d

(***************************************************************************)
(* What the code does keep of it, in every order of events: a process that *)
(* nobody has told to stop is the one whose handle the manager holds, or   *)
(* one whose handle the exit event of another process has cleared.  No     *)
(* race of start, URL, timer, stop and spawn error loses a process.        *)
(***************************************************************************)
UnstoppedIsHeld ==
    Serving => \A c \in Children : proc[c] = "running" => child = c \/ c \in overtaken

(***************************************************************************)
(* getStatus() tells the truth: when it says running, the URL it shows is  *)
(* the one of the child it holds, and that child has not been stopped.     *)
(***************************************************************************)
StatusIsTrue ==
    ~late /\ Serving /\ child # NoChild /\ url # NoChild => url = child /\ proc[child] = "running"

(***************************************************************************)
(* Whatever events of older children do to it, the handle the manager      *)
(* holds is never stale: stop() signals a process that still runs.         *)
(***************************************************************************)
HandleIsLive == Serving /\ child # NoChild => proc[child] = "running"

(***************************************************************************)
(* "never leave an orphaned cloudflared.exe behind after the server exits" *)
(* (shutdown.ts): a shutdown that ran to its end has told every process to *)
(* stop whose handle was not cleared by another's exit event - with starts *)
(* in flight, with requests that still arrive, after a second signal.      *)
(***************************************************************************)
GracefulExitStopsAll ==
    server = "exited" => \A c \in Children : proc[c] = "running" => c \in overtaken

(***************************************************************************)
(* Every start is answered: by a URL, by the end of its child or by the    *)
(* timer, also when stop() was called in between.                          *)
(***************************************************************************)
StartIsAnswered == \A c \in Children : attempt = c ~> attempt # c \/ ~Serving
============================================================================

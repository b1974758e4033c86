---------------------------- MODULE EngineProcess ----------------------------
(***************************************************************************)
(* The engine's process and the launcher that starts it (bun run engine):  *)
(* startup, the readiness line, signals, the end.  Two programs with four  *)
(* timers that know nothing of each other.                                 *)
(*                                                                         *)
(* Time passes in seconds and only while nothing is left to do: what a     *)
(* process does without waiting for anybody takes no time.  Networks,      *)
(* requests and the user take as long as they like.                        *)
(***************************************************************************)
EXTENDS Integers, FiniteSets

CONSTANTS
    Chains,          \* keys a configuration may have
    Requests,        \* calls the engine may be given, each once
    Nodes,           \* what may be behind an endpoint, and how slow it is
    CheckTimeout,    \* 10 seconds: openChains, per chain
    StartupTimeout,  \* 15 seconds: the launcher, from spawn to readiness
    Grace,           \* 3 seconds: Shutdown, from the signal to the end
    Patience         \* 4 seconds: the launcher, from SIGTERM to SIGKILL

ASSUME EngineAssumption ==
    /\ Nodes \subseteq [endpoint : {"unset", "unsound", "sound"}, opens : Nat, verifies : Nat]
    /\ {CheckTimeout, StartupTimeout, Grace, Patience} \subseteq Nat

(* 10 before 15 seconds, and 3 before 4: in two programs, four constants.  *)
ASSUME TimeoutAssumption == CheckTimeout < StartupTimeout /\ Grace < Patience

VARIABLES
    node,            \* per configured chain: what is behind its endpoint
    simulation,      \* --anvil-simulation
    launcher,        \* startEngine and main of scripts/engine.ts
    aborted,         \* abort.signal
    stopSent,        \* stopping is set: stop() was called
    engine,          \* run and serve of cmd/epeius-engine
    told,            \* the engine was sent SIGINT or SIGTERM
    hung,            \* the engine does not react any more
    crashed,         \* history, read by no action: the engine ended by a crash
    check,           \* per chain: its goroutine in openChains, then the result
    ready,           \* the readiness line is in the pipe
    request,         \* per request: where it is
    elapsed          \* per timer: the seconds it has run

launching == <<launcher, aborted, stopSent>>
serving == <<engine, check, ready>>
signals == <<told, hung, crashed>>
config == <<node, simulation>>
vars == <<config, launching, serving, signals, request, elapsed>>

Timers == {"startup", "check", "grace", "patience"}
Over == {"ended", "killed"}
Up(states) == engine \in states /\ ~hung
Running == {r \in Requests : request[r] = "running"}
Clear(timer) == elapsed' = [elapsed EXCEPT ![timer] = 0]
Cut(rs) == request' = [r \in Requests |-> IF r \in rs THEN "cut" ELSE request[r]]

-----------------------------------------------------------------------------
(* The engine opens its chains, each in a goroutine with a timeout of its  *)
(* own that the signal cuts short.                                         *)

Boot ==
    /\ Up({"booting"})
    /\ engine' = IF told THEN "exited" ELSE "opening"
    /\ UNCHANGED <<config, launching, check, ready, signals, request, elapsed>>

Settle(c, result) ==
    /\ check' = [check EXCEPT ![c] = result]
    /\ UNCHANGED <<config, launching, engine, ready, signals, request, elapsed>>

(* Mutant: the group's context ends with the first failure.                *)
FailAll(c) ==
    /\ check' = [d \in DOMAIN check |->
                    IF d = c \/ check[d] = "opening" THEN "failed"
                    ELSE IF check[d] = "verifying" THEN "degraded" ELSE check[d]]
    /\ UNCHANGED <<config, launching, engine, ready, signals, request, elapsed>>

FailChain(c) == Settle(c, "failed")

(* rpc.Open: the right chain identifier, and a latest block.               *)
Answered(c) ==
    /\ check[c] = "opening"
    /\ node[c].endpoint = "unset" \/ elapsed["check"] >= node[c].opens

Open(c) ==
    /\ Up({"opening"}) /\ Answered(c)
    /\ IF node[c].endpoint = "sound" THEN Settle(c, "verifying") ELSE FailChain(c)

(* VerifyDeployments, with what is left of the same timeout.               *)
Verified(c) ==
    check[c] = "verifying" /\ elapsed["check"] >= node[c].opens + node[c].verifies

VerifyDeployments(c) ==
    /\ Up({"opening"}) /\ Verified(c)
    /\ Settle(c, "connected")

(* Mutant: the verification has a timeout of its own.                      *)
DeadlineApart(c) ==
    \/ told
    \/ elapsed["check"] = CheckTimeout + (IF check[c] = "verifying" THEN node[c].opens ELSE 0)

Deadline(c) == told \/ elapsed["check"] = CheckTimeout

Unsettled == {c \in DOMAIN check : check[c] \in {"opening", "verifying"}}

(* checkCtx ends.  A chain that had been opened keeps its client and has   *)
(* deployments that failed.                                                *)
CheckEnds(c) ==
    /\ Up({"opening"}) /\ Deadline(c)
    /\ \/ check[c] = "opening" /\ FailChain(c)
       \/ check[c] = "verifying" /\ Settle(c, "degraded")

Connected == {c \in DOMAIN check : check[c] \in {"connected", "degraded"}}

(* wait.Wait(), the listener (its port may be taken), the simulator.       *)
Opened ==
    /\ Up({"opening"})
    /\ Unsettled = {}
    /\ \/ engine' = "exited" /\ UNCHANGED ready
       \/ /\ Connected # {}
          /\ simulation => Cardinality(DOMAIN node) = 1
          /\ engine' = IF simulation THEN "probing" ELSE "serving"
          /\ ready' = ~simulation
    /\ Clear("check")
    /\ UNCHANGED <<config, launching, check, signals, request>>

(* NewAnvilSimulator asks the node, for as long as the context lasts.      *)
Probed ==
    /\ Up({"probing"})
    /\ \/ engine' = "serving" /\ ready' = TRUE
       \/ engine' = "exited" /\ UNCHANGED ready
    /\ UNCHANGED <<config, launching, check, signals, request, elapsed>>

ProbeCancelled ==
    /\ Up({"probing"}) /\ told
    /\ engine' = "exited"
    /\ UNCHANGED <<config, launching, check, ready, signals, request, elapsed>>

-----------------------------------------------------------------------------
(* It serves, until a signal; then Shutdown, and what is deferred.         *)

Arrive(r) ==
    /\ Up({"serving"}) /\ request[r] = "new"
    /\ request' = [request EXCEPT ![r] = "running"]
    /\ UNCHANGED <<config, launching, serving, signals, elapsed>>

Respond(r) ==
    /\ Up({"serving", "draining"}) /\ request[r] = "running"
    /\ request' = [request EXCEPT ![r] = "answered"]
    /\ UNCHANGED <<config, launching, serving, signals, elapsed>>

(* The listener is closed at once.                                         *)
Shutdown ==
    /\ Up({"serving"}) /\ told
    /\ engine' = "draining"
    /\ UNCHANGED <<config, launching, check, ready, signals, request, elapsed>>

(* Mutant: the server is closed where it is shut down.                     *)
GraceNone == TRUE

GraceOver == Running = {} \/ elapsed["grace"] = Grace

Drained ==
    /\ Up({"draining"}) /\ GraceOver
    /\ engine' = "exited" /\ Cut(Running)
    /\ UNCHANGED <<config, launching, check, ready, signals, elapsed>>

(* Suspended, or stuck in a system call.                                   *)
Hang ==
    /\ engine # "exited" /\ ~hung
    /\ hung' = TRUE
    /\ UNCHANGED <<config, launching, serving, told, crashed, request, elapsed>>

(* Serve returns an error, or the process dies.                            *)
Crash ==
    /\ engine # "exited"
    /\ engine' = "exited" /\ Cut(Running) /\ crashed' = TRUE
    /\ UNCHANGED <<config, launching, check, ready, told, hung, elapsed>>

-----------------------------------------------------------------------------
(* The launcher.                                                           *)

(* stop(): SIGTERM once, and whoever calls it waits for the exit.          *)
Stop ==
    /\ stopSent' = TRUE /\ told' = (told \/ engine # "exited")
    /\ UNCHANGED <<hung, crashed>>

(* Mutant: the timer is never set.                                         *)
StartupUntimed == launcher = "none" /\ UNCHANGED vars

StartupOver == launcher = "starting" /\ ~stopSent /\ elapsed["startup"] = StartupTimeout

StartupTimesOut ==
    /\ StartupOver
    /\ Stop
    /\ UNCHANGED <<config, launcher, aborted, serving, request, elapsed>>

(* Mutant: an abandoned startup is not waited for.                         *)
AbandonNow == launcher' = "ended" /\ Stop

(* throwIfAborted, or the pipe's end: await stop(), then throw.            *)
Abandon == launcher' = "failing" /\ Stop

(* The line is read though the startup timer may just have fired.          *)
LineOrEnd == launcher = "starting" /\ (ready \/ engine = "exited")

ReadLine ==
    /\ LineOrEnd
    /\ \/ ready /\ ~aborted /\ launcher' = "ready" /\ UNCHANGED <<stopSent, signals>>
       \/ (ready => aborted) /\ Abandon
    /\ Clear("startup")
    /\ UNCHANGED <<config, aborted, serving, request>>

(* The user, or the system: SIGTERM to the launcher, or SIGINT to both.    *)
(* From startup on somebody listens to the abort signal at any time.       *)
Interrupt ==
    /\ launcher \notin Over /\ ~aborted
    /\ aborted' = TRUE
    /\ Stop
    /\ UNCHANGED <<config, launcher, serving, request, elapsed>>

(* process.once: the second signal finds the default handler.              *)
InterruptAgain ==
    /\ launcher \notin Over /\ aborted
    /\ launcher' = "killed"
    /\ UNCHANGED <<config, aborted, stopSent, serving, signals, request, elapsed>>

PatienceOver ==
    /\ launcher \notin Over /\ stopSent /\ elapsed["patience"] = Patience
    /\ engine # "exited"

Kill ==
    /\ PatienceOver
    /\ engine' = "exited" /\ Cut(Running)
    /\ UNCHANGED <<config, launching, check, ready, signals, elapsed>>

(* child.exited: main returns, or startEngine throws.                      *)
ChildExited == launcher \in {"failing", "ready"} /\ engine = "exited"

Finish ==
    /\ ChildExited
    /\ launcher' = "ended"
    /\ Clear("patience")
    /\ UNCHANGED <<config, aborted, stopSent, serving, signals, request>>

-----------------------------------------------------------------------------

Prompt ==
    \/ Boot \/ Opened \/ ProbeCancelled \/ Shutdown \/ Drained
    \/ \E c \in DOMAIN check : Open(c) \/ VerifyDeployments(c) \/ CheckEnds(c)
    \/ StartupTimesOut \/ ReadLine \/ Kill \/ Finish

(* A step of Prompt is enabled.                                            *)
Urgent ==
    \/ Up({"booting"})
    \/ /\ Up({"opening"})
       /\ \/ Unsettled = {}
          \/ \E c \in Unsettled : Answered(c) \/ Verified(c) \/ Deadline(c)
    \/ Up({"probing", "serving"}) /\ told
    \/ Up({"draining"}) /\ GraceOver
    \/ StartupOver \/ LineOrEnd \/ PatienceOver \/ ChildExited

Ticking ==
    {t \in Timers :
        \/ /\ t = "startup" /\ launcher = "starting" /\ ~stopSent
          /\ elapsed["startup"] < StartupTimeout
        \/ t = "check" /\ Up({"opening"})
        \/ t = "grace" /\ Up({"draining"})
        \/ t = "patience" /\ stopSent /\ launcher \notin Over /\ engine # "exited"}

Tick ==
    /\ Ticking # {} /\ ~Urgent
    /\ elapsed' = [t \in Timers |-> elapsed[t] + (IF t \in Ticking THEN 1 ELSE 0)]
    /\ UNCHANGED <<config, launching, serving, signals, request>>

Init ==
    /\ \E keys \in SUBSET Chains \ {{}} : node \in [keys -> Nodes]
    /\ simulation \in BOOLEAN
    /\ launcher = "starting" /\ aborted = FALSE /\ stopSent = FALSE
    /\ engine = "booting" /\ ready = FALSE /\ told = FALSE /\ hung = FALSE /\ crashed = FALSE
    /\ check = [c \in DOMAIN node |-> "opening"]
    /\ request = [r \in Requests |-> "new"]
    /\ elapsed = [t \in Timers |-> 0]

Next ==
    \/ Prompt \/ Tick
    \/ Probed \/ Crash \/ Hang \/ Interrupt \/ InterruptAgain
    \/ \E r \in Requests : Arrive(r) \/ Respond(r)

Spec == Init /\ [][Next]_vars

FairSpec == Spec /\ WF_vars(Prompt) /\ WF_vars(Tick)

-----------------------------------------------------------------------------

(* The launcher never ends before the engine, so the port is free and      *)
(* nothing serves any more; killed by a second signal, it leaves an engine *)
(* that has been told to stop.                                             *)
NothingLeftBehind ==
    /\ launcher = "ended" => engine = "exited"
    /\ launcher = "killed" => engine = "exited" \/ told

(* The four timers fit.  However slow its nodes are, an engine without the *)
(* Anvil simulator reports readiness or its own reason before the launcher *)
(* gives up on it, and only an engine that hangs has to be killed.         *)
TimersFit ==
    /\ elapsed["startup"] = StartupTimeout => simulation \/ hung
    /\ elapsed["patience"] = Patience => hung

(* What a chain comes to at startup is what it would come to alone: slow,  *)
(* wrong or missing endpoints of other chains change nothing.              *)
StatusIsOwn ==
    engine = "serving" /\ ~told => \A c \in DOMAIN node :
        LET n == node[c]
            verified == n.opens + n.verifies
        IN  \/ check[c] = "failed" /\ (n.endpoint # "sound" \/ n.opens >= CheckTimeout)
            \/ /\ n.endpoint = "sound" /\ n.opens <= CheckTimeout
               /\ \/ check[c] = "connected" /\ verified <= CheckTimeout
                  \/ check[c] = "degraded" /\ verified >= CheckTimeout

(* A call that was accepted is answered however the engine is stopped, by  *)
(* the user, by the launcher, or by a second signal: it is cut at the end  *)
(* of the grace period, by a crash, or by the launcher that kills an       *)
(* engine that hangs, and by nothing else.  An engine that ends for any    *)
(* other reason has no call left.                                          *)
CutOnlyAfterGrace ==
    [][ \A r \in Running : request'[r] = "cut" =>
            \/ elapsed["grace"] = Grace
            \/ ~crashed /\ crashed'
            \/ hung /\ PatienceOver ]_vars

(* Startup ends, ready or not, even if a node never answers the simulator  *)
(* or the engine hangs; and once told to stop, both programs end, unless   *)
(* the launcher was killed, too, before it could kill an engine that hangs. *)
Settles ==
    /\ launcher = "starting" ~> launcher # "starting"
    /\ told ~> launcher \in Over /\ (engine = "exited" \/ (hung /\ launcher = "killed"))

==============================================================================

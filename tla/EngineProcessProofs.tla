------------------------- MODULE EngineProcessProofs -------------------------
(***************************************************************************)
(* Engine and launcher with any chains, nodes, calls and timeouts that     *)
(* relate as the code's do.                                                *)
(***************************************************************************)
EXTENDS EngineProcess, TLAPS

CheckStates == {"opening", "verifying", "connected", "degraded", "failed"}
EngineStates == {"booting", "opening", "probing", "serving", "draining", "exited"}

ShapeInv ==
    /\ \A c \in DOMAIN node : node[c] \in Nodes
    /\ DOMAIN check = DOMAIN node /\ \A c \in DOMAIN node : check[c] \in CheckStates
    /\ elapsed \in [Timers -> Nat]
    /\ engine \in EngineStates
    /\ hung \in BOOLEAN /\ told \in BOOLEAN /\ ready \in BOOLEAN
    /\ aborted \in BOOLEAN /\ stopSent \in BOOLEAN

(* Who is told to stop, and by whom.                                       *)
StopInv ==
    /\ aborted => stopSent
    /\ stopSent => told \/ engine = "exited"
    /\ launcher = "ended" => engine = "exited"
    /\ launcher = "killed" => aborted

(* A chain's goroutine and what its node is like.                          *)
ChainFits(c) ==
    LET n == node[c]
        verified == n.opens + n.verifies
    IN  CASE check[c] = "opening"   -> n.endpoint = "unset" \/ elapsed["check"] <= n.opens
          [] check[c] = "verifying" -> /\ n.endpoint = "sound" /\ n.opens <= CheckTimeout
                                       /\ elapsed["check"] <= verified
          [] check[c] = "connected" -> n.endpoint = "sound" /\ verified <= CheckTimeout
          [] check[c] = "degraded"  -> /\ n.endpoint = "sound" /\ n.opens <= CheckTimeout
                                       /\ verified >= CheckTimeout
          [] OTHER                  -> n.endpoint # "sound" \/ n.opens >= CheckTimeout

CheckInv ==
    /\ elapsed["check"] <= CheckTimeout
    /\ engine = "booting" => elapsed["check"] = 0
    /\ engine \in {"probing", "serving", "draining"} => Unsettled = {}
    /\ ~told => \A c \in DOMAIN node : ChainFits(c)

(* The launcher's startup timer is never ahead of that of the checks.      *)
StartupInv ==
    ~simulation /\ ~hung =>
        /\ elapsed["startup"] <= CheckTimeout
        /\ engine = "booting" => elapsed["startup"] = 0
        /\ engine = "opening" => elapsed["startup"] <= elapsed["check"]
        /\ engine # "probing"
        /\ engine \in {"serving", "draining"} => ready

(* Its patience is never ahead of the engine's grace period.               *)
PatienceInv ==
    /\ engine = "draining" => elapsed["grace"] <= Grace
    /\ engine \notin {"draining", "exited"} => elapsed["grace"] = 0
    /\ ~hung => /\ elapsed["patience"] <= Grace
                /\ engine \notin {"draining", "exited"} => elapsed["patience"] = 0
                /\ engine = "draining" => elapsed["patience"] <= elapsed["grace"]

EngineInv == ShapeInv /\ StopInv /\ CheckInv /\ StartupInv /\ PatienceInv

-----------------------------------------------------------------------------

LEMMA NodeShape ==
    ASSUME ShapeInv, NEW c \in DOMAIN node
    PROVE  /\ node[c].endpoint \in {"unset", "unsound", "sound"}
           /\ node[c].opens \in Nat /\ node[c].verifies \in Nat
           /\ node[c].opens + node[c].verifies \in Nat
           /\ node[c].opens <= node[c].opens + node[c].verifies
<1>1. node[c] \in [endpoint : {"unset", "unsound", "sound"}, opens : Nat, verifies : Nat]
  BY EngineAssumption DEF ShapeInv
<1>. QED
  BY <1>1

LEMMA TimerShape ==
    ASSUME ShapeInv
    PROVE  /\ elapsed["startup"] \in Nat /\ elapsed["check"] \in Nat
           /\ elapsed["grace"] \in Nat /\ elapsed["patience"] \in Nat
           /\ CheckTimeout \in Nat /\ StartupTimeout \in Nat /\ Grace \in Nat /\ Patience \in Nat
BY EngineAssumption DEF ShapeInv, Timers

LEMMA Cleared ==
    ASSUME ShapeInv, NEW t \in Timers, Clear(t)
    PROVE  /\ elapsed' \in [Timers -> Nat]
           /\ (elapsed')[t] = 0 /\ \A u \in Timers \ {t} : (elapsed')[u] = elapsed[u]
BY DEF ShapeInv, Clear, Timers

(* A second passes only when nothing is left to do, so a timer that runs   *)
(* is below what would have ended its wait.                                *)
LEMMA TickStep == ASSUME EngineInv, Tick PROVE EngineInv'
<1>1. /\ UNCHANGED <<config, launching, serving, signals>> /\ ~Urgent
      /\ elapsed' = [t \in Timers |-> elapsed[t] + (IF t \in Ticking THEN 1 ELSE 0)]
  BY DEF Tick
<1>2. UNCHANGED <<node, simulation, launcher, aborted, stopSent, engine, check, ready, told, hung>>
  BY <1>1 DEF config, launching, serving, signals
<1>3. /\ \A t \in Timers : (elapsed')[t] = elapsed[t] + (IF t \in Ticking THEN 1 ELSE 0)
      /\ elapsed' \in [Timers -> Nat]
  BY <1>1 DEF EngineInv, ShapeInv
<1>4. /\ (elapsed')["startup"] = elapsed["startup"]
           + (IF launcher = "starting" /\ ~stopSent /\ elapsed["startup"] < StartupTimeout
              THEN 1 ELSE 0)
      /\ (elapsed')["check"] = elapsed["check"] + (IF engine = "opening" /\ ~hung THEN 1 ELSE 0)
      /\ (elapsed')["grace"] = elapsed["grace"] + (IF engine = "draining" /\ ~hung THEN 1 ELSE 0)
      /\ (elapsed')["patience"] = elapsed["patience"]
           + (IF stopSent /\ launcher \notin Over /\ engine # "exited" THEN 1 ELSE 0)
  BY <1>3 DEF Timers, Ticking, Up
<1>. elapsed["startup"] \in Nat /\ elapsed["check"] \in Nat
  BY TimerShape DEF EngineInv
<1>. elapsed["grace"] \in Nat /\ elapsed["patience"] \in Nat
  BY TimerShape DEF EngineInv
<1>. CheckTimeout \in Nat /\ StartupTimeout \in Nat /\ Grace \in Nat /\ Patience \in Nat
  BY TimerShape DEF EngineInv
<1>5. ASSUME engine = "opening", ~hung
      PROVE  /\ ~told /\ elapsed["check"] < CheckTimeout
             /\ \A c \in Unsettled : ~Answered(c) /\ ~Verified(c)
  <2>1. Unsettled # {} /\ \A c \in Unsettled : ~Answered(c) /\ ~Verified(c) /\ ~Deadline(c)
    BY <1>1, <1>5 DEF Urgent, Up
  <2>. QED
    BY <2>1 DEF Deadline, EngineInv, CheckInv
<1>6. ASSUME engine \in {"booting", "probing", "serving"}, ~hung
      PROVE  engine # "booting" /\ ~told
  BY <1>1, <1>6 DEF Urgent, Up
<1>7. ASSUME engine = "draining", ~hung
      PROVE  elapsed["grace"] < Grace
  BY <1>1, <1>7 DEF Urgent, Up, GraceOver, EngineInv, PatienceInv
<1>8. ASSUME launcher = "starting" PROVE ~ready /\ engine # "exited"
  BY <1>1, <1>8 DEF Urgent, LineOrEnd
<1>9. ShapeInv'
  BY <1>2, <1>3 DEF EngineInv, ShapeInv
<1>10. StopInv'
  BY <1>2 DEF EngineInv, StopInv
<1>11. CheckInv'
  <2>1. /\ (elapsed')["check"] <= CheckTimeout
        /\ engine' = "booting" => (elapsed')["check"] = 0
        /\ engine' \in {"probing", "serving", "draining"} => Unsettled' = {}
    BY <1>2, <1>4, <1>5 DEF EngineInv, CheckInv, Unsettled
  <2>2. ASSUME ~told, NEW c \in DOMAIN node PROVE ChainFits(c)'
    <3>1. ChainFits(c)
      BY <2>2 DEF EngineInv, CheckInv
    <3>2. check[c] \in CheckStates /\ DOMAIN check = DOMAIN node
      BY DEF EngineInv, ShapeInv
    <3>. node[c].opens \in Nat /\ node[c].verifies \in Nat
      BY NodeShape DEF EngineInv
    <3>3. CASE engine = "opening" /\ ~hung
      <4>1. check[c] = "opening" => node[c].endpoint # "unset" /\ elapsed["check"] < node[c].opens
        BY <1>5, <3>2, <3>3 DEF Answered, Unsettled
      <4>2. check[c] = "verifying" => elapsed["check"] < node[c].opens + node[c].verifies
        BY <1>5, <3>2, <3>3 DEF Verified, Unsettled
      <4>. QED
        BY <1>2, <1>4, <3>1, <3>2, <3>3, <4>1, <4>2 DEF ChainFits, CheckStates
    <3>4. CASE ~(engine = "opening" /\ ~hung)
      BY <1>2, <1>4, <3>1, <3>4 DEF ChainFits
    <3>. QED
      BY <3>3, <3>4
  <2>. QED
    BY <1>2, <2>1, <2>2 DEF CheckInv
<1>12. StartupInv'
  <2>. SUFFICES ASSUME ~simulation, ~hung
                PROVE  /\ (elapsed')["startup"] <= CheckTimeout
                       /\ engine = "booting" => (elapsed')["startup"] = 0
                       /\ engine = "opening" => (elapsed')["startup"] <= (elapsed')["check"]
                       /\ engine # "probing"
                       /\ engine \in {"serving", "draining"} => ready
    BY <1>2 DEF StartupInv
  <2>1. /\ elapsed["startup"] <= CheckTimeout /\ engine # "probing" /\ engine \in EngineStates
        /\ engine = "opening" => elapsed["startup"] <= elapsed["check"]
        /\ engine \in {"serving", "draining"} => ready
    BY DEF EngineInv, StartupInv, ShapeInv
  <2>2. CASE engine = "opening"
    BY <1>4, <1>5, <2>1, <2>2
  <2>3. CASE engine # "opening"
    <3>1. engine # "booting" /\ launcher # "starting"
      BY <1>6, <1>8, <2>1, <2>3 DEF EngineStates
    <3>. QED
      BY <1>4, <2>1, <2>3, <3>1
  <2>. QED
    BY <2>2, <2>3
<1>13. PatienceInv'
  <2>1. ASSUME ~hung
        PROVE  /\ (elapsed')["patience"] <= Grace
               /\ engine \notin {"draining", "exited"} => (elapsed')["patience"] = 0
               /\ engine = "draining" => (elapsed')["patience"] <= (elapsed')["grace"]
    <3>1. /\ elapsed["patience"] <= Grace /\ engine \in EngineStates
          /\ engine \notin {"draining", "exited"} => elapsed["patience"] = 0
          /\ engine = "draining" => elapsed["patience"] <= elapsed["grace"]
          /\ stopSent => told \/ engine = "exited"
      BY <2>1 DEF EngineInv, PatienceInv, ShapeInv, StopInv
    <3>2. CASE engine = "draining"
      BY <1>4, <1>7, <2>1, <3>1, <3>2
    <3>3. CASE engine = "exited"
      BY <1>4, <3>1, <3>3
    <3>4. CASE engine \notin {"draining", "exited"}
      <4>1. ~stopSent
        BY <1>5, <1>6, <2>1, <3>1, <3>4 DEF EngineStates
      <4>. QED
        BY <1>4, <3>1, <3>4, <4>1
    <3>. QED
      BY <3>2, <3>3, <3>4
  <2>2. /\ engine = "draining" => (elapsed')["grace"] <= Grace
        /\ engine \notin {"draining", "exited"} => (elapsed')["grace"] = 0
    BY <1>4, <1>7 DEF EngineInv, PatienceInv, ShapeInv
  <2>. QED
    BY <1>2, <2>1, <2>2 DEF PatienceInv
<1>. QED
  BY <1>9, <1>10, <1>11, <1>12, <1>13 DEF EngineInv

(* A chain that is settled meets what its node allows.                     *)
LEMMA SettleStep ==
    ASSUME EngineInv, NEW c \in DOMAIN check, NEW result \in CheckStates, Settle(c, result),
           engine = "opening",
           ~told => ChainFits(c)'
    PROVE  EngineInv'
<1>1. /\ check' = [check EXCEPT ![c] = result]
      /\ UNCHANGED <<node, simulation, launcher, aborted, stopSent, engine, ready, told, hung, elapsed>>
  BY DEF Settle, config, launching, signals
<1>2. ShapeInv'
  BY <1>1 DEF EngineInv, ShapeInv
<1>3. ASSUME ~told, NEW d \in DOMAIN node PROVE ChainFits(d)'
  <2>1. ChainFits(d)
    BY <1>3 DEF EngineInv, CheckInv
  <2>2. d # c => (check')[d] = check[d]
    BY <1>1, <1>3 DEF EngineInv, ShapeInv
  <2>. QED
    BY <1>1, <1>3, <2>1, <2>2 DEF ChainFits
<1>4. CheckInv'
  BY <1>1, <1>3 DEF EngineInv, CheckInv
<1>. QED
  BY <1>1, <1>2, <1>4 DEF EngineInv, StopInv, StartupInv, PatienceInv

LEMMA ChecksStep ==
    ASSUME EngineInv, NEW c \in DOMAIN check, Open(c) \/ VerifyDeployments(c) \/ CheckEnds(c)
    PROVE  EngineInv'
<1>. DEFINE n == node[c]
<1>1. /\ engine = "opening" /\ c \in DOMAIN node
      /\ n.endpoint \in {"unset", "unsound", "sound"} /\ n.opens \in Nat /\ n.verifies \in Nat
      /\ elapsed["check"] \in Nat /\ CheckTimeout \in Nat /\ elapsed["check"] <= CheckTimeout
      /\ ~told => ChainFits(c)
  BY NodeShape, TimerShape DEF Open, VerifyDeployments, CheckEnds, Up, EngineInv, ShapeInv, CheckInv
<1>. HIDE DEF n
<1>2. ASSUME NEW result, Settle(c, result)
      PROVE  (check')[c] = result /\ node' = node /\ elapsed' = elapsed
  BY <1>2 DEF Settle, config
<1>3. ASSUME Open(c) PROVE EngineInv'
  <2>1. check[c] = "opening" /\ (n.endpoint = "unset" \/ elapsed["check"] >= n.opens)
    BY <1>3 DEF Open, Answered, n
  <2>2. CASE n.endpoint = "sound" /\ Settle(c, "verifying")
    <3>1. ~told => ChainFits(c)'
      BY <1>1, <1>2, <2>1, <2>2 DEF ChainFits, n
    <3>. QED
      BY <1>1, <2>2, <3>1, SettleStep DEF CheckStates
  <2>3. CASE n.endpoint # "sound" /\ Settle(c, "failed")
    <3>1. ~told => ChainFits(c)'
      BY <1>1, <1>2, <2>1, <2>3 DEF ChainFits, n
    <3>. QED
      BY <1>1, <2>3, <3>1, SettleStep DEF CheckStates
  <2>. QED
    BY <1>3, <2>2, <2>3 DEF Open, FailChain, n
<1>4. ASSUME VerifyDeployments(c) PROVE EngineInv'
  <2>1. /\ check[c] = "verifying" /\ elapsed["check"] >= n.opens + n.verifies
        /\ Settle(c, "connected")
    BY <1>4 DEF VerifyDeployments, Verified, n
  <2>2. ~told => ChainFits(c)'
    BY <1>1, <1>2, <2>1 DEF ChainFits, n
  <2>. QED
    BY <1>1, <2>1, <2>2, SettleStep DEF CheckStates
<1>5. ASSUME CheckEnds(c) PROVE EngineInv'
  <2>1. ~told => elapsed["check"] = CheckTimeout
    BY <1>5 DEF CheckEnds, Deadline
  <2>2. CASE check[c] = "opening" /\ Settle(c, "failed")
    <3>1. ~told => ChainFits(c)'
      BY <1>1, <1>2, <2>1, <2>2 DEF ChainFits, n
    <3>. QED
      BY <1>1, <2>2, <3>1, SettleStep DEF CheckStates
  <2>3. CASE check[c] = "verifying" /\ Settle(c, "degraded")
    <3>1. ~told => ChainFits(c)'
      BY <1>1, <1>2, <2>1, <2>3 DEF ChainFits, n
    <3>. QED
      BY <1>1, <2>3, <3>1, SettleStep DEF CheckStates
  <2>. QED
    BY <1>5, <2>2, <2>3 DEF CheckEnds, FailChain
<1>. QED
  BY <1>3, <1>4, <1>5

(* The engine goes on to a state its checks and its readiness line allow.  *)
LEMMA EngineStep ==
    ASSUME EngineInv,
           UNCHANGED <<node, simulation, launcher, aborted, stopSent, check, told, hung, elapsed>>,
           ready' \in BOOLEAN, ready => ready',
           \/ engine' = "exited"
           \/ engine = "booting" /\ engine' = "opening"
           \/ engine = "probing" /\ engine' = "serving" /\ simulation
           \/ engine = "serving" /\ engine' = "draining" /\ told
    PROVE  EngineInv'
<1>1. ShapeInv'
  BY DEF EngineInv, ShapeInv, EngineStates
<1>2. StopInv'
  BY DEF EngineInv, StopInv
<1>3. CheckInv'
  BY DEF EngineInv, CheckInv, Unsettled, ChainFits
<1>. elapsed["grace"] \in Nat /\ elapsed["patience"] \in Nat /\ elapsed["startup"] \in Nat
  BY TimerShape DEF EngineInv
<1>. elapsed["check"] \in Nat /\ Grace \in Nat
  BY TimerShape DEF EngineInv
<1>4. StartupInv'
  BY DEF EngineInv, StartupInv
<1>5. PatienceInv'
  BY DEF EngineInv, PatienceInv
<1>. QED
  BY <1>1, <1>2, <1>3, <1>4, <1>5 DEF EngineInv

LEMMA OpenedStep == ASSUME EngineInv, Opened PROVE EngineInv'
<1>1. /\ engine = "opening" /\ Unsettled = {} /\ Clear("check")
      /\ UNCHANGED <<node, simulation, launcher, aborted, stopSent, check, told, hung>>
      /\ \/ engine' = "exited" /\ ready' = ready
         \/ engine' = "probing" /\ simulation /\ ready' = FALSE
         \/ engine' = "serving" /\ ready' = TRUE
  BY DEF Opened, Up, config, launching, signals
<1>2. /\ elapsed' \in [Timers -> Nat] /\ (elapsed')["check"] = 0
      /\ (elapsed')["startup"] = elapsed["startup"]
      /\ (elapsed')["grace"] = elapsed["grace"]
      /\ (elapsed')["patience"] = elapsed["patience"]
  BY <1>1, Cleared DEF EngineInv, Timers
<1>3. ShapeInv'
  BY <1>1, <1>2 DEF EngineInv, ShapeInv, EngineStates
<1>4. StopInv'
  BY <1>1 DEF EngineInv, StopInv
<1>5. CheckInv'
  <2>1. ASSUME ~told, NEW c \in DOMAIN node PROVE ChainFits(c)'
    <3>1. ChainFits(c) /\ check[c] \notin {"opening", "verifying"}
      BY <1>1, <2>1 DEF EngineInv, CheckInv, ShapeInv, Unsettled
    <3>. QED
      BY <1>1, <3>1 DEF ChainFits
  <2>2. 0 <= CheckTimeout
    BY EngineAssumption
  <2>. QED
    BY <1>1, <1>2, <2>1, <2>2 DEF CheckInv, Unsettled
<1>6. StartupInv'
  BY <1>1, <1>2 DEF EngineInv, StartupInv
<1>7. PatienceInv'
  BY <1>1, <1>2 DEF EngineInv, PatienceInv
<1>. QED
  BY <1>3, <1>4, <1>5, <1>6, <1>7 DEF EngineInv

(* stop() tells an engine that has not ended.                              *)
LEMMA LauncherStep ==
    ASSUME EngineInv, UNCHANGED <<node, simulation, engine, check, ready, hung>>,
           elapsed' = elapsed \/ Clear("startup") \/ Clear("patience"),
           told' \in BOOLEAN, stopSent' \in BOOLEAN, aborted' \in BOOLEAN, told => told',
           stopSent => stopSent',
           stopSent' => told' \/ engine = "exited",
           aborted' => stopSent',
           launcher' = "ended" => engine = "exited", launcher' = "killed" => aborted'
    PROVE  EngineInv'
<1>1. /\ elapsed' \in [Timers -> Nat] /\ (elapsed')["check"] = elapsed["check"]
      /\ (elapsed')["startup"] \in {0, elapsed["startup"]}
      /\ (elapsed')["grace"] = elapsed["grace"]
      /\ (elapsed')["patience"] \in {0, elapsed["patience"]}
  <2>1. CASE elapsed' = elapsed
    BY <2>1 DEF EngineInv, ShapeInv
  <2>2. CASE Clear("startup")
    BY <2>2, Cleared DEF EngineInv, Timers
  <2>3. CASE Clear("patience")
    BY <2>3, Cleared DEF EngineInv, Timers
  <2>. QED
    BY <2>1, <2>2, <2>3
<1>2. ShapeInv' /\ StopInv'
  BY <1>1 DEF EngineInv, ShapeInv, StopInv
<1>3. CheckInv'
  BY <1>1 DEF EngineInv, CheckInv, Unsettled, ChainFits
<1>. elapsed["grace"] \in Nat /\ elapsed["patience"] \in Nat /\ elapsed["startup"] \in Nat
  BY TimerShape DEF EngineInv
<1>. elapsed["check"] \in Nat /\ Grace \in Nat /\ CheckTimeout \in Nat
  BY TimerShape DEF EngineInv
<1>4. StartupInv'
  BY <1>1 DEF EngineInv, StartupInv
<1>5. PatienceInv'
  BY <1>1 DEF EngineInv, PatienceInv
<1>. QED
  BY <1>2, <1>3, <1>4, <1>5 DEF EngineInv

LEMMA HangStep == ASSUME EngineInv, Hang PROVE EngineInv'
<1>1. /\ hung' = TRUE
      /\ UNCHANGED <<node, simulation, launcher, aborted, stopSent, engine, check, ready, told, elapsed>>
  BY DEF Hang, config, launching, serving
<1>. QED
  BY <1>1 DEF EngineInv, ShapeInv, StopInv, CheckInv, Unsettled, ChainFits, StartupInv, PatienceInv

LEMMA EngineInvStep == EngineInv /\ [Next]_vars => EngineInv'
<1>. SUFFICES ASSUME EngineInv, [Next]_vars PROVE EngineInv'
  OBVIOUS
<1>1. CASE Tick \/ Opened \/ Hang
  BY <1>1, TickStep, OpenedStep, HangStep
<1>2. CASE \E c \in DOMAIN check : Open(c) \/ VerifyDeployments(c) \/ CheckEnds(c)
  BY <1>2, ChecksStep
<1>3. CASE Boot \/ Probed \/ ProbeCancelled \/ Shutdown \/ Drained \/ Crash \/ Kill
  <2>1. /\ UNCHANGED <<node, simulation, launcher, aborted, stopSent, check, told, hung, elapsed>>
        /\ ready' \in {ready, TRUE}
    BY <1>3 DEF Boot, Probed, ProbeCancelled, Shutdown, Drained, Crash, Kill,
                config, launching, signals
  <2>2. engine = "probing" /\ ~hung => simulation
    BY DEF EngineInv, StartupInv
  <2>3. \/ engine' = "exited"
        \/ engine = "booting" /\ engine' = "opening"
        \/ engine = "probing" /\ engine' = "serving" /\ simulation
        \/ engine = "serving" /\ engine' = "draining" /\ told
    BY <1>3, <2>2 DEF Boot, Probed, ProbeCancelled, Shutdown, Drained, Crash, Kill, Up
  <2>4. ready' \in BOOLEAN /\ (ready => ready')
    BY <2>1 DEF EngineInv, ShapeInv
  <2>. QED
    BY <2>1, <2>3, <2>4, EngineStep
<1>4. CASE \E r \in Requests : Arrive(r) \/ Respond(r)
  <2>1. UNCHANGED <<node, simulation, launcher, aborted, stopSent, engine, check, ready, told, hung, elapsed>>
    BY <1>4 DEF Arrive, Respond, config, launching, serving, signals
  <2>. QED
    BY <2>1 DEF EngineInv, ShapeInv, StopInv, CheckInv, Unsettled, ChainFits, StartupInv, PatienceInv
<1>5. CASE StartupTimesOut \/ ReadLine \/ Interrupt \/ InterruptAgain \/ Finish
  <2>1. /\ UNCHANGED <<node, simulation, engine, check, ready, hung>>
        /\ elapsed' = elapsed \/ Clear("startup") \/ Clear("patience")
    BY <1>5 DEF StartupTimesOut, ReadLine, Interrupt, InterruptAgain, Finish, Stop, Abandon,
                config, serving, signals
  <2>. told \in BOOLEAN /\ stopSent \in BOOLEAN /\ aborted \in BOOLEAN
    BY DEF EngineInv, ShapeInv
  <2>2. \/ told' = told /\ stopSent' = stopSent /\ aborted' = aborted
        \/ Stop /\ aborted' \in {aborted, TRUE}
    BY <1>5 DEF StartupTimesOut, ReadLine, Interrupt, InterruptAgain, Finish, Abandon, signals
  <2>3. /\ launcher' = "ended" => launcher = "ended" \/ engine = "exited"
        /\ launcher' = "killed" => launcher = "killed" \/ aborted
    BY <1>5 DEF StartupTimesOut, ReadLine, Interrupt, InterruptAgain, Finish, ChildExited, Abandon
  <2>4. /\ launcher' = "ended" => engine = "exited"
        /\ launcher' = "killed" => aborted
    BY <2>3 DEF EngineInv, StopInv
  <2>5. CASE told' = told /\ stopSent' = stopSent /\ aborted' = aborted
    BY <2>1, <2>4, <2>5, LauncherStep DEF EngineInv, StopInv
  <2>6. CASE Stop /\ aborted' \in {aborted, TRUE}
    <3>1. stopSent' = TRUE /\ aborted' \in BOOLEAN /\ (aborted => aborted')
      BY <2>6 DEF Stop
    <3>2. told' \in BOOLEAN /\ (told => told') /\ (told' \/ engine = "exited")
      <4>1. CASE engine = "exited"
        <5>1. told' = told
          BY <2>6, <4>1 DEF Stop
        <5>. QED
          BY <4>1, <5>1
      <4>2. CASE engine # "exited"
        <5>1. told' = TRUE
          BY <2>6, <4>2 DEF Stop
        <5>. QED
          BY <5>1
      <4>. QED
        BY <4>1, <4>2
    <3>. QED
      BY <2>1, <2>4, <3>1, <3>2, LauncherStep
  <2>. QED
    BY <2>2, <2>5, <2>6
<1>6. CASE UNCHANGED vars
  <2>1. UNCHANGED <<node, simulation, launcher, aborted, stopSent, engine, check, ready, told, hung, elapsed>>
    BY <1>6 DEF vars, config, launching, serving, signals
  <2>. QED
    BY <2>1 DEF EngineInv, ShapeInv, StopInv, CheckInv, Unsettled, ChainFits, StartupInv, PatienceInv
<1>. QED
  BY <1>1, <1>2, <1>3, <1>4, <1>5, <1>6 DEF Next, Prompt

LEMMA EngineInvariant == Spec => []EngineInv
<1>1. Init => EngineInv
  <2>. SUFFICES ASSUME Init PROVE EngineInv
    OBVIOUS
  <2>. PICK keys \in SUBSET Chains : node \in [keys -> Nodes]
    BY DEF Init
  <2>1. /\ check = [c \in DOMAIN node |-> "opening"] /\ DOMAIN node = keys
        /\ \A c \in DOMAIN node : node[c] \in Nodes
        /\ elapsed = [t \in Timers |-> 0] /\ engine = "booting" /\ launcher = "starting"
        /\ ready = FALSE /\ told = FALSE /\ hung = FALSE /\ aborted = FALSE /\ stopSent = FALSE
    BY DEF Init
  <2>2. ShapeInv /\ StopInv
    BY <2>1 DEF ShapeInv, StopInv, CheckStates, EngineStates
  <2>3. elapsed["startup"] = 0 /\ elapsed["check"] = 0 /\ elapsed["grace"] = 0 /\ elapsed["patience"] = 0
    BY <2>1 DEF Timers
  <2>4. CheckTimeout \in Nat /\ Grace \in Nat
    BY EngineAssumption
  <2>5. ASSUME NEW c \in DOMAIN node PROVE ChainFits(c)
    <3>1. check[c] = "opening" /\ node[c].opens \in Nat
      BY <2>1, <2>2, NodeShape
    <3>. QED
      BY <2>3, <3>1 DEF ChainFits
  <2>6. CheckInv
    BY <2>1, <2>3, <2>4, <2>5 DEF CheckInv
  <2>7. StartupInv /\ PatienceInv
    BY <2>1, <2>3, <2>4 DEF StartupInv, PatienceInv
  <2>. QED
    BY <2>2, <2>6, <2>7 DEF EngineInv
<1>. QED
  BY <1>1, EngineInvStep, PTL DEF Spec

(* Whoever stops whom and in whatever order the pipe, the timers and the   *)
(* signals come, the launcher ends after the engine; killed by the second  *)
(* signal, it had told it on the first.                                    *)
THEOREM LauncherEndsLast == Spec => []NothingLeftBehind
<1>1. EngineInv => NothingLeftBehind
  BY DEF EngineInv, StopInv, NothingLeftBehind
<1>. QED
  BY <1>1, EngineInvariant, PTL

(* It takes no more of the four constants than that the checks' is below   *)
(* the launcher's startup timer, and the grace period below its patience.  *)
THEOREM TimersAlwaysFit == Spec => []TimersFit
<1>1. EngineInv => TimersFit
  <2>. SUFFICES ASSUME EngineInv PROVE TimersFit
    OBVIOUS
  <2>1. ~simulation /\ ~hung => elapsed["startup"] <= CheckTimeout
    BY DEF EngineInv, StartupInv
  <2>2. ~hung => elapsed["patience"] <= Grace
    BY DEF EngineInv, PatienceInv
  <2>3. CheckTimeout < StartupTimeout /\ Grace < Patience
    BY TimeoutAssumption
  <2>. elapsed["startup"] \in Nat /\ elapsed["patience"] \in Nat
    BY TimerShape DEF EngineInv
  <2>. CheckTimeout \in Nat /\ StartupTimeout \in Nat /\ Grace \in Nat /\ Patience \in Nat
    BY EngineAssumption
  <2>. QED
    BY <2>1, <2>2, <2>3 DEF TimersFit
<1>. QED
  BY <1>1, EngineInvariant, PTL

(* With any number of chains, a chain's status is that of its own node.    *)
THEOREM ChainsAreApart == Spec => []StatusIsOwn
<1>1. EngineInv => StatusIsOwn
  <2>. SUFFICES ASSUME EngineInv, engine = "serving", ~told, NEW c \in DOMAIN node
                PROVE  LET n == node[c]
                           verified == n.opens + n.verifies
                       IN  \/ check[c] = "failed" /\ (n.endpoint # "sound" \/ n.opens >= CheckTimeout)
                           \/ /\ n.endpoint = "sound" /\ n.opens <= CheckTimeout
                              /\ \/ check[c] = "connected" /\ verified <= CheckTimeout
                                 \/ check[c] = "degraded" /\ verified >= CheckTimeout
    BY DEF StatusIsOwn
  <2>1. ChainFits(c) /\ check[c] \in CheckStates \ {"opening", "verifying"}
    BY DEF EngineInv, CheckInv, ShapeInv, Unsettled
  <2>2. /\ node[c].opens \in Nat /\ node[c].verifies \in Nat /\ CheckTimeout \in Nat
    BY NodeShape, EngineAssumption DEF EngineInv
  <2>. QED
    BY <2>1, <2>2 DEF ChainFits, CheckStates
<1>. QED
  BY <1>1, EngineInvariant, PTL

CallsInv ==
    /\ request \in [Requests -> {"new", "running", "answered", "cut"}]
    /\ crashed \in BOOLEAN /\ (crashed => engine = "exited")

(* Steps that are neither a call's nor an end of the engine touch no call. *)
LEMMA CallsUntouched ==
    ASSUME \/ Prompt /\ ~Drained /\ ~Kill
           \/ Tick \/ Probed \/ Hang \/ Interrupt \/ InterruptAgain
    PROVE  request' = request
<1>1. CASE Prompt /\ ~Drained /\ ~Kill
  <2>1. CASE \E c \in DOMAIN check : Open(c) \/ VerifyDeployments(c) \/ CheckEnds(c)
    BY <2>1 DEF Open, VerifyDeployments, CheckEnds, FailChain, Settle
  <2>2. CASE Boot \/ Opened \/ ProbeCancelled \/ Shutdown
    BY <2>2 DEF Boot, Opened, ProbeCancelled, Shutdown
  <2>3. CASE StartupTimesOut \/ ReadLine \/ Finish
    BY <2>3 DEF StartupTimesOut, ReadLine, Finish
  <2>. QED BY <1>1, <2>1, <2>2, <2>3 DEF Prompt
<1>2. CASE Tick \/ Probed \/ Hang \/ Interrupt \/ InterruptAgain
  BY <1>2 DEF Tick, Probed, Hang, Interrupt, InterruptAgain
<1>. QED BY <1>1, <1>2

(* The history is kept by the crash alone.                                 *)
LEMMA CrashOnly == ASSUME [Next]_vars, ~Crash PROVE crashed' = crashed
<1>1. CASE \E c \in DOMAIN check : Open(c) \/ VerifyDeployments(c) \/ CheckEnds(c)
  BY <1>1 DEF Open, VerifyDeployments, CheckEnds, FailChain, Settle, signals
<1>2. CASE Boot \/ Opened \/ Probed \/ ProbeCancelled \/ Shutdown \/ Drained \/ Kill \/ Tick \/ Hang
  BY <1>2 DEF Boot, Opened, Probed, ProbeCancelled, Shutdown, Drained, Kill, Tick, Hang, signals
<1>3. CASE StartupTimesOut \/ ReadLine \/ Finish \/ Interrupt \/ InterruptAgain
  BY <1>3 DEF StartupTimesOut, ReadLine, Finish, Interrupt, InterruptAgain, Stop, Abandon, signals
<1>4. CASE \E q \in Requests : Arrive(q) \/ Respond(q)
  BY <1>4 DEF Arrive, Respond, signals
<1>5. CASE UNCHANGED vars
  BY <1>5 DEF vars, signals
<1>. QED BY <1>1, <1>2, <1>3, <1>4, <1>5 DEF Next, Prompt

(* A process that has ended does not start again.                          *)
LEMMA ExitedStays == ASSUME [Next]_vars, engine = "exited" PROVE engine' = "exited"
<1>1. CASE \E c \in DOMAIN check : Open(c) \/ VerifyDeployments(c) \/ CheckEnds(c)
  BY <1>1 DEF Open, VerifyDeployments, CheckEnds, FailChain, Settle
<1>2. CASE Boot \/ Opened \/ Probed \/ ProbeCancelled \/ Shutdown \/ Drained \/ Kill \/ Tick \/ Hang \/ Crash
  BY <1>2 DEF Boot, Opened, Probed, ProbeCancelled, Shutdown, Drained, Kill, Tick, Hang, Crash,
              Up, serving
<1>3. CASE StartupTimesOut \/ ReadLine \/ Finish \/ Interrupt \/ InterruptAgain
  BY <1>3 DEF StartupTimesOut, ReadLine, Finish, Interrupt, InterruptAgain, serving
<1>4. CASE \E q \in Requests : Arrive(q) \/ Respond(q)
  BY <1>4 DEF Arrive, Respond, serving
<1>5. CASE UNCHANGED vars
  BY <1>5 DEF vars, serving
<1>. QED BY <1>1, <1>2, <1>3, <1>4, <1>5 DEF Next, Prompt

LEMMA CallsStayKnown == Spec => []CallsInv
<1>1. Init => CallsInv
  BY DEF Init, CallsInv
<1>2. CallsInv /\ [Next]_vars => CallsInv'
  <2>. SUFFICES ASSUME CallsInv, [Next]_vars PROVE CallsInv'
    OBVIOUS
  <2>1. request' \in [Requests -> {"new", "running", "answered", "cut"}]
    <3>1. CASE \E q \in Requests : Arrive(q) \/ Respond(q)
      BY <3>1 DEF CallsInv, Arrive, Respond
    <3>2. CASE Drained \/ Kill \/ Crash
      BY <3>2 DEF CallsInv, Drained, Kill, Crash, Cut
    <3>3. CASE request' = request
      BY <3>3 DEF CallsInv
    <3>. QED BY <3>1, <3>2, <3>3, CallsUntouched DEF Next, vars
  <2>2. \/ crashed' = crashed
        \/ crashed' = TRUE /\ engine' = "exited"
    <3>1. CASE Crash
      BY <3>1 DEF Crash
    <3>2. CASE ~Crash
      BY <3>2, CrashOnly
    <3>. QED BY <3>1, <3>2
  <2>3. engine = "exited" => engine' = "exited"
    BY ExitedStays
  <2>4. crashed' \in BOOLEAN /\ (crashed' => engine' = "exited")
    <3>1. CASE crashed' = crashed
      <4>1. crashed \in BOOLEAN /\ (crashed => engine' = "exited")
        BY <2>3 DEF CallsInv
      <4>. QED BY <3>1, <4>1
    <3>2. CASE crashed' = TRUE /\ engine' = "exited"
      BY <3>2
    <3>. QED BY <2>2, <3>1, <3>2
  <2>. QED BY <2>1, <2>4 DEF CallsInv
<1>. QED BY <1>1, <1>2, PTL DEF Spec

(* A step that cuts a call is the end of the grace period, a crash, or the *)
(* launcher's kill of an engine that hangs: its patience, which runs from  *)
(* before the grace period, outlasts that of an engine that does not.      *)
THEOREM CallsAreCutLast == Spec => CutOnlyAfterGrace
<1>1. ASSUME EngineInv, CallsInv, Next, NEW r \in Running, request'[r] = "cut"
      PROVE  \/ elapsed["grace"] = Grace
             \/ ~crashed /\ crashed'
             \/ hung /\ PatienceOver
  <2>1. PatienceOver => hung
    <3>1. ~hung => elapsed["patience"] <= Grace
      BY <1>1 DEF EngineInv, PatienceInv
    <3>2. Grace < Patience /\ Grace \in Nat /\ Patience \in Nat
      BY TimeoutAssumption, EngineAssumption
    <3>. QED BY <3>1, <3>2 DEF PatienceOver
  <2>2. request[r] = "running" /\ Running # {} /\ r \in Requests
    BY DEF Running
  <2>3. request' # request
    BY <1>1, <2>2
  <2>4. CASE Drained
    BY <2>2, <2>4 DEF Drained, GraceOver
  <2>5. CASE Kill
    BY <2>1, <2>5 DEF Kill
  <2>6. CASE Crash
    BY <1>1, <2>6 DEF Crash, CallsInv
  <2>7. CASE \E q \in Requests : Arrive(q) \/ Respond(q)
    <3>1. PICK q \in Requests : Arrive(q) \/ Respond(q)
      BY <2>7
    <3>. QED BY <1>1, <2>2, <3>1 DEF CallsInv, Arrive, Respond
  <2>8. CASE request' = request
    BY <2>3, <2>8
  <2>. QED
    BY <1>1, <2>4, <2>5, <2>6, <2>7, <2>8, CallsUntouched DEF Next
<1>2. ASSUME EngineInv, CallsInv, [Next]_vars
      PROVE  [\A r \in Running : request'[r] = "cut" =>
                 \/ elapsed["grace"] = Grace
                 \/ ~crashed /\ crashed'
                 \/ hung /\ PatienceOver]_vars
  BY <1>1, <1>2
<1>. QED
  BY <1>2, EngineInvariant, CallsStayKnown, PTL DEF CutOnlyAfterGrace, Spec

==============================================================================

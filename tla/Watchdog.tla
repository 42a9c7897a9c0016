------------------------------ MODULE Watchdog ------------------------------
(***************************************************************************)
(* The watchdog of the vision stack: the HeartBeatPublisher at the end of  *)
(* the tracker's callback, the GuardDog processes that listen to it, and   *)
(* the tmux windows through which a guard replaces the pipeline and then   *)
(* itself.                                                                 *)
(*                                                                         *)
(* Time advances in ticks of 250 ms, the period of the guard's timer and   *)
(* the length of its sleeps.  A guard is a process between two sleeps; the *)
(* commands it gives tmux in between are one action.  Pipelines may run in *)
(* a terminal (README) or in the tmux window Vision, guards in a place of  *)
(* their own ("home") or in the windows WatchDog0 and WatchDog1.           *)
(*                                                                         *)
(* Operators named Operator_Fault are plausible faults, used to show that  *)
(* the properties can fail; they are not part of the model.                *)
(***************************************************************************)
EXTENDS Integers, FiniteSets

CONSTANTS
    FpsCycle,          \* 200 callbacks between two attempts to beat
    Second,            \* ticks in the second two heartbeats are apart
    Timeout,           \* ticks in the 5 s a guard waits for a heartbeat
    MinRate, MaxRate,  \* callbacks of a live pipeline in one tick
    StartTicks,        \* how long a pipeline may take to come up
    BootTicks,         \* from the window of a guard to its constructor
    CtorTicks,         \* the sleep of the constructor
    Layout,            \* windows of the session at the start
    FirstGuard         \* where the first guard runs

Pipes == {"terminal", "window"}
WatchDogs == {"WatchDog0", "WatchDog1"}
Guards == {"home"} \cup WatchDogs
Windows == {"Vision", "Shell"} \cup WatchDogs

ASSUME WatchdogAssumption ==
    /\ FpsCycle \in Nat /\ Second \in Nat /\ Timeout \in Nat
    /\ MinRate \in Nat /\ MaxRate \in Nat /\ MinRate <= MaxRate
    /\ StartTicks \subseteq Nat /\ StartTicks # {}
    /\ BootTicks \in Nat /\ CtorTicks \in Nat
    /\ Layout \subseteq Windows
    /\ FirstGuard \in Guards
    /\ \A w \in WatchDogs : w \in Layout <=> FirstGuard = w

\* The session has a window besides Vision, as it has in docs/operations/tmux.md:
\* else a guard that runs elsewhere ends the session with the window it kills.
ASSUME SessionAssumption ==
    FirstGuard = "home" /\ "Vision" \in Layout => "Shell" \in Layout

VARIABLES
    win,    \* how many windows of the session have a name
    pipe,   \* the pipelines, with the heartbeat publisher of each
    guard   \* the guards

vars == <<win, pipe, guard>>

-----------------------------------------------------------------------------
(* tmux.                                                                   *)

\* A session lives as long as it has a window.
Session(w) == \E n \in Windows : w[n] > 0

\* new-window fails without a session; kill-window fails unless the name is
\* that of exactly one window.
Opened(w, n) == IF Session(w) THEN [w EXCEPT ![n] = @ + 1] ELSE w
Killed(w, n) == IF w[n] = 1 THEN [w EXCEPT ![n] = 0] ELSE w

-----------------------------------------------------------------------------
(* The records.                                                            *)

PipeOff == [state |-> "off", wait |-> 0, frames |-> 0,
            count |-> 0, begun |-> FALSE, since |-> 0]

\* A new process has a new publisher, whose static last_publish_time is not
\* set before its first attempt to beat (begun).
PipeStarting(n) == [PipeOff EXCEPT !.state = "starting", !.wait = n]

GuardOff == [pc |-> "off", wait |-> 0, since |-> 0, beat |-> FALSE, due |-> FALSE]
GuardBooting == [GuardOff EXCEPT !.pc = "boot", !.wait = BootTicks]

PipeRecords == [state: {"off", "starting", "up", "hung"}, wait: Nat,
                frames: 0 .. MaxRate, count: 0 .. FpsCycle,
                begun: BOOLEAN, since: 0 .. Second]
GuardRecords == [pc: {"off", "boot", "ctor", "watch", "spawn", "self", "quit"},
                 wait: Nat, since: 0 .. Timeout + 1, beat: BOOLEAN, due: BOOLEAN]

Init ==
    /\ win = [n \in Windows |-> IF n \in Layout THEN 1 ELSE 0]
    /\ \E n \in StartTicks :
        pipe = [p \in Pipes |->
                   IF (p = "window") <=> ("Vision" \in Layout) THEN PipeStarting(n)
                   ELSE PipeOff]
    /\ guard = [g \in Guards |-> IF g = FirstGuard THEN GuardBooting ELSE GuardOff]

-----------------------------------------------------------------------------
(* A pipeline.                                                             *)

\* The launch file has brought the nodes up.
ComeUp(p) ==
    /\ pipe[p].state = "starting" /\ pipe[p].wait = 0
    /\ pipe' = [pipe EXCEPT ![p].state = "up"]
    /\ UNCHANGED <<win, guard>>

\* The camera stops, a node deadlocks: no more callbacks.
Hang(p) ==
    /\ pipe[p].state \in {"starting", "up"}
    /\ pipe' = [pipe EXCEPT ![p].state = "hung"]
    /\ UNCHANGED <<win, guard>>

\* The launch ends; a window that ran it as its command closes with it, one
\* that ran it from a shell stays.
Exit(p) ==
    /\ pipe[p].state # "off"
    /\ pipe' = [pipe EXCEPT ![p] = PipeOff]
    /\ win' \in {win} \cup {[win EXCEPT !["Vision"] = 0] : q \in {p} \cap {"window"}}
    /\ UNCHANGED guard

\* refresh(), called once per callback of the tracker: every FpsCycle + 1
\* calls it tries to beat, which it does if a second has passed since the last
\* beat.  The first attempt only starts the clock.
Attempts(h) == h.count + 1 > FpsCycle
Beats(h) == Attempts(h) /\ h.begun /\ h.since >= Second
Refresh(h) ==
    [h EXCEPT !.frames = @ + 1,
              !.count = IF Attempts(h) THEN 0 ELSE @ + 1,
              !.begun = @ \/ Attempts(h),
              !.since = IF Beats(h) THEN 0 ELSE @]

\* A heartbeat reaches the guards that have subscribed.
Frame(p) ==
    /\ pipe[p].state = "up" /\ pipe[p].frames < MaxRate
    /\ pipe' = [pipe EXCEPT ![p] = Refresh(@)]
    /\ guard' = [g \in Guards |->
                    IF Beats(pipe[p]) /\ guard[g].pc = "watch"
                    THEN [guard[g] EXCEPT !.beat = TRUE] ELSE guard[g]]
    /\ UNCHANGED win

-----------------------------------------------------------------------------
(* A guard.                                                                *)

\* The process starts: last_heartbeat_time_ is now, and the constructor sleeps.
Construct(g) ==
    /\ guard[g].pc = "boot" /\ guard[g].wait = 0
    /\ guard' = [guard EXCEPT ![g].pc = "ctor", ![g].wait = CtorTicks, ![g].since = 0]
    /\ UNCHANGED <<win, pipe>>

\* The constructor creates a missing session and sleeps again, or subscribes
\* and starts the timer.
Attach(g) ==
    /\ guard[g].pc = "ctor" /\ guard[g].wait = 0
    /\ IF Session(win)
       THEN guard' = [guard EXCEPT ![g].pc = "watch"] /\ UNCHANGED win
       ELSE /\ guard' = [guard EXCEPT ![g].wait = CtorTicks]
            /\ win' = [win EXCEPT !["Shell"] = 1]
    /\ UNCHANGED pipe

\* Fault: last_heartbeat_time_ is not updated.
HeartbeatCallback_KeepsTime(g) ==
    /\ guard[g].pc = "watch" /\ guard[g].beat
    /\ guard' = [guard EXCEPT ![g].beat = FALSE]
    /\ UNCHANGED <<win, pipe>>

HeartbeatCallback(g) ==
    /\ guard[g].pc = "watch" /\ guard[g].beat
    /\ guard' = [guard EXCEPT ![g].beat = FALSE, ![g].since = 0]
    /\ UNCHANGED <<win, pipe>>

\* check_heartbeat() with nothing to do.
CheckHeartbeat(g) ==
    /\ guard[g].pc = "watch" /\ guard[g].due /\ guard[g].since <= Timeout
    /\ guard' = [guard EXCEPT ![g].due = FALSE]
    /\ UNCHANGED <<win, pipe>>

\* Fault: the old window is left alone.
KillVision_Skipped(g) ==
    /\ guard[g].pc = "watch" /\ guard[g].due /\ guard[g].since > Timeout
    /\ UNCHANGED <<win, pipe>>
    /\ guard' = [guard EXCEPT ![g].pc = "spawn", ![g].wait = 1,
                              ![g].due = FALSE, ![g].beat = FALSE]

\* check_heartbeat() after too long a silence: from here to the shutdown the
\* guard serves no other callback.  It first kills the window Vision.
KillVision(g) ==
    /\ guard[g].pc = "watch" /\ guard[g].due /\ guard[g].since > Timeout
    /\ win' = Killed(win, "Vision")
    /\ pipe' = IF win["Vision"] = 1 THEN [pipe EXCEPT !["window"] = PipeOff] ELSE pipe
    /\ guard' = [guard EXCEPT ![g].pc = "spawn", ![g].wait = 1,
                              ![g].due = FALSE, ![g].beat = FALSE]

\* A new window Vision runs run_bringup.sh.
SpawnVision(g) ==
    /\ guard[g].pc = "spawn" /\ guard[g].wait = 0
    /\ win' = Opened(win, "Vision")
    /\ \E n \in StartTicks :
        pipe' = IF Session(win) THEN [pipe EXCEPT !["window"] = PipeStarting(n)] ELSE pipe
    /\ guard' = [guard EXCEPT ![g].pc = "self", ![g].wait = 1]

\* restart_self(): which window is created, and which one is killed.
Successor(w) ==
    IF w["WatchDog0"] > 0 THEN "WatchDog1"
    ELSE IF w["WatchDog1"] > 0 THEN "WatchDog0" ELSE "WatchDog1"
Predecessors(w) == {d \in WatchDogs : w[d] > 0 /\ d # Successor(w)}

\* Faults: the old window is killed, and its guard with it, before the new one
\* is created; no new one is created at all.
RestartSelf_KillFirst(g) ==
    /\ guard[g].pc = "self" /\ guard[g].wait = 0
    /\ IF g \in WatchDogs
       THEN /\ win' = [win EXCEPT ![g] = 0]
            /\ guard' = [guard EXCEPT ![g] = GuardOff]
       ELSE /\ win' = Opened(win, Successor(win))
            /\ guard' = [guard EXCEPT ![g] = GuardOff, ![Successor(win)] = GuardBooting]
    /\ UNCHANGED pipe
RestartSelf_NoSuccessor(g) ==
    /\ guard[g].pc = "self" /\ guard[g].wait = 0
    /\ guard' = [guard EXCEPT ![g].pc = "quit", ![g].wait = 1]
    /\ UNCHANGED <<win, pipe>>

\* The successor's window is opened, the other one killed with the guard in it,
\* even when that is the guard giving the command.
RestartSelf(g) ==
    /\ guard[g].pc = "self" /\ guard[g].wait = 0
    /\ LET new == Successor(win)
           old == {d \in Predecessors(win) : win[d] = 1}
       IN  /\ win' = [n \in Windows |-> IF n \in old THEN 0 ELSE Opened(win, new)[n]]
           /\ guard' = [d \in Guards |->
                CASE d \in old -> GuardOff
                  [] d = new /\ Session(win) -> GuardBooting
                  [] d = g /\ d \notin old \cup {new} -> [guard[g] EXCEPT !.pc = "quit", !.wait = 1]
                  [] OTHER -> guard[d]]
    /\ UNCHANGED pipe

\* rclcpp::shutdown() ends main(), and with it the window of a watchdog.
Quit(g) ==
    /\ guard[g].pc = "quit" /\ guard[g].wait = 0
    /\ guard' = [guard EXCEPT ![g] = GuardOff]
    /\ win' = IF g \in WatchDogs THEN [win EXCEPT ![g] = 0] ELSE win
    /\ UNCHANGED pipe

-----------------------------------------------------------------------------
(* Time.  A tick ends when everything due in it has happened.              *)

Settled(g) ==
    CASE guard[g].pc = "off"   -> TRUE
      [] guard[g].pc = "watch" -> ~guard[g].beat /\ ~guard[g].due
      [] OTHER                 -> guard[g].wait > 0

Ran(p) ==
    /\ pipe[p].state = "starting" => pipe[p].wait > 0
    /\ pipe[p].state = "up" => pipe[p].frames >= MinRate

Less(n) == IF n > 0 THEN n - 1 ELSE 0
More(n, cap) == IF n < cap THEN n + 1 ELSE cap

Tick ==
    /\ \A g \in Guards : Settled(g)
    /\ \A p \in Pipes : Ran(p)
    /\ guard' = [g \in Guards |->
           IF guard[g].pc = "off" THEN guard[g]
           ELSE [guard[g] EXCEPT !.wait = Less(@),
                                 !.since = More(@, Timeout + 1),
                                 !.due = guard[g].pc = "watch"]]
    /\ pipe' = [p \in Pipes |->
           [pipe[p] EXCEPT !.wait = Less(@), !.frames = 0,
                           !.since = IF pipe[p].begun THEN More(@, Second) ELSE 0]]
    /\ UNCHANGED win

GuardStep(g) ==
    \/ Construct(g) \/ Attach(g)
    \/ HeartbeatCallback(g) \/ CheckHeartbeat(g)
    \/ KillVision(g) \/ SpawnVision(g) \/ RestartSelf(g) \/ Quit(g)

PipeStep(p) == ComeUp(p) \/ Frame(p) \/ Hang(p) \/ Exit(p)

Next ==
    \/ Tick
    \/ \E g \in Guards : GuardStep(g)
    \/ \E p \in Pipes : PipeStep(p)

Spec == Init /\ [][Next]_vars

\* Time passes and every process is scheduled; nothing makes a pipeline fail.
FairSpec ==
    /\ Spec
    /\ WF_vars(Tick)
    /\ \A g \in Guards : WF_vars(GuardStep(g))
    /\ \A p \in Pipes : WF_vars(ComeUp(p)) /\ WF_vars(Frame(p))

-----------------------------------------------------------------------------
\* The records keep their types.
TypeOK ==
    /\ win \in [Windows -> Nat]
    /\ pipe \in [Pipes -> PipeRecords]
    /\ guard \in [Guards -> GuardRecords]

\* Exactly one guard can act on the pipeline, now or later: the handover leaves
\* neither none, although a guard may kill the window it runs in, nor two.
OneGuardActs == Cardinality({g \in Guards : guard[g].pc \notin {"off", "quit"}}) = 1

\* Names of windows stay unique, without which kill-window would stop working,
\* and the windows WatchDog0 and WatchDog1 are those of living guards.
WindowsSound ==
    /\ \A n \in Windows : win[n] <= 1
    /\ \A d \in WatchDogs : win[d] = 1 <=> guard[d].pc # "off"
    /\ win["Vision"] = 0 => pipe["window"].state = "off"

\* How many ticks FpsCycle + 1 callbacks take at most, and from a beat to the
\* next.
AttemptTicks == (FpsCycle + MinRate) \div MinRate
BeatTicks == Second + AttemptTicks - 1

\* The rate at which a pipeline beats in time: the first beat of a new one, which
\* takes two attempts, before its guard's timeout, and one more within the
\* guard's two sleeps and the timeout.
BeatsInTime ==
    /\ MinRate > 0 /\ Second > 0
    /\ \A n \in StartTicks : n + AttemptTicks - 1 + BeatTicks <= BootTicks + Timeout
    /\ 2 * CtorTicks + BeatTicks <= Timeout

\* A restart only ever replaces a pipeline that stopped: a live one, and one
\* that is still coming up, beats in time.
HealthyIsLeftAlone ==
    [][\A g \in Guards :
        guard[g].pc = "watch" /\ guard'[g].pc = "spawn" =>
            \A p \in Pipes : pipe[p].state \in {"off", "hung"}]_vars

\* A pipeline that stopped is eventually replaced, however often it stops.
Recovers ==
    (\A p \in Pipes : pipe[p].state \in {"off", "hung"})
        ~> (\E p \in Pipes : pipe[p].state = "starting")
=============================================================================

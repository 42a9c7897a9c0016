--------------------------- MODULE WatchdogProofs ---------------------------
(***************************************************************************)
(* Theorems about the handover of guards, for every timing, every layout   *)
(* of the session with a window that stays, and every place of the first   *)
(* guard; and about what a guard restarts, for every timing in which       *)
(* pipelines beat in time.                                                 *)
(***************************************************************************)
EXTENDS Watchdog, FiniteSetTheorems, TLAPS

\* A guard that acts on the pipeline, now or later.
Acts(g) == guard[g].pc \notin {"off", "quit"}

\* There is one, and only the first guard ever waits for its own end: a watchdog
\* is killed with its window in the step that makes its successor.
OneActs ==
    /\ \E a \in Guards : \A g \in Guards : Acts(g) <=> g = a
    /\ \A d \in WatchDogs : guard[d].pc # "quit"

\* The window Vision is gone when a new one is made.
VisionGone == \A g \in Guards : guard[g].pc = "spawn" => win["Vision"] = 0

\* A guard at home has found or made a window that stays, so that the session
\* outlives the window Vision.
HomeHasSession ==
    \/ guard["home"].pc \in {"watch", "spawn", "self"}
    \/ guard["home"].pc \in {"boot", "ctor"} /\ win["Vision"] > 0
    => win["Shell"] = 1

\* The inductive invariant.
IInv == TypeOK /\ OneActs /\ WindowsSound /\ VisionGone /\ HomeHasSession

-----------------------------------------------------------------------------
(* The records and the windows. *)

LEMMA TheGuards ==
    /\ Guards = {"home", "WatchDog0", "WatchDog1"}
    /\ WatchDogs = {"WatchDog0", "WatchDog1"}
    /\ Windows = {"Vision", "Shell", "WatchDog0", "WatchDog1"}
    /\ Pipes = {"terminal", "window"}
BY DEF Guards, WatchDogs, Windows, Pipes

LEMMA NewRecords ==
    /\ PipeOff \in PipeRecords
    /\ \A n \in StartTicks : PipeStarting(n) \in PipeRecords /\ PipeStarting(n).state = "starting"
    /\ GuardOff \in GuardRecords /\ GuardBooting \in GuardRecords
    /\ PipeOff.state = "off" /\ GuardOff.pc = "off" /\ GuardBooting.pc = "boot"
<1>1. /\ 0 \in 0 .. MaxRate /\ 0 \in 0 .. FpsCycle /\ 0 \in 0 .. Second
      /\ 0 \in 0 .. Timeout + 1
  BY WatchdogAssumption
<1>2. \A n \in StartTicks : n \in Nat
  BY WatchdogAssumption
<1> QED
  BY <1>1, <1>2, WatchdogAssumption
  DEF PipeOff, PipeStarting, PipeRecords, GuardOff, GuardBooting, GuardRecords

LEMMA InitInvariant == Init => IInv
<1> SUFFICES ASSUME Init PROVE IInv
  OBVIOUS
<1>1. win = [n \in Windows |-> IF n \in Layout THEN 1 ELSE 0]
  BY DEF Init
<1>2. PICK n \in StartTicks :
        pipe = [p \in Pipes |-> IF (p = "window") <=> ("Vision" \in Layout) THEN PipeStarting(n)
                                ELSE PipeOff]
  BY DEF Init
<1>3. guard = [g \in Guards |-> IF g = FirstGuard THEN GuardBooting ELSE GuardOff]
  BY DEF Init
<1>4. FirstGuard \in Guards /\ \A w \in WatchDogs : w \in Layout <=> FirstGuard = w
  BY WatchdogAssumption
<1>5. TypeOK
  BY <1>1, <1>2, <1>3, NewRecords DEF TypeOK
<1>6. \A g \in Guards : guard[g].pc = IF g = FirstGuard THEN "boot" ELSE "off"
  BY <1>3, NewRecords
<1>7. OneActs /\ VisionGone
  BY <1>4, <1>6, TheGuards DEF OneActs, Acts, VisionGone
<1>8. WindowsSound
  BY <1>1, <1>2, <1>4, <1>6, NewRecords, TheGuards DEF WindowsSound
<1>9. HomeHasSession
  BY <1>1, <1>4, <1>6, SessionAssumption, TheGuards DEF HomeHasSession
<1> QED
  BY <1>5, <1>7, <1>8, <1>9 DEF IInv

\* The windows, and who acts, are all that the parts of the invariant besides
\* the types look at.
LEMMA SamePlaces ==
    ASSUME IInv, TypeOK', UNCHANGED win,
           \A g \in Guards : guard'[g].pc = guard[g].pc,
           \A p \in Pipes : pipe'[p].state = "off" <=> pipe[p].state = "off"
    PROVE  IInv'
<1>1. OneActs'
  BY TheGuards DEF IInv, OneActs, Acts
<1>2. WindowsSound'
  BY TheGuards DEF IInv, WindowsSound
<1>3. VisionGone' /\ HomeHasSession'
  BY TheGuards DEF IInv, VisionGone, HomeHasSession
<1> QED
  BY <1>1, <1>2, <1>3 DEF IInv
-----------------------------------------------------------------------------
(* Pipelines and time. *)

LEMMA TickKeeps == ASSUME IInv, Tick PROVE IInv'
<1>1. \A n \in Nat : Less(n) \in Nat
  BY DEF Less
<1>2. \A cap \in Nat : \A n \in 0 .. cap : More(n, cap) \in 0 .. cap /\ 0 \in 0 .. cap
  BY DEF More
<1>3. 0 \in 0 .. MaxRate /\ Timeout + 1 \in Nat /\ Second \in Nat
  BY WatchdogAssumption
<1>4. ASSUME NEW g \in Guards
      PROVE  guard'[g] \in GuardRecords /\ guard'[g].pc = guard[g].pc
  <2>1. guard[g] \in GuardRecords
    BY DEF IInv, TypeOK
  <2>2. CASE guard[g].pc = "off"
    BY <2>1, <2>2 DEF Tick
  <2>3. CASE guard[g].pc # "off"
    <3>1. guard'[g] = [guard[g] EXCEPT !.wait = Less(@), !.since = More(@, Timeout + 1),
                                       !.due = guard[g].pc = "watch"]
      BY <2>3 DEF Tick
    <3>2. Less(guard[g].wait) \in Nat /\ More(guard[g].since, Timeout + 1) \in 0 .. Timeout + 1
      BY <1>1, <1>2, <1>3, <2>1 DEF GuardRecords
    <3>3. (guard[g].pc = "watch") \in BOOLEAN
      OBVIOUS
    <3> QED
      BY <2>1, <3>1, <3>2, <3>3 DEF GuardRecords
  <2> QED
    BY <2>2, <2>3
<1>5. ASSUME NEW p \in Pipes
      PROVE  pipe'[p] \in PipeRecords /\ pipe'[p].state = pipe[p].state
  <2>1. pipe[p] \in PipeRecords
    BY DEF IInv, TypeOK
  <2>2. pipe'[p] = [pipe[p] EXCEPT !.wait = Less(@), !.frames = 0,
                        !.since = IF pipe[p].begun THEN More(@, Second) ELSE 0]
    BY DEF Tick
  <2>3. Less(pipe[p].wait) \in Nat
    BY <1>1, <2>1 DEF PipeRecords
  <2>4. (IF pipe[p].begun THEN More(pipe[p].since, Second) ELSE 0) \in 0 .. Second
    BY <1>2, <1>3, <2>1 DEF PipeRecords
  <2> QED
    BY <1>3, <2>1, <2>2, <2>3, <2>4 DEF PipeRecords
<1>6. TypeOK'
  <2>1. DOMAIN guard' = Guards /\ guard' = [g \in Guards |-> guard'[g]]
    BY DEF Tick
  <2>2. DOMAIN pipe' = Pipes /\ pipe' = [p \in Pipes |-> pipe'[p]]
    BY DEF Tick
  <2> QED
    BY <1>4, <1>5, <2>1, <2>2 DEF Tick, IInv, TypeOK
<1>7. UNCHANGED win
  BY DEF Tick
<1> QED
  BY <1>4, <1>5, <1>6, <1>7, SamePlaces

LEMMA PipeKeeps == ASSUME IInv, NEW p \in Pipes, PipeStep(p) PROVE IInv'
<1>1. pipe[p] \in PipeRecords /\ pipe \in [Pipes -> PipeRecords]
  BY DEF IInv, TypeOK
<1>2. CASE ComeUp(p) \/ Hang(p)
  <2>1. PICK s \in {"up", "hung"} : pipe' = [pipe EXCEPT ![p].state = s]
    BY <1>2 DEF ComeUp, Hang
  <2>2. pipe[p].state \in {"starting", "up"} /\ UNCHANGED <<win, guard>>
    BY <1>2 DEF ComeUp, Hang
  <2>3. pipe' \in [Pipes -> PipeRecords] /\ pipe'[p].state = s
        /\ \A q \in Pipes : q # p => pipe'[q] = pipe[q]
    BY <1>1, <2>1 DEF PipeRecords
  <2>4. TypeOK'
    BY <2>2, <2>3 DEF IInv, TypeOK
  <2> QED
    BY <2>2, <2>3, <2>4, SamePlaces
<1>3. CASE Frame(p)
  <2>1. pipe[p].frames \in Nat /\ pipe[p].frames + 1 \in 0 .. MaxRate
    BY <1>1, <1>3, WatchdogAssumption DEF Frame, PipeRecords
  <2>2. IF Attempts(pipe[p]) THEN 0 \in 0 .. FpsCycle ELSE pipe[p].count + 1 \in 0 .. FpsCycle
    BY <1>1, WatchdogAssumption DEF Attempts, PipeRecords
  <2>3. 0 \in 0 .. Second /\ Attempts(pipe[p]) \in BOOLEAN
    BY WatchdogAssumption DEF Attempts
  <2>4. /\ Refresh(pipe[p]) \in PipeRecords /\ Refresh(pipe[p]).state = pipe[p].state
    BY <1>1, <2>1, <2>2, <2>3 DEF Refresh, PipeRecords
  <2>5. pipe' = [pipe EXCEPT ![p] = Refresh(pipe[p])]
    BY <1>3 DEF Frame
  <2>6. \A g \in Guards : guard'[g] \in GuardRecords /\ guard'[g].pc = guard[g].pc
    BY <1>3 DEF Frame, IInv, TypeOK, GuardRecords
  <2>7. guard' = [g \in Guards |-> guard'[g]]
    BY <1>3 DEF Frame
  <2>8. TypeOK'
    <3>1. guard' \in [Guards -> GuardRecords]
      BY <2>6, <2>7
    <3> QED
      BY <1>1, <1>3, <2>4, <2>5, <3>1 DEF Frame, IInv, TypeOK
  <2> QED
    BY <1>1, <1>3, <2>4, <2>5, <2>6, <2>8, SamePlaces DEF Frame
<1>4. CASE Exit(p)
  <2>1. pipe' = [pipe EXCEPT ![p] = PipeOff] /\ UNCHANGED guard
    BY <1>4 DEF Exit
  <2>2. win' = win \/ (p = "window" /\ win' = [win EXCEPT !["Vision"] = 0])
    BY <1>4 DEF Exit
  <2>3. win \in [Windows -> Nat] /\ 0 \in Nat
    BY DEF IInv, TypeOK
  <2>4. TypeOK'
    BY <1>1, <2>1, <2>2, <2>3, NewRecords, TheGuards DEF IInv, TypeOK
  <2>5. OneActs'
    BY <2>1 DEF IInv, OneActs, Acts
  <2>6. /\ \A n \in Windows : n # "Vision" => win'[n] = win[n]
        /\ win'["Vision"] \in {0, win["Vision"]}
        /\ win'["Vision"] # win["Vision"] => p = "window"
    BY <2>2, <2>3, TheGuards
  <2>7. \A q \in Pipes : pipe'[q].state = "off" \/ pipe'[q].state = pipe[q].state
    BY <1>1, <2>1, NewRecords
  <2>8. p = "window" => pipe'["window"].state = "off"
    BY <1>1, <2>1, NewRecords
  <2>9. WindowsSound'
    BY <2>1, <2>6, <2>7, <2>8, TheGuards DEF IInv, WindowsSound
  <2>10. VisionGone' /\ HomeHasSession'
    BY <2>1, <2>3, <2>6, TheGuards DEF IInv, VisionGone, HomeHasSession
  <2> QED
    BY <2>4, <2>5, <2>9, <2>10 DEF IInv
<1> QED
  BY <1>2, <1>3, <1>4 DEF PipeStep
-----------------------------------------------------------------------------
(* Guards. *)

\* Only one guard acts, so that a guard that can take a step is the one that
\* does, or waits for its end at home.
LEMMA WhoActs ==
    ASSUME IInv, NEW g \in Guards, Acts(g)
    PROVE  \A h \in Guards : h # g => guard[h].pc \in {"off", "quit"}
                                      /\ (h \in WatchDogs => guard[h].pc = "off")
BY TheGuards DEF IInv, OneActs, Acts

\* It goes on being the one that acts.
LEMMA GoesOn ==
    ASSUME IInv, NEW g \in Guards, Acts(g), guard'[g].pc \notin {"off", "quit"},
           \A h \in Guards : h # g => guard'[h].pc = guard[h].pc
    PROVE  OneActs'
<1>1. \A h \in Guards : Acts(h) <=> h = g
  BY DEF IInv, OneActs
<1>2. \A h \in Guards : guard'[h].pc \notin {"off", "quit"} <=> h = g
  BY <1>1 DEF Acts
<1>3. \A d \in WatchDogs : guard'[d].pc # "quit"
  BY TheGuards DEF IInv, OneActs
<1> QED
  BY <1>2, <1>3 DEF OneActs, Acts

\* The steps of a guard that touch no window.
LEMMA QuietKeeps ==
    ASSUME IInv, NEW g \in Guards, Construct(g) \/ HeartbeatCallback(g) \/ CheckHeartbeat(g)
    PROVE  IInv'
<1>1. guard[g] \in GuardRecords /\ guard \in [Guards -> GuardRecords]
  BY DEF IInv, TypeOK
<1>2. 0 \in 0 .. Timeout + 1 /\ CtorTicks \in Nat
  BY WatchdogAssumption
<1>3. UNCHANGED <<win, pipe>>
  BY DEF Construct, HeartbeatCallback, CheckHeartbeat
<1>4. CASE Construct(g)
  <2>1. guard' = [guard EXCEPT ![g].pc = "ctor", ![g].wait = CtorTicks, ![g].since = 0]
        /\ guard[g].pc = "boot"
    BY <1>4 DEF Construct
  <2>2. guard' \in [Guards -> GuardRecords] /\ guard'[g].pc = "ctor"
        /\ \A h \in Guards : h # g => guard'[h] = guard[h]
    BY <1>1, <1>2, <2>1 DEF GuardRecords
  <2>3. TypeOK'
    BY <1>3, <2>2 DEF IInv, TypeOK
  <2>4. OneActs'
    BY <2>1, <2>2, GoesOn DEF Acts
  <2>5. VisionGone'
    BY <1>3, <2>2 DEF IInv, VisionGone
  <2>6. HomeHasSession'
    BY <1>3, <2>1, <2>2, TheGuards DEF IInv, HomeHasSession
  <2>7. WindowsSound'
    BY <1>3, <2>1, <2>2, TheGuards DEF IInv, WindowsSound
  <2> QED
    BY <2>3, <2>4, <2>5, <2>6, <2>7 DEF IInv
<1>5. CASE HeartbeatCallback(g) \/ CheckHeartbeat(g)
  <2>1. PICK new \in GuardRecords : new.pc = guard[g].pc /\ guard' = [guard EXCEPT ![g] = new]
    <3>1. CASE HeartbeatCallback(g)
      <4>1. [guard[g] EXCEPT !.beat = FALSE, !.since = 0] \in GuardRecords
        BY <1>1, <1>2 DEF GuardRecords
      <4>2. guard' = [guard EXCEPT ![g] = [guard[g] EXCEPT !.beat = FALSE, !.since = 0]]
        BY <1>1, <3>1 DEF HeartbeatCallback
      <4> QED
        BY <1>1, <4>1, <4>2 DEF GuardRecords
    <3>2. CASE CheckHeartbeat(g)
      <4>1. [guard[g] EXCEPT !.due = FALSE] \in GuardRecords
        BY <1>1 DEF GuardRecords
      <4>2. guard' = [guard EXCEPT ![g] = [guard[g] EXCEPT !.due = FALSE]]
        BY <1>1, <3>2 DEF CheckHeartbeat
      <4> QED
        BY <1>1, <4>1, <4>2 DEF GuardRecords
    <3> QED
      BY <1>5, <3>1, <3>2
  <2>2. guard' \in [Guards -> GuardRecords] /\ \A h \in Guards : guard'[h].pc = guard[h].pc
    BY <1>1, <2>1
  <2>3. TypeOK'
    BY <1>3, <2>2 DEF IInv, TypeOK
  <2> QED
    BY <1>3, <2>2, <2>3, SamePlaces
<1> QED
  BY <1>4, <1>5

\* The constructor goes on when there is a session, and makes one otherwise.
LEMMA AttachKeeps == ASSUME IInv, NEW g \in Guards, Attach(g) PROVE IInv'
<1>1. guard[g] \in GuardRecords /\ guard \in [Guards -> GuardRecords] /\ win \in [Windows -> Nat]
  BY DEF IInv, TypeOK
<1>2. guard[g].pc = "ctor" /\ UNCHANGED pipe /\ CtorTicks \in Nat
  BY WatchdogAssumption DEF Attach
<1>3. \A h \in Guards : h # g => guard[h].pc \in {"off", "quit"}
                                 /\ (h \in WatchDogs => guard[h].pc = "off")
  BY <1>2, WhoActs DEF Acts
<1>4. CASE Session(win)
  <2>1. guard' = [guard EXCEPT ![g].pc = "watch"] /\ UNCHANGED win
    BY <1>4 DEF Attach
  <2>2. guard' \in [Guards -> GuardRecords] /\ guard'[g].pc = "watch"
        /\ \A h \in Guards : h # g => guard'[h] = guard[h]
    BY <1>1, <2>1 DEF GuardRecords
  <2>3. TypeOK' /\ OneActs' /\ VisionGone'
    <3>1. TypeOK'
      BY <1>2, <2>1, <2>2 DEF IInv, TypeOK
    <3>2. OneActs'
      BY <1>2, <2>2, GoesOn DEF Acts
    <3> QED
      BY <2>1, <2>2, <3>1, <3>2 DEF IInv, VisionGone
  <2>4. WindowsSound'
    BY <1>2, <2>1, <2>2, TheGuards DEF IInv, WindowsSound
  <2>5. HomeHasSession'
    <3>1. CASE g # "home"
      BY <1>3, <2>1, <2>2, <3>1, TheGuards DEF HomeHasSession
    <3>2. CASE g = "home"
      <4>1. win["WatchDog0"] = 0 /\ win["WatchDog1"] = 0
        BY <1>1, <1>3, <3>2, TheGuards DEF IInv, WindowsSound
      <4>2. win["Vision"] > 0 \/ win["Shell"] > 0
        BY <1>4, <4>1, TheGuards DEF Session
      <4> QED
        BY <1>1, <1>2, <2>1, <3>2, <4>2, TheGuards DEF IInv, WindowsSound, HomeHasSession
    <3> QED
      BY <3>1, <3>2
  <2> QED
    BY <2>3, <2>4, <2>5 DEF IInv
<1>5. CASE ~ Session(win)
  <2>1. guard' = [guard EXCEPT ![g].wait = CtorTicks] /\ win' = [win EXCEPT !["Shell"] = 1]
    BY <1>5 DEF Attach
  <2>2. guard' \in [Guards -> GuardRecords] /\ \A h \in Guards : guard'[h].pc = guard[h].pc
    BY <1>1, <1>2, <2>1 DEF GuardRecords
  <2>3. win' \in [Windows -> Nat] /\ win'["Shell"] = 1
        /\ \A n \in Windows : n # "Shell" => win'[n] = win[n]
    BY <1>1, <2>1, TheGuards
  <2>4. TypeOK'
    BY <1>2, <2>2, <2>3 DEF IInv, TypeOK
  <2>7. OneActs'
    BY <1>2, <2>2, GoesOn DEF Acts
  <2>5. WindowsSound'
    BY <1>2, <2>2, <2>3, TheGuards DEF IInv, WindowsSound
  <2>6. VisionGone' /\ HomeHasSession'
    BY <2>2, <2>3, TheGuards DEF IInv, VisionGone, HomeHasSession
  <2> QED
    BY <2>4, <2>5, <2>6, <2>7 DEF IInv
<1> QED
  BY <1>4, <1>5

\* A name that is unique is killed, and the pipeline goes with its window.
LEMMA KillVisionKeeps == ASSUME IInv, NEW g \in Guards, KillVision(g) PROVE IInv'
<1>1. guard[g] \in GuardRecords /\ guard \in [Guards -> GuardRecords] /\ win \in [Windows -> Nat]
      /\ pipe \in [Pipes -> PipeRecords]
  BY DEF IInv, TypeOK
<1>2. guard[g].pc = "watch"
  BY DEF KillVision
<1>3. \A h \in Guards : h # g => guard[h].pc \in {"off", "quit"}
  BY <1>2, WhoActs DEF Acts
<1>4. win' \in [Windows -> Nat] /\ win'["Vision"] = 0
      /\ \A n \in Windows : n # "Vision" => win'[n] = win[n]
  <2>1. win["Vision"] \in {0, 1}
    BY <1>1, TheGuards DEF IInv, WindowsSound
  <2> QED
    BY <1>1, <2>1, TheGuards DEF KillVision, Killed
<1>5. pipe' \in [Pipes -> PipeRecords] /\ pipe'["window"].state = "off"
  <2>1. win["Vision"] \in {0, 1}
    BY <1>1, TheGuards DEF IInv, WindowsSound
  <2>2. CASE win["Vision"] = 1
    BY <1>1, <2>2, NewRecords, TheGuards DEF KillVision
  <2>3. CASE win["Vision"] = 0
    BY <1>1, <2>3, TheGuards DEF KillVision, IInv, WindowsSound
  <2> QED
    BY <2>1, <2>2, <2>3
<1>6. guard' \in [Guards -> GuardRecords] /\ guard'[g].pc = "spawn"
      /\ \A h \in Guards : h # g => guard'[h] = guard[h]
  BY <1>1 DEF KillVision, GuardRecords
<1>7. TypeOK'
  BY <1>4, <1>5, <1>6 DEF TypeOK
<1>8. OneActs' /\ VisionGone'
  <2>1. OneActs'
    BY <1>2, <1>6, GoesOn DEF Acts
  <2> QED
    BY <1>4, <2>1 DEF VisionGone
<1>9. WindowsSound'
  BY <1>2, <1>4, <1>5, <1>6, TheGuards DEF IInv, WindowsSound
<1>10. HomeHasSession'
  BY <1>2, <1>4, <1>6, TheGuards DEF IInv, HomeHasSession
<1> QED
  BY <1>7, <1>8, <1>9, <1>10 DEF IInv

\* The new window Vision is the only one of its name.
LEMMA SpawnVisionKeeps == ASSUME IInv, NEW g \in Guards, SpawnVision(g) PROVE IInv'
<1>1. guard[g] \in GuardRecords /\ guard \in [Guards -> GuardRecords] /\ win \in [Windows -> Nat]
      /\ pipe \in [Pipes -> PipeRecords]
  BY DEF IInv, TypeOK
<1>2. guard[g].pc = "spawn" /\ win["Vision"] = 0
  BY DEF SpawnVision, IInv, VisionGone
<1>3. PICK n \in StartTicks :
        pipe' = IF Session(win) THEN [pipe EXCEPT !["window"] = PipeStarting(n)] ELSE pipe
  BY DEF SpawnVision
<1>4. /\ win' \in [Windows -> Nat] /\ pipe' \in [Pipes -> PipeRecords]
      /\ \A m \in Windows : m # "Vision" => win'[m] = win[m]
      /\ win'["Vision"] \in {0, 1} /\ (win'["Vision"] = 0 => pipe'["window"].state = "off")
  <2>1. CASE Session(win)
    <3>1. win' = [win EXCEPT !["Vision"] = 0 + 1]
      BY <1>2, <2>1 DEF SpawnVision, Opened
    <3>2. pipe' \in [Pipes -> PipeRecords]
      BY <1>1, <1>3, <2>1, NewRecords
    <3> QED
      BY <1>1, <3>1, <3>2, TheGuards
  <2>2. CASE ~ Session(win)
    BY <1>1, <1>2, <1>3, <2>2, TheGuards DEF SpawnVision, Opened, IInv, WindowsSound
  <2> QED
    BY <2>1, <2>2
<1>5. guard' \in [Guards -> GuardRecords] /\ guard'[g].pc = "self"
      /\ \A h \in Guards : h # g => guard'[h] = guard[h]
  BY <1>1 DEF SpawnVision, GuardRecords
<1>6. \A h \in Guards : h # g => guard[h].pc \in {"off", "quit"}
  BY <1>2, WhoActs DEF Acts
<1>7. TypeOK'
  BY <1>4, <1>5 DEF TypeOK
<1>8. OneActs' /\ VisionGone'
  <2>1. OneActs'
    BY <1>2, <1>5, GoesOn DEF Acts
  <2> QED
    BY <1>5, <1>6, <2>1 DEF VisionGone
<1>9. WindowsSound'
  BY <1>2, <1>4, <1>5, TheGuards DEF IInv, WindowsSound
<1>10. HomeHasSession'
  BY <1>2, <1>4, <1>5, <1>6, TheGuards DEF IInv, HomeHasSession
<1> QED
  BY <1>7, <1>8, <1>9, <1>10 DEF IInv

\* The handover.  A guard at home finds no watchdog, so that WatchDog1 succeeds it;
\* a watchdog is succeeded by the other one and goes with its window.
LEMMA RestartSelfKeeps == ASSUME IInv, NEW g \in Guards, RestartSelf(g) PROVE IInv'
<1>1. guard[g] \in GuardRecords /\ guard \in [Guards -> GuardRecords] /\ win \in [Windows -> Nat]
  BY DEF IInv, TypeOK
<1>2. guard[g].pc = "self" /\ UNCHANGED pipe
  BY DEF RestartSelf
<1>3. \A h \in Guards : h # g => guard[h].pc \in {"off", "quit"}
                                 /\ (h \in WatchDogs => guard[h].pc = "off")
  BY <1>2, WhoActs DEF Acts
<1>4. \A n \in Windows : win[n] \in {0, 1}
  BY <1>1 DEF IInv, WindowsSound
<1>5. \A d \in WatchDogs : win[d] = IF d = g THEN 1 ELSE 0
  BY <1>2, <1>3, <1>4, TheGuards DEF IInv, WindowsSound
<1> DEFINE new == Successor(win)
           old == {d \in Predecessors(win) : win[d] = 1}
<1>6. Session(win)
  <2>1. CASE g = "home"
    BY <1>2, <2>1, TheGuards DEF IInv, HomeHasSession, Session
  <2>2. CASE g \in WatchDogs
    BY <1>5, <2>2, TheGuards DEF Session
  <2> QED
    BY <2>1, <2>2, TheGuards
<1>7. new \in WatchDogs /\ new # g /\ old = {g} \cap WatchDogs /\ win[new] = 0
  <2>1. CASE g = "home"
    BY <1>5, <2>1, TheGuards DEF Successor, Predecessors
  <2>2. CASE g = "WatchDog0"
    BY <1>5, <2>2, TheGuards DEF Successor, Predecessors
  <2>3. CASE g = "WatchDog1"
    BY <1>5, <2>3, TheGuards DEF Successor, Predecessors
  <2> QED
    BY <2>1, <2>2, <2>3, TheGuards
<1>8. win' = [n \in Windows |-> IF n \in old THEN 0 ELSE Opened(win, new)[n]]
  BY DEF RestartSelf
<1>9. guard' = [d \in Guards |->
                CASE d \in old -> GuardOff
                  [] d = new /\ Session(win) -> GuardBooting
                  [] d = g /\ d \notin old \cup {new} -> [guard[g] EXCEPT !.pc = "quit", !.wait = 1]
                  [] OTHER -> guard[d]]
  BY DEF RestartSelf
<1> HIDE DEF new, old
<1>10. \A n \in Windows : win'[n] = IF n = g THEN 0 ELSE IF n = new THEN 1 ELSE win[n]
  <2>1. Opened(win, new) = [win EXCEPT ![new] = 0 + 1]
    BY <1>6, <1>7 DEF Opened
  <2>2. \A n \in Windows : n = g => n \in WatchDogs
    BY TheGuards
  <2> QED
    BY <1>1, <1>7, <1>8, <2>1, <2>2
<1>11. /\ guard'[new] = GuardBooting
       /\ IF g \in WatchDogs THEN guard'[g] = GuardOff
          ELSE guard'[g] = [guard[g] EXCEPT !.pc = "quit", !.wait = 1]
       /\ \A h \in Guards : h # g /\ h # new => guard'[h] = guard[h]
  <2>1. g \in Guards /\ new \in Guards /\ WatchDogs \subseteq Guards
    BY <1>7, TheGuards
  <2>2. guard'[new] = GuardBooting
    BY <1>6, <1>7, <1>9, <2>1
  <2>3. g \in WatchDogs => guard'[g] = GuardOff
    BY <1>7, <1>9, <2>1
  <2>4. g \notin WatchDogs => guard'[g] = [guard[g] EXCEPT !.pc = "quit", !.wait = 1]
    BY <1>7, <1>9, <2>1
  <2>5. \A h \in Guards : h # g /\ h # new => guard'[h] = guard[h]
    BY <1>7, <1>9
  <2> QED
    BY <2>2, <2>3, <2>4, <2>5
<1>12. \A h \in Guards : guard'[h] \in GuardRecords
  <2>1. [guard[g] EXCEPT !.pc = "quit", !.wait = 1] \in GuardRecords
    BY <1>1 DEF GuardRecords
  <2> QED
    BY <1>1, <1>11, <2>1, NewRecords
<1>13. TypeOK'
  <2>1. guard' \in [Guards -> GuardRecords]
    BY <1>9, <1>12
  <2>2. win' \in [Windows -> Nat]
    BY <1>1, <1>8, <1>10
  <2> QED
    BY <1>2, <2>1, <2>2 DEF IInv, TypeOK
<1>14. guard'[new].pc = "boot" /\ guard'[g].pc = IF g \in WatchDogs THEN "off" ELSE "quit"
  BY <1>1, <1>11, NewRecords DEF GuardRecords
<1>15. OneActs' /\ VisionGone' /\ HomeHasSession'
  <2>1. \A h \in Guards : guard'[h].pc \notin {"off", "quit"} <=> h = new
    BY <1>3, <1>7, <1>11, <1>14
  <2>2. OneActs'
    BY <1>3, <1>7, <1>11, <1>14, <2>1, TheGuards DEF OneActs, Acts
  <2> QED
    BY <1>7, <1>14, <2>1, <2>2, TheGuards DEF VisionGone, HomeHasSession
<1>16. WindowsSound'
  <2>1. \A d \in WatchDogs : win'[d] = 1 <=> guard'[d].pc # "off"
    BY <1>3, <1>5, <1>7, <1>10, <1>11, <1>14, TheGuards
  <2> QED
    BY <1>2, <1>4, <1>7, <1>10, <2>1, TheGuards DEF IInv, WindowsSound
<1> QED
  BY <1>13, <1>15, <1>16 DEF IInv

\* Only a guard at home gets as far as its own end.
LEMMA QuitKeeps == ASSUME IInv, NEW g \in Guards, Quit(g) PROVE IInv'
<1>1. g = "home" /\ guard[g].pc = "quit"
  BY TheGuards DEF Quit, IInv, OneActs
<1>2. guard' = [guard EXCEPT ![g] = GuardOff] /\ UNCHANGED <<win, pipe>>
  BY <1>1, TheGuards DEF Quit
<1>3. guard \in [Guards -> GuardRecords]
  BY DEF IInv, TypeOK
<1>4. guard' \in [Guards -> GuardRecords] /\ guard'[g].pc = "off"
      /\ \A h \in Guards : h # g => guard'[h] = guard[h]
  BY <1>2, <1>3, NewRecords
<1>5. TypeOK' /\ OneActs' /\ VisionGone' /\ HomeHasSession'
  BY <1>1, <1>2, <1>4 DEF IInv, TypeOK, OneActs, Acts, VisionGone, HomeHasSession
<1>6. WindowsSound'
  BY <1>1, <1>2, <1>4, TheGuards DEF IInv, WindowsSound
<1> QED
  BY <1>5, <1>6 DEF IInv
-----------------------------------------------------------------------------
LEMMA NextKeeps == IInv /\ [Next]_vars => IInv'
<1>1. CASE UNCHANGED vars
  BY <1>1, SamePlaces DEF vars, IInv, TypeOK
<1>2. ASSUME IInv, NEW g \in Guards, GuardStep(g) PROVE IInv'
  BY <1>2, QuietKeeps, AttachKeeps, KillVisionKeeps, SpawnVisionKeeps, RestartSelfKeeps,
     QuitKeeps DEF GuardStep
<1> QED
  BY <1>1, <1>2, TickKeeps, PipeKeeps DEF Next

\* The inductive invariant holds throughout.
THEOREM Invariance == Spec => []IInv
<1>1. IInv /\ [Next]_vars => IInv'
  BY NextKeeps
<1> QED
  BY <1>1, InitInvariant, PTL DEF Spec

\* The records keep their types.
THEOREM TypeCorrect == Spec => []TypeOK
<1>1. IInv => TypeOK
  BY DEF IInv
<1> QED
  BY <1>1, Invariance, PTL

\* Through any number of restarts and whatever the pipelines do there is exactly
\* one guard that acts, although a guard may kill the window it runs in, and
\* overlaps with its successor when it does not (guard_dog.cpp:93-118).
THEOREM OneGuardSuffices == Spec => []OneGuardActs
<1>1. IInv => OneGuardActs
  <2> SUFFICES ASSUME IInv PROVE OneGuardActs
    OBVIOUS
  <2>1. PICK a \in Guards : \A g \in Guards : Acts(g) <=> g = a
    BY DEF IInv, OneActs
  <2>2. {g \in Guards : guard[g].pc \notin {"off", "quit"}} = {a}
    BY <2>1 DEF Acts
  <2> QED
    BY <2>2, FS_Singleton DEF OneGuardActs
<1> QED
  BY <1>1, Invariance, PTL

\* The names kill-window depends on stay unique, the windows of watchdogs are
\* those of living guards, and no pipeline outlives its window
\* (guard_dog.cpp:82-115).
THEOREM WindowsAreSound == Spec => []WindowsSound
<1>1. IInv => WindowsSound
  BY DEF IInv
<1> QED
  BY <1>1, Invariance, PTL
-----------------------------------------------------------------------------
(* Who is alive is left alone, if pipelines beat in time.                  *)

\* What is left of a division is less than the divisor.
LEMMA Ratio ==
    ASSUME NEW a \in Nat, NEW d \in Nat, d > 0, NEW q, q = a \div d
    PROVE  q \in Nat /\ a <= d * q + (d - 1)
<1>1. q \in Int /\ q >= 0
  OBVIOUS
<1>2. a <= d * q + (d - 1)
  OBVIOUS
<1> QED
  BY <1>1, <1>2

LEMMA RateFacts ==
    ASSUME BeatsInTime
    PROVE  /\ MinRate \in Nat /\ MinRate > 0 /\ Second \in Nat /\ Second > 0
           /\ FpsCycle \in Nat /\ MaxRate \in Nat /\ Timeout \in Nat
           /\ BootTicks \in Nat /\ CtorTicks \in Nat
           /\ AttemptTicks \in Nat /\ AttemptTicks >= 1
           /\ FpsCycle + 1 <= AttemptTicks * MinRate
           /\ BeatTicks = Second + AttemptTicks - 1 /\ BeatTicks \in Nat
           /\ 2 * CtorTicks + BeatTicks <= Timeout
           /\ \A n \in StartTicks : n \in Nat
                                    /\ n + AttemptTicks - 1 + BeatTicks <= BootTicks + Timeout
<1>1. /\ MinRate \in Nat /\ MinRate > 0 /\ Second \in Nat /\ Second > 0
      /\ FpsCycle \in Nat /\ MaxRate \in Nat /\ Timeout \in Nat
      /\ BootTicks \in Nat /\ CtorTicks \in Nat
  BY WatchdogAssumption DEF BeatsInTime
<1>2. AttemptTicks \in Nat
  BY <1>1, Ratio DEF AttemptTicks
<1>3. FpsCycle + MinRate <= MinRate * AttemptTicks + (MinRate - 1)
  BY <1>1, Ratio DEF AttemptTicks
<1>4. MinRate * AttemptTicks = AttemptTicks * MinRate
  BY <1>1, <1>2
<1>5. FpsCycle + 1 <= AttemptTicks * MinRate
  BY <1>1, <1>2, <1>3, <1>4
<1>6. AttemptTicks >= 1
  <2>1. CASE AttemptTicks = 0
    BY <1>1, <1>5, <2>1
  <2> QED
    BY <1>2, <2>1
<1>7. BeatTicks = Second + AttemptTicks - 1 /\ BeatTicks \in Nat
  BY <1>1, <1>2, <1>6 DEF BeatTicks
<1> QED
  BY <1>1, <1>2, <1>5, <1>6, <1>7, WatchdogAssumption DEF BeatsInTime

\* m more ticks, and one more callback.
LEMMA OneMoreTick ==
    ASSUME NEW m \in Int, NEW r \in Nat
    PROVE  (m + 1) * r = m * r + r
OBVIOUS

\* The next attempt of a pipeline is at most m ticks away: the callbacks it lacks,
\* and those it had in this tick, fit into m + 1 ticks.
Least(a, b) == IF a <= b THEN a ELSE b
Soon(h, m) == (FpsCycle + 1 - h.count) + Least(h.frames, MinRate) <= (m + 1) * MinRate

\* The next beat of a pipeline is at most k ticks away.
DueIn(h, k) ==
    \/ /\ h.state = "starting"
       /\ h.wait + AttemptTicks - 1 + BeatTicks <= k
    \/ /\ h.state = "up" /\ ~ h.begun
       /\ \E m \in Nat : Soon(h, m) /\ m + BeatTicks <= k
    \/ /\ h.state = "up" /\ h.begun /\ h.since < Second
       /\ BeatTicks - h.since <= k
    \/ /\ h.state = "up" /\ h.begun /\ h.since = Second
       /\ \E m \in Nat : Soon(h, m) /\ m <= k

Live(h) == h.state \in {"starting", "up"}

\* A pipeline that is coming up has done nothing, and its clock stands still
\* until its first attempt to beat.
Fresh(h) ==
    /\ h.state = "starting" => h.count = 0 /\ h.frames = 0 /\ ~ h.begun
    /\ ~ h.begun => h.since = 0

\* The fields of a pipeline.
LEMMA PipeFields ==
    ASSUME BeatsInTime, NEW h \in PipeRecords
    PROVE  /\ h.wait \in Nat /\ h.count \in 0 .. FpsCycle /\ h.frames \in Nat
           /\ h.since \in 0 .. Second /\ h.begun \in BOOLEAN
           /\ h.since \in Nat /\ h.count \in Nat
BY RateFacts DEF PipeRecords

LEMMA DueLater ==
    ASSUME BeatsInTime, NEW h \in PipeRecords, NEW k \in Int, NEW l \in Int, k <= l, DueIn(h, k)
    PROVE  DueIn(h, l) /\ k >= 0
<1>1. BeatTicks \in Nat /\ AttemptTicks \in Nat /\ AttemptTicks >= 1 /\ Second \in Nat
      /\ BeatTicks = Second + AttemptTicks - 1
  BY RateFacts
<1>2. h.wait \in Nat /\ h.since \in Nat
  BY PipeFields
<1>3. CASE h.state = "starting"
  BY <1>1, <1>2, <1>3 DEF DueIn
<1>4. CASE h.state = "up" /\ ~ h.begun
  <2>1. PICK m \in Nat : Soon(h, m) /\ m + BeatTicks <= k
    BY <1>4 DEF DueIn
  <2>2. m + BeatTicks <= l /\ k >= 0
    BY <1>1, <2>1
  <2> QED
    BY <1>4, <2>1, <2>2 DEF DueIn
<1>5. CASE h.state = "up" /\ h.begun /\ h.since < Second
  BY <1>1, <1>2, <1>5 DEF DueIn
<1>6. CASE h.state = "up" /\ h.begun /\ h.since = Second
  <2>1. PICK m \in Nat : Soon(h, m) /\ m <= k
    BY <1>1, <1>6 DEF DueIn
  <2>2. m <= l /\ k >= 0
    BY <2>1
  <2> QED
    BY <1>6, <2>1, <2>2 DEF DueIn
<1> QED
  BY <1>3, <1>4, <1>5, <1>6 DEF DueIn

\* When a tick has been full of callbacks, the attempt is one tick nearer.
LEMMA TickIsNearer ==
    ASSUME BeatsInTime, NEW h \in PipeRecords, h.frames >= MinRate,
           NEW m \in Nat, Soon(h, m), NEW n \in PipeRecords, n.count = h.count, n.frames = 0
    PROVE  m >= 1 /\ m - 1 \in Nat /\ Soon(n, m - 1)
<1>1. MinRate \in Nat /\ MinRate > 0 /\ FpsCycle \in Nat
  BY RateFacts
<1>2. h.count \in 0 .. FpsCycle /\ h.frames \in Nat
  BY PipeFields
<1>3. /\ Least(h.frames, MinRate) = MinRate /\ Least(n.frames, MinRate) = 0
  BY <1>1, <1>2 DEF Least
<1>4. (m + 1) * MinRate = m * MinRate + MinRate /\ m * MinRate \in Int
  BY <1>1, OneMoreTick
<1>5. FpsCycle + 1 - h.count >= 1 /\ FpsCycle + 1 - h.count <= m * MinRate
  BY <1>1, <1>2, <1>3, <1>4 DEF Soon
<1>6. m # 0
  <2>1. 0 * MinRate = 0
    BY <1>1
  <2> QED
    BY <1>1, <1>2, <1>5, <2>1
<1>7. m - 1 + 1 = m /\ m - 1 \in Nat /\ m >= 1
  BY <1>6
<1> QED
  BY <1>1, <1>2, <1>3, <1>5, <1>7 DEF Soon

\* Whatever was counted, a tick that begins is followed by an attempt in time.
LEMMA SoonAtFirst ==
    ASSUME BeatsInTime, NEW n \in PipeRecords, n.frames = 0
    PROVE  Soon(n, AttemptTicks - 1) /\ AttemptTicks - 1 \in Nat
<1>1. /\ MinRate \in Nat /\ MinRate > 0 /\ FpsCycle \in Nat /\ AttemptTicks \in Nat
      /\ AttemptTicks >= 1 /\ FpsCycle + 1 <= AttemptTicks * MinRate
  BY RateFacts
<1>2. n.count \in 0 .. FpsCycle
  BY PipeFields
<1>3. Least(n.frames, MinRate) = 0
  BY <1>1 DEF Least
<1>4. AttemptTicks - 1 + 1 = AttemptTicks /\ AttemptTicks * MinRate \in Int
  BY <1>1
<1> QED
  BY <1>1, <1>2, <1>3, <1>4 DEF Soon

\* The end of a tick.
Ticked(h) == [h EXCEPT !.wait = Less(@), !.frames = 0,
                       !.since = IF h.begun THEN More(@, Second) ELSE 0]

LEMMA TickIsDue ==
    ASSUME BeatsInTime, NEW h \in PipeRecords, Fresh(h), NEW k \in Int, DueIn(h, k),
           h.state = "starting" => h.wait > 0, h.state = "up" => h.frames >= MinRate,
           Ticked(h) \in PipeRecords
    PROVE  k >= 1 /\ DueIn(Ticked(h), k - 1)
<1> DEFINE n == Ticked(h)
<1>1. /\ n.state = h.state /\ n.wait = Less(h.wait) /\ n.frames = 0 /\ n.count = h.count
      /\ n.begun = h.begun /\ n.since = IF h.begun THEN More(h.since, Second) ELSE 0
  BY DEF Ticked, PipeRecords
<1>2. /\ BeatTicks \in Nat /\ AttemptTicks \in Nat /\ AttemptTicks >= 1 /\ Second \in Nat
      /\ Second > 0 /\ BeatTicks = Second + AttemptTicks - 1
  BY RateFacts
<1>3. h.wait \in Nat /\ h.since \in 0 .. Second /\ h.begun \in BOOLEAN
  BY PipeFields
<1> HIDE DEF n
<1>4. CASE h.state = "starting"
  <2>1. h.wait + AttemptTicks - 1 + BeatTicks <= k /\ n.wait = h.wait - 1
    BY <1>1, <1>3, <1>4 DEF DueIn, Less
  <2>2. k >= 1 /\ n.wait + AttemptTicks - 1 + BeatTicks <= k - 1
    BY <1>2, <1>3, <1>4, <2>1
  <2> QED
    BY <1>1, <1>4, <2>2 DEF DueIn, n
<1>5. CASE h.state = "up" /\ ~ h.begun
  <2>1. PICK m \in Nat : Soon(h, m) /\ m + BeatTicks <= k
    BY <1>5 DEF DueIn
  <2>2. m >= 1 /\ m - 1 \in Nat /\ Soon(n, m - 1)
    BY <1>1, <1>5, <2>1, TickIsNearer DEF n
  <2>3. k >= 1 /\ (m - 1) + BeatTicks <= k - 1
    BY <1>2, <2>1, <2>2
  <2> QED
    BY <1>1, <1>5, <2>2, <2>3 DEF DueIn, n
<1>6. CASE h.state = "up" /\ h.begun /\ h.since < Second
  <2>1. BeatTicks - h.since <= k /\ n.since = h.since + 1
    BY <1>1, <1>2, <1>3, <1>6 DEF DueIn, More
  <2>2. CASE h.since + 1 < Second
    <3>1. k >= 1 /\ BeatTicks - n.since <= k - 1
      BY <1>2, <1>3, <2>1, <2>2
    <3> QED
      BY <1>1, <1>6, <2>1, <2>2, <3>1 DEF DueIn, n
  <2>3. CASE h.since + 1 = Second
    <3>1. Soon(n, AttemptTicks - 1) /\ AttemptTicks - 1 \in Nat
      BY <1>1, SoonAtFirst DEF n
    <3>2. k >= 1 /\ AttemptTicks - 1 <= k - 1
      BY <1>2, <1>3, <2>1, <2>3
    <3> QED
      BY <1>1, <1>6, <2>1, <2>3, <3>1, <3>2 DEF DueIn, n
  <2> QED
    BY <1>2, <1>3, <1>6, <2>2, <2>3
<1>7. CASE h.state = "up" /\ h.begun /\ h.since = Second
  <2>1. PICK m \in Nat : Soon(h, m) /\ m <= k
    BY <1>2, <1>7 DEF DueIn
  <2>2. m >= 1 /\ m - 1 \in Nat /\ Soon(n, m - 1)
    BY <1>1, <1>7, <2>1, TickIsNearer DEF n
  <2>3. k >= 1 /\ m - 1 <= k - 1 /\ n.since = Second
    BY <1>1, <1>2, <1>7, <2>1, <2>2 DEF More
  <2> QED
    BY <1>1, <1>7, <2>2, <2>3 DEF DueIn, n
<1> QED
  BY <1>4, <1>5, <1>6, <1>7 DEF DueIn

\* A callback: after a beat the next one is a second and an attempt away, and no
\* other callback puts it off.
LEMMA FrameIsDue ==
    ASSUME BeatsInTime, NEW h \in PipeRecords, Fresh(h), NEW k \in Int, DueIn(h, k),
           h.state = "up", Refresh(h) \in PipeRecords
    PROVE  /\ Refresh(h).state = "up" /\ Fresh(Refresh(h))
           /\ Beats(h) => DueIn(Refresh(h), BeatTicks)
           /\ ~ Beats(h) => DueIn(Refresh(h), k)
<1> DEFINE n == Refresh(h)
<1>1. /\ n.state = "up" /\ n.frames = h.frames + 1
      /\ n.count = IF Attempts(h) THEN 0 ELSE h.count + 1
      /\ n.begun = (h.begun \/ Attempts(h))
      /\ n.since = IF Beats(h) THEN 0 ELSE h.since
  BY DEF Refresh, PipeRecords
<1>2. /\ BeatTicks \in Nat /\ AttemptTicks \in Nat /\ AttemptTicks >= 1 /\ Second \in Nat
      /\ Second > 0 /\ MinRate \in Nat /\ FpsCycle \in Nat
      /\ BeatTicks = Second + AttemptTicks - 1
  BY RateFacts
<1>3. /\ h.since \in 0 .. Second /\ h.begun \in BOOLEAN
      /\ h.count \in 0 .. FpsCycle /\ h.frames \in Nat
  BY PipeFields
<1>4. Beats(h) <=> Attempts(h) /\ h.begun /\ h.since = Second
  BY <1>2, <1>3 DEF Beats
<1> HIDE DEF n
<1>5. Fresh(n)
  BY <1>1, <1>3, <1>4 DEF Fresh
<1>6. ASSUME NEW m \in Nat, Soon(h, m), ~ Attempts(h) PROVE Soon(n, m)
  <2>1. Least(n.frames, MinRate) <= Least(h.frames, MinRate) + 1
        /\ Least(n.frames, MinRate) \in Int /\ Least(h.frames, MinRate) \in Int
    BY <1>1, <1>2, <1>3 DEF Least
  <2>2. n.count = h.count + 1 /\ (m + 1) * MinRate \in Int
    BY <1>1, <1>2, <1>6
  <2> QED
    BY <1>2, <1>3, <1>6, <2>1, <2>2 DEF Soon
<1>7. CASE Beats(h)
  <2>1. n.begun /\ n.since = 0
    <3>1. n.begun
      BY <1>1, <1>4, <1>7, Zenon
    <3> QED
      BY <1>1, <1>7, <3>1
  <2>2. n.since < Second /\ BeatTicks - n.since <= BeatTicks
    BY <1>2, <2>1
  <2> QED
    BY <1>1, <1>5, <1>7, <2>1, <2>2 DEF DueIn, n
<1>8. CASE ~ Beats(h) /\ ~ h.begun
  <2>1. PICK m \in Nat : Soon(h, m) /\ m + BeatTicks <= k
    BY <1>8 DEF DueIn
  <2>2. n.since = 0 /\ h.since = 0
    BY <1>1, <1>8 DEF Fresh
  <2>3. CASE Attempts(h)
    <3>1. n.begun
      BY <1>1, <2>3, Zenon
    <3>2. n.since < Second /\ BeatTicks - n.since <= k
      BY <1>2, <2>1, <2>2
    <3> QED
      BY <1>1, <1>5, <1>8, <3>1, <3>2 DEF DueIn, n
  <2>4. CASE ~ Attempts(h)
    <3>1. ~ n.begun /\ Soon(n, m)
      BY <1>1, <1>6, <1>8, <2>1, <2>4
    <3> QED
      BY <1>1, <1>5, <1>8, <2>1, <3>1 DEF DueIn, n
  <2> QED
    BY <2>3, <2>4
<1>9. CASE ~ Beats(h) /\ h.begun /\ h.since < Second
  <2>1. n.begun /\ n.since = h.since
    <3>1. n.begun
      BY <1>1, <1>9, Zenon
    <3> QED
      BY <1>1, <1>9, <3>1
  <2>2. BeatTicks - h.since <= k
    BY <1>2, <1>3, <1>9 DEF DueIn
  <2> QED
    BY <1>1, <1>5, <1>9, <2>1, <2>2 DEF DueIn, n
<1>10. CASE ~ Beats(h) /\ h.begun /\ h.since = Second
  <2>1. PICK m \in Nat : Soon(h, m) /\ m <= k
    BY <1>2, <1>10 DEF DueIn
  <2>2. n.begun /\ n.since = Second /\ Soon(n, m)
    BY <1>1, <1>4, <1>6, <1>10, <2>1
  <2> QED
    BY <1>1, <1>5, <1>10, <2>1, <2>2 DEF DueIn, n
<1> QED
  BY <1>2, <1>3, <1>7, <1>8, <1>9, <1>10

\* A pipeline has come up.
LEMMA UpIsDue ==
    ASSUME BeatsInTime, NEW h \in PipeRecords, Fresh(h), NEW k \in Int, DueIn(h, k),
           h.state = "starting"
    PROVE  DueIn([h EXCEPT !.state = "up"], k) /\ Fresh([h EXCEPT !.state = "up"])
<1> DEFINE n == [h EXCEPT !.state = "up"]
<1>1. /\ n \in PipeRecords /\ n.state = "up" /\ n.frames = 0 /\ ~ n.begun /\ n.since = 0
      /\ n.count = 0
  BY DEF Fresh, PipeRecords
<1> HIDE DEF n
<1>2. Soon(n, AttemptTicks - 1) /\ AttemptTicks - 1 \in Nat
  BY <1>1, SoonAtFirst
<1>3. BeatTicks \in Nat /\ AttemptTicks \in Nat /\ h.wait \in Nat
  BY RateFacts, PipeFields
<1>4. (AttemptTicks - 1) + BeatTicks <= k
  BY <1>3 DEF DueIn
<1>5. DueIn(n, k)
  BY <1>1, <1>2, <1>4 DEF DueIn
<1>6. Fresh(n)
  BY <1>1 DEF Fresh
<1> QED
  BY <1>5, <1>6 DEF n

\* Every live pipeline beats within k ticks.
AllDue(pp, k) == \A p \in Pipes : Live(pp[p]) => DueIn(pp[p], k)

\* The second sleep of the constructor, which follows when the session is gone;
\* a window Shell, once there, stays.
Slack == IF win["Shell"] = 1 THEN 0 ELSE CtorTicks

\* A guard with the record q has patience until the next beat.
Timed(q, pp, slack) ==
    /\ q.pc = "boot" => AllDue(pp, Timeout + q.wait)
    /\ q.pc = "ctor" => /\ q.since + q.wait + slack + BeatTicks <= Timeout
                        /\ AllDue(pp, Timeout - q.since)
    /\ q.pc = "watch" => /\ AllDue(pp, IF q.beat THEN Timeout ELSE Timeout - q.since)
                         /\ (\E p \in Pipes : Live(pp[p])) => q.since <= Timeout
    /\ q.pc = "spawn" => \A p \in Pipes : ~ Live(pp[p])
    /\ q.pc = "self" => AllDue(pp, Timeout + BootTicks + q.wait)

\* The invariant that, with IInv, is inductive if pipelines beat in time.
TInv ==
    /\ \A p \in Pipes : Fresh(pipe[p])
    /\ \A g \in Guards : Timed(guard[g], pipe, Slack)

LEMMA AllDueLater ==
    ASSUME BeatsInTime, NEW pp \in [Pipes -> PipeRecords], NEW k \in Int, NEW l \in Int,
           k <= l, AllDue(pp, k)
    PROVE  AllDue(pp, l)
BY DueLater DEF AllDue

\* The fields of a guard, and the durations.
LEMMA GuardFields ==
    ASSUME BeatsInTime, NEW q \in GuardRecords
    PROVE  /\ q.wait \in Nat /\ q.since \in 0 .. Timeout + 1 /\ q.since \in Nat
           /\ q.beat \in BOOLEAN /\ q.due \in BOOLEAN
           /\ Timeout - q.since \in Int /\ Timeout + q.wait \in Int
           /\ Timeout + BootTicks + q.wait \in Int /\ Timeout \in Int
           /\ Timeout - q.since <= Timeout
           /\ (IF q.beat THEN Timeout ELSE Timeout - q.since) \in Int
BY RateFacts DEF GuardRecords

LEMMA SlackFacts ==
    ASSUME BeatsInTime
    PROVE  Slack \in Nat /\ Slack <= CtorTicks /\ CtorTicks \in Nat /\ BeatTicks \in Nat
BY RateFacts DEF Slack

\* A guard that is off, or waits for its end, is as patient as can be.
LEMMA IdleTimed ==
    ASSUME NEW q, q.pc \in {"off", "quit"}, NEW pp, NEW s
    PROVE  Timed(q, pp, s)
BY DEF Timed

\* Patience is kept when no pipeline has come to life, none beats later and no
\* more sleep follows.
LEMMA StaysTimed ==
    ASSUME BeatsInTime, NEW q \in GuardRecords, NEW pp, NEW rr, NEW s \in Nat, NEW t \in Nat,
           t <= s, Timed(q, pp, s),
           \A p \in Pipes : /\ Live(rr[p]) => Live(pp[p])
                            /\ \A k \in Int : Live(rr[p]) /\ DueIn(pp[p], k) => DueIn(rr[p], k)
    PROVE  Timed(q, rr, t)
<1>1. \A k \in Int : AllDue(pp, k) => AllDue(rr, k)
  BY DEF AllDue
<1>2. q.pc = "boot" => AllDue(rr, Timeout + q.wait)
  BY <1>1, GuardFields DEF Timed
<1>3. q.pc = "ctor" => AllDue(rr, Timeout - q.since)
  BY <1>1, GuardFields DEF Timed
<1>4. q.pc = "ctor" => q.since + q.wait + t + BeatTicks <= Timeout
  BY GuardFields, RateFacts DEF Timed
<1>5. q.pc = "watch" => AllDue(rr, IF q.beat THEN Timeout ELSE Timeout - q.since)
  BY <1>1, GuardFields DEF Timed
<1>6. q.pc = "watch" => ((\E p \in Pipes : Live(rr[p])) => q.since <= Timeout)
  BY DEF Timed
<1>7. q.pc = "spawn" => \A p \in Pipes : ~ Live(rr[p])
  BY DEF Timed
<1>8. q.pc = "self" => AllDue(rr, Timeout + BootTicks + q.wait)
  BY <1>1, GuardFields DEF Timed
<1> QED
  BY <1>2, <1>3, <1>4, <1>5, <1>6, <1>7, <1>8 DEF Timed

\* So it is for a guard that does not move itself.
LEMMA OthersTimed ==
    ASSUME BeatsInTime, IInv, TInv, IInv', NEW g \in Guards, guard'[g] = guard[g],
           win'["Shell"] = win["Shell"] \/ win'["Shell"] = 1,
           \A p \in Pipes : /\ Live(pipe'[p]) => Live(pipe[p])
                            /\ \A k \in Int : Live(pipe'[p]) /\ DueIn(pipe[p], k)
                                              => DueIn(pipe'[p], k)
    PROVE  Timed(guard'[g], pipe', Slack')
<1>1. guard[g] \in GuardRecords /\ Timed(guard[g], pipe, Slack)
  BY DEF IInv, TypeOK, TInv
<1>2. Slack \in Nat
  BY SlackFacts
<1>3. Slack' \in Nat /\ Slack' <= Slack
  <2>1. Slack' = Slack \/ Slack' = 0
    BY DEF Slack
  <2> QED
    BY <1>2, <2>1
<1>4. Timed(guard[g], pipe', Slack')
  BY <1>1, <1>2, <1>3, StaysTimed
<1> QED
  BY <1>4

\* A new pipeline beats before the guard that comes with it gives up.
LEMMA StartIsDue ==
    ASSUME BeatsInTime, NEW n \in StartTicks, NEW k \in Int, k >= Timeout + BootTicks
    PROVE  DueIn(PipeStarting(n), k) /\ Fresh(PipeStarting(n))
<1>1. /\ PipeStarting(n).state = "starting" /\ PipeStarting(n).wait = n
      /\ PipeStarting(n).count = 0 /\ PipeStarting(n).frames = 0
      /\ PipeStarting(n).begun = FALSE /\ PipeStarting(n).since = 0
  BY DEF PipeStarting, PipeOff
<1>2. n \in Nat /\ n + AttemptTicks - 1 + BeatTicks <= BootTicks + Timeout
  BY RateFacts
<1>3. n + AttemptTicks - 1 + BeatTicks <= k
  BY <1>2, RateFacts
<1> QED
  BY <1>1, <1>3 DEF DueIn, Fresh

LEMMA OffIsFresh == Fresh(PipeOff) /\ ~ Live(PipeOff)
BY DEF PipeOff, Fresh, Live

LEMMA InitTimed == ASSUME BeatsInTime, Init PROVE TInv
<1>1. PICK n \in StartTicks :
        pipe = [p \in Pipes |-> IF (p = "window") <=> ("Vision" \in Layout) THEN PipeStarting(n)
                                ELSE PipeOff]
  BY DEF Init
<1>2. Timeout + BootTicks \in Int
  BY RateFacts
<1>3. DueIn(PipeStarting(n), Timeout + BootTicks) /\ Fresh(PipeStarting(n))
  BY <1>2, StartIsDue
<1>4. \A p \in Pipes : Fresh(pipe[p]) /\ (Live(pipe[p]) => DueIn(pipe[p], Timeout + BootTicks))
  BY <1>1, <1>3, OffIsFresh
<1>5. ASSUME NEW g \in Guards PROVE Timed(guard[g], pipe, Slack)
  <2>1. CASE g = FirstGuard
    <3>1. guard[g] = GuardBooting
      BY <2>1 DEF Init
    <3>2. GuardBooting.pc = "boot" /\ GuardBooting.wait = BootTicks
      BY DEF GuardBooting, GuardOff
    <3> QED
      BY <1>4, <3>1, <3>2 DEF Timed, AllDue
  <2>2. CASE g # FirstGuard
    BY <2>2, NewRecords, IdleTimed DEF Init
  <2> QED
    BY <2>1, <2>2
<1> QED
  BY <1>4, <1>5 DEF TInv
-----------------------------------------------------------------------------
(* The steps. *)

LEMMA QuietPipeTimed ==
    ASSUME BeatsInTime, IInv, TInv, IInv', NEW p \in Pipes, ComeUp(p) \/ Hang(p) \/ Exit(p)
    PROVE  TInv'
<1>1. pipe \in [Pipes -> PipeRecords] /\ pipe[p] \in PipeRecords /\ win \in [Windows -> Nat]
  BY DEF IInv, TypeOK
<1>2. UNCHANGED guard /\ win'["Shell"] = win["Shell"]
  BY <1>1, TheGuards DEF ComeUp, Hang, Exit
<1>3. PICK n \in PipeRecords :
        /\ pipe' = [pipe EXCEPT ![p] = n] /\ Fresh(n)
        /\ Live(n) => Live(pipe[p]) /\ \A k \in Int : DueIn(pipe[p], k) => DueIn(n, k)
  <2>1. CASE ComeUp(p)
    <3>1. pipe[p].state = "starting" /\ pipe' = [pipe EXCEPT ![p] = [pipe[p] EXCEPT !.state = "up"]]
      BY <1>1, <2>1 DEF ComeUp
    <3>2. [pipe[p] EXCEPT !.state = "up"] \in PipeRecords
      BY <1>1 DEF PipeRecords
    <3>3. Fresh([pipe[p] EXCEPT !.state = "up"])
      BY <1>1, <3>1 DEF TInv, Fresh, PipeRecords
    <3>4. \A k \in Int : DueIn(pipe[p], k) => DueIn([pipe[p] EXCEPT !.state = "up"], k)
      BY <1>1, <3>1, UpIsDue DEF TInv
    <3> QED
      BY <3>1, <3>2, <3>3, <3>4 DEF Live
  <2>2. CASE Hang(p)
    <3>1. pipe' = [pipe EXCEPT ![p] = [pipe[p] EXCEPT !.state = "hung"]]
      BY <1>1, <2>2 DEF Hang
    <3>2. [pipe[p] EXCEPT !.state = "hung"] \in PipeRecords
          /\ ~ Live([pipe[p] EXCEPT !.state = "hung"])
      BY <1>1 DEF PipeRecords, Live
    <3>3. Fresh([pipe[p] EXCEPT !.state = "hung"])
      BY <1>1 DEF TInv, Fresh, PipeRecords
    <3> QED
      BY <3>1, <3>2, <3>3
  <2>3. CASE Exit(p)
    BY <2>3, NewRecords, OffIsFresh DEF Exit
  <2> QED
    BY <2>1, <2>2, <2>3
<1>4. \A q \in Pipes : /\ Live(pipe'[q]) => Live(pipe[q])
                       /\ \A k \in Int : Live(pipe'[q]) /\ DueIn(pipe[q], k) => DueIn(pipe'[q], k)
  BY <1>1, <1>3
<1>5. \A q \in Pipes : Fresh(pipe'[q])
  BY <1>1, <1>3 DEF TInv
<1>6. \A g \in Guards : Timed(guard'[g], pipe', Slack')
  BY <1>2, <1>4, OthersTimed
<1> QED
  BY <1>5, <1>6 DEF TInv

\* A callback and a tick leave a pipeline that has not begun as it was.
LEMMA FreshStays ==
    ASSUME BeatsInTime, NEW h \in PipeRecords, Fresh(h)
    PROVE  Fresh(Ticked(h)) /\ (h.state = "up" => Fresh(Refresh(h)))
<1>1. /\ Ticked(h).state = h.state /\ Ticked(h).count = h.count /\ Ticked(h).frames = 0
      /\ Ticked(h).begun = h.begun /\ (~ h.begun => Ticked(h).since = 0)
  BY DEF Ticked, PipeRecords
<1>2. Fresh(Ticked(h))
  BY <1>1 DEF Fresh
<1>3. /\ Refresh(h).state = h.state /\ Refresh(h).begun = (h.begun \/ Attempts(h))
      /\ Refresh(h).since = IF Beats(h) THEN 0 ELSE h.since
  BY DEF Refresh, PipeRecords
<1>4. h.begun \in BOOLEAN
  BY PipeFields
<1>5. ~ Refresh(h).begun => ~ h.begun
  BY <1>3, <1>4, Zenon
<1>6. h.state = "up" => Fresh(Refresh(h))
  BY <1>3, <1>5 DEF Fresh
<1> QED
  BY <1>2, <1>6

\* A beat gives every guard that may see it a new timeout, and is followed by
\* another before a guard that cannot see it yet gives up.
LEMMA FrameTimed ==
    ASSUME BeatsInTime, IInv, TInv, IInv', NEW p \in Pipes, Frame(p)
    PROVE  TInv'
<1>1. pipe \in [Pipes -> PipeRecords] /\ pipe[p] \in PipeRecords /\ Fresh(pipe[p])
      /\ pipe'[p] \in PipeRecords
  BY DEF IInv, TypeOK, TInv
<1>2. pipe[p].state = "up" /\ UNCHANGED win /\ pipe'[p] = Refresh(pipe[p])
      /\ \A q \in Pipes : q # p => pipe'[q] = pipe[q]
  BY <1>1 DEF Frame
<1>3. Live(pipe[p])
  BY <1>2 DEF Live
<1>4. \A k \in Int : DueIn(pipe[p], k) =>
         /\ Beats(pipe[p]) => DueIn(pipe'[p], BeatTicks)
         /\ ~ Beats(pipe[p]) => DueIn(pipe'[p], k)
  BY <1>1, <1>2, FrameIsDue
<1>5. \A q \in Pipes : Fresh(pipe'[q])
  BY <1>1, <1>2, FreshStays DEF TInv
<1>6. CASE ~ Beats(pipe[p])
  <2>1. \A g \in Guards : guard'[g] = guard[g]
    BY <1>6 DEF Frame
  <2>2. \A q \in Pipes : /\ Live(pipe'[q]) => Live(pipe[q])
                         /\ \A k \in Int : Live(pipe'[q]) /\ DueIn(pipe[q], k)
                                           => DueIn(pipe'[q], k)
    BY <1>2, <1>3, <1>4, <1>6
  <2>3. \A g \in Guards : Timed(guard'[g], pipe', Slack')
    BY <1>2, <2>1, <2>2, OthersTimed
  <2> QED
    BY <1>5, <2>3 DEF TInv
<1>7. CASE Beats(pipe[p])
  <2>1. ASSUME NEW k \in Int, AllDue(pipe, k), NEW l \in Int, k <= l, BeatTicks <= l
        PROVE  AllDue(pipe', l)
    <3>1. DueIn(pipe'[p], BeatTicks)
      BY <1>3, <1>4, <1>7, <2>1 DEF AllDue
    <3>2. DueIn(pipe'[p], l)
      BY <1>1, <2>1, <3>1, DueLater, RateFacts
    <3>3. AllDue(pipe, l)
      BY <1>1, <2>1, AllDueLater
    <3> QED
      BY <1>2, <3>2, <3>3 DEF AllDue
  <2>2. ASSUME NEW g \in Guards PROVE Timed(guard'[g], pipe', Slack')
    <3>1. guard[g] \in GuardRecords /\ Timed(guard[g], pipe, Slack)
      BY DEF IInv, TypeOK, TInv
    <3>2. Slack' = Slack /\ Slack \in Nat
      BY <1>2, SlackFacts DEF Slack
    <3>3. BeatTicks <= Timeout /\ Timeout \in Nat /\ BeatTicks \in Nat /\ BootTicks \in Nat
      BY RateFacts
    <3>4. /\ guard[g].wait \in Nat /\ guard[g].since \in Nat /\ Timeout - guard[g].since \in Int
          /\ Timeout + guard[g].wait \in Int /\ Timeout + BootTicks + guard[g].wait \in Int
          /\ Timeout - guard[g].since <= Timeout
          /\ Timeout + guard[g].wait <= Timeout + BootTicks + guard[g].wait
          /\ BeatTicks <= Timeout + guard[g].wait
      BY <3>1, <3>3, GuardFields
    <3>5. CASE guard[g].pc = "watch"
      <4>1. guard'[g] = [guard[g] EXCEPT !.beat = TRUE]
        BY <1>7, <3>5 DEF Frame
      <4>2. guard'[g].pc = "watch" /\ guard'[g].beat = TRUE /\ guard'[g].since = guard[g].since
        BY <3>1, <3>5, <4>1 DEF GuardRecords
      <4>3. AllDue(pipe', Timeout)
        <5>1. CASE guard[g].beat
          BY <2>1, <3>1, <3>3, <3>5, <5>1 DEF Timed
        <5>2. CASE ~ guard[g].beat
          BY <2>1, <3>1, <3>3, <3>4, <3>5, <5>2 DEF Timed
        <5> QED
          BY <5>1, <5>2
      <4>4. guard'[g].since <= Timeout
        BY <1>3, <3>1, <3>5, <4>2 DEF Timed
      <4> QED
        BY <4>2, <4>3, <4>4 DEF Timed
    <3>6. CASE guard[g].pc # "watch"
      <4>1. guard'[g] = guard[g]
        BY <3>6 DEF Frame
      <4>2. CASE guard[g].pc = "boot"
        <5>1. AllDue(pipe', Timeout + guard[g].wait)
          BY <2>1, <3>1, <3>4, <4>2 DEF Timed
        <5> QED
          BY <4>1, <4>2, <5>1 DEF Timed
      <4>3. CASE guard[g].pc = "ctor"
        <5>1. /\ guard[g].since + guard[g].wait + Slack + BeatTicks <= Timeout
              /\ AllDue(pipe, Timeout - guard[g].since)
          BY <3>1, <4>3 DEF Timed
        <5>2. BeatTicks <= Timeout - guard[g].since
          BY <3>2, <3>3, <3>4, <5>1
        <5>3. AllDue(pipe', Timeout - guard[g].since)
          BY <2>1, <3>4, <5>1, <5>2
        <5> QED
          BY <3>2, <4>1, <4>3, <5>1, <5>3 DEF Timed
      <4>4. CASE guard[g].pc = "spawn"
        BY <1>3, <3>1, <4>4 DEF Timed
      <4>5. CASE guard[g].pc = "self"
        <5>1. BeatTicks <= Timeout + BootTicks + guard[g].wait
          BY <3>3, <3>4
        <5>2. AllDue(pipe', Timeout + BootTicks + guard[g].wait)
          BY <2>1, <3>1, <3>4, <4>5, <5>1 DEF Timed
        <5> QED
          BY <4>1, <4>5, <5>2 DEF Timed
      <4>6. CASE guard[g].pc \in {"off", "quit"}
        BY <4>1, <4>6, IdleTimed
      <4> QED
        BY <3>1, <3>6, <4>2, <4>3, <4>4, <4>5, <4>6 DEF GuardRecords
    <3> QED
      BY <3>5, <3>6
  <2> QED
    BY <1>5, <2>2 DEF TInv
<1> QED
  BY <1>6, <1>7

\* A tick takes one from the patience of a guard, and one from the time to the
\* next beat.
LEMMA TickTimed ==
    ASSUME BeatsInTime, IInv, TInv, IInv', Tick
    PROVE  TInv'
<1>1. \A p \in Pipes : /\ pipe[p] \in PipeRecords /\ Fresh(pipe[p])
                       /\ pipe'[p] = Ticked(pipe[p]) /\ Ticked(pipe[p]) \in PipeRecords
  <2>1. \A p \in Pipes : pipe'[p] = Ticked(pipe[p])
    BY DEF Tick, Ticked
  <2>2. \A p \in Pipes : pipe'[p] \in PipeRecords
    BY DEF IInv, TypeOK
  <2> QED
    BY <2>1, <2>2 DEF IInv, TypeOK, TInv
<1>2. \A p \in Pipes : Fresh(pipe'[p]) /\ (Live(pipe'[p]) => Live(pipe[p]))
  <2>1. \A p \in Pipes : pipe'[p].state = pipe[p].state
    BY <1>1 DEF Ticked, PipeRecords
  <2> QED
    BY <1>1, <2>1, FreshStays DEF Live
<1>3. ASSUME NEW p \in Pipes, NEW k \in Int, Live(pipe[p]), DueIn(pipe[p], k)
      PROVE  k >= 1 /\ DueIn(pipe'[p], k - 1)
  <2>1. /\ pipe[p].state = "starting" => pipe[p].wait > 0
        /\ pipe[p].state = "up" => pipe[p].frames >= MinRate
    BY DEF Tick, Ran
  <2> QED
    BY <1>1, <1>3, <2>1, TickIsDue
<1>4. \A k \in Int : AllDue(pipe, k) => AllDue(pipe', k - 1)
  BY <1>2, <1>3 DEF AllDue
<1>5. Slack' = Slack /\ Slack \in Nat
  BY SlackFacts DEF Slack, Tick
<1>6. ASSUME NEW g \in Guards PROVE Timed(guard'[g], pipe', Slack')
  <2>1. guard[g] \in GuardRecords /\ Timed(guard[g], pipe, Slack) /\ Settled(g)
    BY DEF IInv, TypeOK, TInv, Tick
  <2> DEFINE w == guard[g].wait
             s == guard[g].since
  <2>2. /\ w \in Nat /\ s \in 0 .. Timeout + 1 /\ s \in Nat /\ Timeout \in Nat
        /\ BootTicks \in Nat /\ BeatTicks \in Nat /\ guard[g].beat \in BOOLEAN
    BY <2>1, GuardFields, RateFacts
  <2>3. CASE guard[g].pc = "off"
    <3>1. guard'[g] = guard[g]
      BY <2>3 DEF Tick
    <3> QED
      BY <2>3, <3>1, IdleTimed
  <2>4. CASE guard[g].pc # "off"
    <3>1. guard'[g] = [guard[g] EXCEPT !.wait = Less(@), !.since = More(@, Timeout + 1),
                                       !.due = guard[g].pc = "watch"]
      BY <2>4 DEF Tick
    <3>2. /\ guard'[g].pc = guard[g].pc /\ guard'[g].wait = Less(w)
          /\ guard'[g].since = More(s, Timeout + 1) /\ guard'[g].beat = guard[g].beat
      BY <2>1, <3>1 DEF GuardRecords
    <3> HIDE DEF w, s
    <3>3. s <= Timeout => guard'[g].since = s + 1
      BY <2>2, <3>2 DEF More
    <3>4. w > 0 => guard'[g].wait = w - 1
      BY <2>2, <3>2 DEF Less
    <3>5. CASE guard[g].pc = "boot"
      <4>1. w > 0
        BY <2>1, <3>5 DEF Settled, w
      <4>2. AllDue(pipe', (Timeout + w) - 1)
        BY <1>4, <2>1, <2>2, <3>5 DEF Timed, w
      <4>3. (Timeout + w) - 1 = Timeout + guard'[g].wait
        BY <2>2, <3>4, <4>1
      <4>4. AllDue(pipe', Timeout + guard'[g].wait)
        BY <4>2, <4>3
      <4> QED
        BY <3>2, <3>5, <4>4 DEF Timed
    <3>6. CASE guard[g].pc = "ctor"
      <4>1. w > 0
        BY <2>1, <3>6 DEF Settled, w
      <4>2. s + w + Slack + BeatTicks <= Timeout /\ AllDue(pipe, Timeout - s)
        BY <2>1, <3>6 DEF Timed, w, s
      <4>3. s <= Timeout
        BY <1>5, <2>2, <4>2
      <4>4. guard'[g].since + guard'[g].wait + Slack + BeatTicks <= Timeout
        BY <1>5, <2>2, <3>3, <3>4, <4>1, <4>2, <4>3
      <4>5. AllDue(pipe', (Timeout - s) - 1)
        BY <1>4, <2>2, <4>2
      <4>6. (Timeout - s) - 1 = Timeout - guard'[g].since
        BY <2>2, <3>3, <4>3
      <4>7. AllDue(pipe', Timeout - guard'[g].since)
        BY <4>5, <4>6
      <4> QED
        BY <1>5, <3>2, <3>6, <4>4, <4>7 DEF Timed
    <3>7. CASE guard[g].pc = "watch"
      <4>1. ~ guard[g].beat
        BY <2>1, <3>7 DEF Settled
      <4>2. AllDue(pipe, Timeout - s)
        BY <2>1, <3>7, <4>1 DEF Timed, s
      <4>3. ASSUME NEW p \in Pipes, Live(pipe'[p])
            PROVE  /\ guard'[g].since <= Timeout
                   /\ DueIn(pipe'[p], Timeout - guard'[g].since)
        <5>1. Live(pipe[p]) /\ DueIn(pipe[p], Timeout - s)
          BY <1>2, <4>2, <4>3 DEF AllDue
        <5>2. Timeout - s >= 1 /\ DueIn(pipe'[p], (Timeout - s) - 1)
          BY <1>3, <2>2, <5>1
        <5>3. guard'[g].since = s + 1 /\ (Timeout - s) - 1 = Timeout - guard'[g].since
          BY <2>2, <3>3, <5>2
        <5> QED
          BY <2>2, <5>2, <5>3
      <4>4. AllDue(pipe', Timeout - guard'[g].since)
        BY <4>3 DEF AllDue
      <4> QED
        BY <3>2, <3>7, <4>1, <4>3, <4>4 DEF Timed
    <3>8. CASE guard[g].pc = "spawn"
      BY <1>2, <2>1, <3>2, <3>8 DEF Timed
    <3>9. CASE guard[g].pc = "self"
      <4>1. w > 0
        BY <2>1, <3>9 DEF Settled, w
      <4>2. AllDue(pipe', (Timeout + BootTicks + w) - 1)
        BY <1>4, <2>1, <2>2, <3>9 DEF Timed, w
      <4>3. (Timeout + BootTicks + w) - 1 = Timeout + BootTicks + guard'[g].wait
        BY <2>2, <3>4, <4>1
      <4>4. AllDue(pipe', Timeout + BootTicks + guard'[g].wait)
        BY <4>2, <4>3
      <4> QED
        BY <3>2, <3>9, <4>4 DEF Timed
    <3>10. CASE guard[g].pc = "quit"
      BY <3>2, <3>10, IdleTimed
    <3> QED
      BY <2>1, <2>4, <3>5, <3>6, <3>7, <3>8, <3>9, <3>10 DEF GuardRecords
  <2> QED
    BY <2>3, <2>4
<1> QED
  BY <1>2, <1>6 DEF TInv

\* When only the guard g moves, and no pipeline does, it is g that counts.
LEMMA OneTimed ==
    ASSUME BeatsInTime, IInv, TInv, IInv', NEW g \in Guards, UNCHANGED pipe,
           win'["Shell"] = win["Shell"] \/ win'["Shell"] = 1,
           \A h \in Guards : h # g => guard'[h] = guard[h],
           Timed(guard'[g], pipe, Slack')
    PROVE  TInv'
<1>1. ASSUME NEW h \in Guards PROVE Timed(guard'[h], pipe', Slack')
  <2>1. CASE h = g
    BY <2>1
  <2>2. CASE h # g
    BY <2>2, OthersTimed
  <2> QED
    BY <2>1, <2>2
<1> QED
  BY <1>1 DEF TInv

\* The clock starts with the constructor.
LEMMA ConstructTimed ==
    ASSUME BeatsInTime, IInv, TInv, IInv', NEW g \in Guards, Construct(g)
    PROVE  TInv'
<1>1. /\ guard[g] \in GuardRecords /\ guard \in [Guards -> GuardRecords]
      /\ Timed(guard[g], pipe, Slack)
  BY DEF IInv, TypeOK, TInv
<1>2. guard[g].pc = "boot" /\ guard[g].wait = 0 /\ UNCHANGED <<win, pipe>>
      /\ guard' = [guard EXCEPT ![g].pc = "ctor", ![g].wait = CtorTicks, ![g].since = 0]
  BY DEF Construct
<1>3. /\ guard'[g].pc = "ctor" /\ guard'[g].wait = CtorTicks /\ guard'[g].since = 0
      /\ \A h \in Guards : h # g => guard'[h] = guard[h]
  BY <1>1, <1>2 DEF GuardRecords
<1>4. Timeout \in Nat /\ 2 * CtorTicks + BeatTicks <= Timeout /\ Slack' = Slack
      /\ Slack \in Nat /\ Slack <= CtorTicks /\ CtorTicks \in Nat /\ BeatTicks \in Nat
  BY <1>2, RateFacts, SlackFacts DEF Slack
<1>5. Timeout + 0 = Timeout /\ Timeout - 0 = Timeout
  BY <1>4
<1>6. AllDue(pipe, Timeout - guard'[g].since)
  <2>1. AllDue(pipe, Timeout + 0)
    BY <1>1, <1>2 DEF Timed
  <2> QED
    BY <1>3, <1>5, <2>1
<1>7. guard'[g].since + guard'[g].wait + Slack' + BeatTicks <= Timeout
  BY <1>3, <1>4
<1>8. Timed(guard'[g], pipe, Slack')
  BY <1>3, <1>6, <1>7 DEF Timed
<1> QED
  BY <1>2, <1>3, <1>8, OneTimed

\* The constructor sleeps twice at most: there is a session after the first time.
LEMMA AttachTimed ==
    ASSUME BeatsInTime, IInv, TInv, IInv', NEW g \in Guards, Attach(g)
    PROVE  TInv'
<1>1. /\ guard[g] \in GuardRecords /\ guard \in [Guards -> GuardRecords]
      /\ win \in [Windows -> Nat] /\ Timed(guard[g], pipe, Slack) /\ pipe \in [Pipes -> PipeRecords]
  BY DEF IInv, TypeOK, TInv
<1>2. guard[g].pc = "ctor" /\ guard[g].wait = 0 /\ UNCHANGED pipe
  BY DEF Attach
<1>3. /\ Timeout \in Nat /\ Slack \in Nat /\ CtorTicks \in Nat /\ BeatTicks \in Nat
      /\ guard[g].since \in Nat /\ guard[g].beat \in BOOLEAN
      /\ Timeout - guard[g].since \in Int /\ Timeout - guard[g].since <= Timeout
  BY <1>1, RateFacts, SlackFacts, GuardFields
<1>4. /\ guard[g].since + 0 + Slack + BeatTicks <= Timeout
      /\ AllDue(pipe, Timeout - guard[g].since)
  BY <1>1, <1>2 DEF Timed
<1>5. CASE Session(win)
  <2>1. guard' = [guard EXCEPT ![g].pc = "watch"] /\ UNCHANGED win
    BY <1>5 DEF Attach
  <2>2. /\ guard'[g].pc = "watch" /\ guard'[g].since = guard[g].since
        /\ guard'[g].beat = guard[g].beat
        /\ \A h \in Guards : h # g => guard'[h] = guard[h]
    BY <1>1, <2>1 DEF GuardRecords
  <2>3. AllDue(pipe, IF guard'[g].beat THEN Timeout ELSE Timeout - guard'[g].since)
    <3>1. AllDue(pipe, Timeout)
      BY <1>1, <1>3, <1>4, AllDueLater
    <3> QED
      BY <1>4, <2>2, <3>1
  <2>4. guard'[g].since <= Timeout
    BY <1>3, <1>4, <2>2
  <2>5. Timed(guard'[g], pipe, Slack')
    BY <2>2, <2>3, <2>4 DEF Timed
  <2> QED
    BY <1>2, <2>1, <2>2, <2>5, OneTimed
<1>6. CASE ~ Session(win)
  <2>1. guard' = [guard EXCEPT ![g].wait = CtorTicks] /\ win' = [win EXCEPT !["Shell"] = 1]
    BY <1>6 DEF Attach
  <2>2. /\ guard'[g].pc = "ctor" /\ guard'[g].since = guard[g].since
        /\ guard'[g].wait = CtorTicks
        /\ \A h \in Guards : h # g => guard'[h] = guard[h]
    BY <1>1, <1>2, <2>1 DEF GuardRecords
  <2>3. win'["Shell"] = 1 /\ Slack' = 0
    BY <1>1, <2>1, TheGuards DEF Slack
  <2>4. Slack = CtorTicks
    <3>1. win["Shell"] # 1
      BY <1>1, <1>6, TheGuards DEF Session
    <3> QED
      BY <3>1 DEF Slack
  <2>5. guard'[g].since + guard'[g].wait + Slack' + BeatTicks <= Timeout
    BY <1>3, <1>4, <2>2, <2>3, <2>4
  <2>6. Timed(guard'[g], pipe, Slack')
    BY <1>4, <2>2, <2>5 DEF Timed
  <2> QED
    BY <1>2, <2>2, <2>3, <2>6, OneTimed
<1> QED
  BY <1>5, <1>6

LEMMA CallbacksTimed ==
    ASSUME BeatsInTime, IInv, TInv, IInv', NEW g \in Guards,
           HeartbeatCallback(g) \/ CheckHeartbeat(g)
    PROVE  TInv'
<1>1. /\ guard[g] \in GuardRecords /\ guard \in [Guards -> GuardRecords]
      /\ Timed(guard[g], pipe, Slack) /\ Timeout \in Nat
  BY RateFacts DEF IInv, TypeOK, TInv
<1>2. guard[g].pc = "watch" /\ UNCHANGED <<win, pipe>>
  BY DEF HeartbeatCallback, CheckHeartbeat
<1>3. CASE HeartbeatCallback(g)
  <2>1. guard' = [guard EXCEPT ![g].beat = FALSE, ![g].since = 0] /\ guard[g].beat
    BY <1>3 DEF HeartbeatCallback
  <2>2. /\ guard'[g].pc = "watch" /\ guard'[g].since = 0 /\ guard'[g].beat = FALSE
        /\ \A h \in Guards : h # g => guard'[h] = guard[h]
    BY <1>1, <1>2, <2>1 DEF GuardRecords
  <2>3. AllDue(pipe, Timeout) /\ Timeout - 0 = Timeout /\ 0 <= Timeout
    BY <1>1, <1>2, <2>1 DEF Timed
  <2>4. Timed(guard'[g], pipe, Slack')
    BY <2>2, <2>3 DEF Timed
  <2> QED
    BY <1>2, <2>2, <2>4, OneTimed
<1>4. CASE CheckHeartbeat(g)
  <2>1. guard' = [guard EXCEPT ![g].due = FALSE]
    BY <1>4 DEF CheckHeartbeat
  <2>2. /\ guard'[g].pc = "watch" /\ guard'[g].since = guard[g].since
        /\ guard'[g].beat = guard[g].beat
        /\ \A h \in Guards : h # g => guard'[h] = guard[h]
    BY <1>1, <1>2, <2>1 DEF GuardRecords
  <2>3. Timed(guard'[g], pipe, Slack')
    BY <1>1, <1>2, <2>2 DEF Timed
  <2> QED
    BY <1>2, <2>2, <2>3, OneTimed
<1> QED
  BY <1>3, <1>4

\* A guard that gives up has watched longer than any live pipeline takes to beat.
LEMMA NoneAlive ==
    ASSUME TInv, NEW g \in Guards, guard[g] \in GuardRecords, KillVision(g)
    PROVE  \A p \in Pipes : ~ Live(pipe[p])
<1>1. Timed(guard[g], pipe, Slack) /\ guard[g].pc = "watch" /\ guard[g].since > Timeout
  BY DEF TInv, KillVision
<1>2. guard[g].since \in Int /\ Timeout \in Int
  BY WatchdogAssumption DEF GuardRecords
<1> QED
  BY <1>1, <1>2 DEF Timed

LEMMA KillVisionTimed ==
    ASSUME BeatsInTime, IInv, TInv, IInv', NEW g \in Guards, KillVision(g)
    PROVE  TInv'
<1>1. /\ guard[g] \in GuardRecords /\ guard \in [Guards -> GuardRecords]
      /\ pipe \in [Pipes -> PipeRecords] /\ win \in [Windows -> Nat]
  BY DEF IInv, TypeOK
<1>2. win'["Shell"] = win["Shell"]
  BY <1>1, TheGuards DEF KillVision, Killed
<1>3. \A p \in Pipes : ~ Live(pipe[p])
  BY <1>1, NoneAlive
<1>4. \A p \in Pipes : pipe'[p] = pipe[p] \/ pipe'[p] = PipeOff
  BY <1>1 DEF KillVision
<1>5. \A p \in Pipes : Fresh(pipe'[p]) /\ ~ Live(pipe'[p])
  BY <1>3, <1>4, OffIsFresh DEF TInv
<1>6. guard'[g].pc = "spawn" /\ \A h \in Guards : h # g => guard'[h] = guard[h]
  BY <1>1 DEF KillVision, GuardRecords
<1>7. ASSUME NEW h \in Guards PROVE Timed(guard'[h], pipe', Slack')
  <2>1. CASE h = g
    BY <1>5, <1>6, <2>1 DEF Timed
  <2>2. CASE h # g
    BY <1>2, <1>5, <1>6, <2>2, OthersTimed
  <2> QED
    BY <2>1, <2>2
<1> QED
  BY <1>5, <1>7 DEF TInv

LEMMA SpawnVisionTimed ==
    ASSUME BeatsInTime, IInv, TInv, IInv', NEW g \in Guards, SpawnVision(g)
    PROVE  TInv'
<1>1. /\ guard[g] \in GuardRecords /\ guard \in [Guards -> GuardRecords]
      /\ pipe \in [Pipes -> PipeRecords] /\ Timed(guard[g], pipe, Slack)
  BY DEF IInv, TypeOK, TInv
<1>2. PICK n \in StartTicks :
        pipe' = IF Session(win) THEN [pipe EXCEPT !["window"] = PipeStarting(n)] ELSE pipe
  BY DEF SpawnVision
<1>3. guard[g].pc = "spawn" /\ guard' = [guard EXCEPT ![g].pc = "self", ![g].wait = 1]
  BY DEF SpawnVision
<1>4. /\ guard'[g].pc = "self" /\ guard'[g].wait = 1
      /\ \A h \in Guards : h # g => guard'[h] = guard[h]
  BY <1>1, <1>3 DEF GuardRecords
<1>5. Timeout + BootTicks + 1 \in Int /\ Timeout + BootTicks + 1 >= Timeout + BootTicks
  BY RateFacts
<1>6. DueIn(PipeStarting(n), Timeout + BootTicks + 1) /\ Fresh(PipeStarting(n))
  BY <1>5, StartIsDue
<1>7. \A p \in Pipes : pipe'[p] = pipe[p] \/ pipe'[p] = PipeStarting(n)
  BY <1>1, <1>2
<1>8. \A p \in Pipes : Fresh(pipe'[p])
                       /\ (Live(pipe'[p]) => DueIn(pipe'[p], Timeout + BootTicks + 1))
  BY <1>1, <1>3, <1>6, <1>7 DEF Timed, TInv
<1>9. ASSUME NEW h \in Guards PROVE Timed(guard'[h], pipe', Slack')
  <2>1. CASE h = g
    BY <1>4, <1>8, <2>1 DEF Timed, AllDue
  <2>2. CASE h # g
    <3>1. guard'[h].pc \in {"off", "quit"}
      BY <1>3, <1>4, <2>2, WhoActs DEF Acts
    <3> QED
      BY <3>1, IdleTimed
  <2> QED
    BY <2>1, <2>2
<1> QED
  BY <1>8, <1>9 DEF TInv

\* The successor has the patience the old guard had left, and the new pipeline
\* needs.
LEMMA HandoverTimed ==
    ASSUME BeatsInTime, IInv, TInv, IInv', NEW g \in Guards, RestartSelf(g) \/ Quit(g)
    PROVE  TInv'
<1>1. /\ guard[g] \in GuardRecords /\ guard \in [Guards -> GuardRecords]
      /\ win \in [Windows -> Nat] /\ Timed(guard[g], pipe, Slack)
  BY DEF IInv, TypeOK, TInv
<1>2. UNCHANGED pipe
  BY DEF RestartSelf, Quit
<1>3. CASE RestartSelf(g)
  <2> DEFINE new == Successor(win)
             old == {d \in Predecessors(win) : win[d] = 1}
  <2>1. new \in WatchDogs /\ old \subseteq WatchDogs
    BY DEF Successor, Predecessors, WatchDogs
  <2>2. win' = [n \in Windows |-> IF n \in old THEN 0 ELSE Opened(win, new)[n]]
    BY <1>3 DEF RestartSelf
  <2>3. guard' = [d \in Guards |->
                CASE d \in old -> GuardOff
                  [] d = new /\ Session(win) -> GuardBooting
                  [] d = g /\ d \notin old \cup {new} -> [guard[g] EXCEPT !.pc = "quit", !.wait = 1]
                  [] OTHER -> guard[d]]
    BY <1>3 DEF RestartSelf
  <2>4. guard[g].pc = "self" /\ guard[g].wait = 0
    BY <1>3 DEF RestartSelf
  <2> HIDE DEF new, old
  <2>5. win'["Shell"] = win["Shell"]
    <3>1. "Shell" \in Windows /\ "Shell" \notin old /\ "Shell" # new
      BY <2>1, TheGuards
    <3>2. Opened(win, new)["Shell"] = win["Shell"]
      BY <1>1, <3>1 DEF Opened
    <3> QED
      BY <2>2, <3>1, <3>2
  <2>6. \A d \in Guards : \/ guard'[d].pc \in {"off", "quit"}
                          \/ guard'[d] = GuardBooting
                          \/ guard'[d] = guard[d]
    <3>1. GuardOff.pc = "off" /\ [guard[g] EXCEPT !.pc = "quit", !.wait = 1].pc = "quit"
      BY <1>1, NewRecords DEF GuardRecords
    <3>2. new \notin old
      BY DEF new, old, Predecessors
    <3>3. ASSUME NEW d \in Guards, d \notin old, ~ (d = new /\ Session(win)),
                 ~ (d = g /\ d \notin old \cup {new})
          PROVE  guard'[d] = guard[d]
      BY <2>3, <3>3
    <3>4. \A d \in Guards : d \in old => guard'[d] = GuardOff
      BY <2>3, <3>2
    <3>5. \A d \in Guards : d = new /\ Session(win) => guard'[d] = GuardBooting
      BY <2>3, <3>2
    <3>6. \A d \in Guards : d = g /\ d \notin old \cup {new} =>
             guard'[d] = [guard[g] EXCEPT !.pc = "quit", !.wait = 1]
      BY <2>3, <3>2
    <3> QED
      BY <3>1, <3>3, <3>4, <3>5, <3>6
  <2>7. AllDue(pipe, Timeout + BootTicks)
    <3>1. AllDue(pipe, Timeout + BootTicks + 0)
      BY <1>1, <2>4 DEF Timed
    <3>2. Timeout + BootTicks + 0 = Timeout + BootTicks
      BY RateFacts
    <3> QED
      BY <3>1, <3>2
  <2>8. Timed(GuardBooting, pipe', Slack')
    <3>1. GuardBooting.pc = "boot" /\ GuardBooting.wait = BootTicks
      BY DEF GuardBooting, GuardOff
    <3> QED
      BY <1>2, <2>7, <3>1 DEF Timed
  <2>9. \A d \in Guards : guard'[d] = guard[d] => Timed(guard'[d], pipe', Slack')
    BY <1>2, <2>5, OthersTimed
  <2>10. \A d \in Guards : Timed(guard'[d], pipe', Slack')
    BY <2>6, <2>8, <2>9, IdleTimed
  <2> QED
    BY <1>2, <2>10 DEF TInv
<1>4. CASE Quit(g)
  <2>1. guard' = [guard EXCEPT ![g] = GuardOff] /\ win'["Shell"] = win["Shell"]
    BY <1>1, <1>4, TheGuards DEF Quit
  <2>2. guard'[g].pc = "off" /\ \A h \in Guards : h # g => guard'[h] = guard[h]
    BY <1>1, <2>1, NewRecords
  <2> QED
    BY <1>2, <2>1, <2>2, IdleTimed, OneTimed
<1> QED
  BY <1>3, <1>4

LEMMA NextTimed == ASSUME BeatsInTime, IInv, TInv, [Next]_vars PROVE TInv'
<1>1. IInv'
  BY NextKeeps
<1>2. CASE UNCHANGED vars
  BY <1>2 DEF vars, TInv, Slack
<1>3. CASE Tick
  BY <1>1, <1>3, TickTimed
<1>4. ASSUME NEW p \in Pipes, PipeStep(p) PROVE TInv'
  BY <1>1, <1>4, QuietPipeTimed, FrameTimed DEF PipeStep
<1>5. ASSUME NEW g \in Guards, GuardStep(g) PROVE TInv'
  BY <1>1, <1>5, ConstructTimed, AttachTimed, CallbacksTimed, KillVisionTimed,
     SpawnVisionTimed, HandoverTimed DEF GuardStep
<1> QED
  BY <1>2, <1>3, <1>4, <1>5 DEF Next

\* No step but KillVision makes a guard stop watching in order to restart.
LEMMA OnlyKillVision ==
    ASSUME IInv, Next, NEW g \in Guards, guard[g].pc = "watch", guard'[g].pc = "spawn"
    PROVE  KillVision(g)
<1>1. guard[g] \in GuardRecords /\ guard \in [Guards -> GuardRecords]
  BY DEF IInv, TypeOK
<1>2. CASE Tick
  <2>1. guard'[g].pc = guard[g].pc
    BY <1>1, <1>2 DEF Tick, GuardRecords
  <2> QED
    BY <2>1
<1>3. ASSUME NEW p \in Pipes, PipeStep(p) PROVE FALSE
  <2>1. guard'[g].pc = guard[g].pc
    BY <1>1, <1>3 DEF PipeStep, ComeUp, Hang, Exit, Frame, GuardRecords
  <2> QED
    BY <2>1
<1>4. ASSUME NEW h \in Guards, GuardStep(h), ~ KillVision(h) PROVE FALSE
  <2>1. guard[h] \in GuardRecords
    BY DEF IInv, TypeOK
  <2>2. CASE Construct(h)
    BY <1>1, <2>1, <2>2 DEF Construct, GuardRecords
  <2>3. CASE Attach(h)
    BY <1>1, <2>1, <2>3 DEF Attach, GuardRecords
  <2>4. CASE HeartbeatCallback(h)
    BY <1>1, <2>1, <2>4 DEF HeartbeatCallback, GuardRecords
  <2>5. CASE CheckHeartbeat(h)
    BY <1>1, <2>1, <2>5 DEF CheckHeartbeat, GuardRecords
  <2>6. CASE SpawnVision(h)
    BY <1>1, <2>1, <2>6 DEF SpawnVision, GuardRecords
  <2>7. CASE RestartSelf(h)
    <3>1. guard'[g].pc \in {GuardOff.pc, GuardBooting.pc,
                            [guard[h] EXCEPT !.pc = "quit", !.wait = 1].pc, guard[g].pc}
      BY <2>7 DEF RestartSelf
    <3>2. [guard[h] EXCEPT !.pc = "quit", !.wait = 1].pc = "quit"
      BY <2>1 DEF GuardRecords
    <3> QED
      BY <3>1, <3>2, NewRecords
  <2>8. CASE Quit(h)
    BY <1>1, <2>1, <2>8, NewRecords DEF Quit
  <2> QED
    BY <1>4, <2>2, <2>3, <2>4, <2>5, <2>6, <2>7, <2>8 DEF GuardStep
<1>5. ASSUME NEW h \in Guards, KillVision(h) PROVE h = g
  <2>1. h # g => guard'[g] = guard[g]
    BY <1>1, <1>5 DEF KillVision
  <2> QED
    BY <2>1
<1> QED
  BY <1>2, <1>3, <1>4, <1>5 DEF Next

\* If pipelines beat in time, whatever else happens in whatever order a guard
\* restarts only what has stopped: no live pipeline and none that is coming up is
\* replaced, whether the guard is new, was restarted itself or has just made the
\* session (guard_dog.cpp:15-91, guard_dog_publish.cpp:11-54).
THEOREM HealthyIsKept == BeatsInTime => (Spec => HealthyIsLeftAlone)
<1> DEFINE Restart == \A g \in Guards :
                          guard[g].pc = "watch" /\ guard'[g].pc = "spawn" =>
                              \A p \in Pipes : pipe[p].state \in {"off", "hung"}
<1> SUFFICES ASSUME BeatsInTime PROVE Spec => HealthyIsLeftAlone
  OBVIOUS
<1>1. Init => TInv
  BY InitTimed
<1>2. IInv /\ TInv /\ [Next]_vars => TInv'
  BY NextTimed
<1>3. IInv /\ TInv /\ [Next]_vars => [Restart]_vars
  <2> SUFFICES ASSUME IInv, TInv, Next,
                      NEW g \in Guards, guard[g].pc = "watch", guard'[g].pc = "spawn",
                      NEW p \in Pipes
               PROVE  pipe[p].state \in {"off", "hung"}
    BY DEF vars
  <2>1. KillVision(g) /\ guard[g] \in GuardRecords /\ pipe[p] \in PipeRecords
    BY OnlyKillVision DEF IInv, TypeOK
  <2>2. ~ Live(pipe[p])
    BY <2>1, NoneAlive
  <2> QED
    BY <2>1, <2>2 DEF Live, PipeRecords
<1>4. HealthyIsLeftAlone <=> [][Restart]_vars
  BY DEF HealthyIsLeftAlone
<1> HIDE DEF Restart
<1> QED
  BY <1>1, <1>2, <1>3, <1>4, Invariance, PTL DEF Spec
=============================================================================

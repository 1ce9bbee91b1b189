----------------------------- MODULE Supervisor -----------------------------
(***************************************************************************)
(* The supervisor process (operations/supervisor.cjs), the runtimes it     *)
(* starts, and the health file between them (operations/health.cjs).       *)
(*                                                                         *)
(* Time is discrete.  A timer that is due fires before time goes on, unless *)
(* its process hangs.  While the machine sleeps the wall clock runs, which  *)
(* ages are taken from, and the timers do not.  Of the runtime the model    *)
(* has what the supervisor can see: a boot that takes the instance lock,    *)
(* heartbeats, a hanging event loop, signals and the ways it ends.          *)
(***************************************************************************)
EXTENDS Integers, Sequences

CONSTANTS
  Slot,            \* process slots of runtimes
  NoChild,
  HeartbeatEvery, MonitorEvery, HeartbeatStale, StaleConfirm, ReadyTimeout,
  ShutdownGrace, RestartWindow, MaxRestarts, RestartMax,   \* settings, in ticks
  Sleeps,          \* how long the machine may sleep
  MaxFaults,       \* bound on crashes, hangs, sleeps and slow boots
  AlwaysSlow       \* boots may be slow without counting as a fault

ASSUME SupervisorAssumption ==
  /\ NoChild \notin Slot
  /\ HeartbeatEvery \in Nat \ {0} /\ MonitorEvery \in Nat \ {0}
  /\ HeartbeatStale \in Nat /\ HeartbeatStale >= HeartbeatEvery + MonitorEvery
  /\ ReadyTimeout \in Nat /\ ReadyTimeout > HeartbeatEvery
  /\ {StaleConfirm, ShutdownGrace, RestartWindow, MaxFaults} \subseteq Nat
  /\ MaxRestarts \in Nat \ {0} /\ RestartMax \in Nat \ {0}
  /\ Sleeps \subseteq Nat
  /\ AlwaysSlow \in BOOLEAN

VARIABLES
  mode,         \* of the supervisor: "down", "up", "stopping" or "finished"
  child,        \* the runtime it watches
  watch,        \* what _monitor remembers, as ages
  kill,         \* countdown of killTimer
  restart,      \* countdown of restartTimer
  budget,       \* ages of the restarts recorded in the window
  proc,         \* the runtimes' processes
  health,       \* durable: the health record
  awake,        \* the monitor found its child in health since the last sleep
  stalled,      \* history: who hung since the monitor saw it in health
  faults

vars == <<mode, child, watch, kill, restart, budget, proc, health, awake, stalled, faults>>

Off == -1

LongestSleep == IF Sleeps = {} THEN 0 ELSE CHOOSE n \in Sleeps : \A k \in Sleeps : k <= n
Larger(a, b) == IF a > b THEN a ELSE b
Smaller(a, b) == IF a < b THEN a ELSE b

\* Ages beyond these bounds are told apart by nothing.
GapBound == MonitorEvery + LongestSleep * MaxFaults
AgeBound == ReadyTimeout + GapBound + 1
StaleBound == StaleConfirm + GapBound
HealthBound == HeartbeatStale + 1

SuspendGap == Larger(HeartbeatStale, 3 * MonitorEvery)
ResumeGrace == Larger(2 * MonitorEvery, HeartbeatStale \div 3)

NewWatch == [age |-> 0, gap |-> 0, phase |-> MonitorEvery, grace |-> 0, stale |-> Off,
             terminating |-> FALSE]

NoProc == [st |-> "none", ours |-> FALSE, hung |-> FALSE, slow |-> FALSE, beat |-> 0, term |-> FALSE]

Init ==
  /\ mode = "down" /\ child = NoChild
  /\ watch = NewWatch /\ kill = Off /\ restart = Off /\ budget = <<>>
  /\ proc = [c \in Slot |-> NoProc]
  /\ health = [run |-> NoChild, state |-> "stopped", age |-> HealthBound]
  /\ awake = TRUE /\ stalled = {} /\ faults = 0

Fault == faults < MaxFaults /\ faults' = faults + 1

-----------------------------------------------------------------------------
(* The runtime process.                                                    *)

Running(c) == proc[c].st \in {"starting", "ready"}
Alive(c) == proc[c].st \notin {"none", "exited"}

\* The end of a process; the supervisor that started it gets the exit event.
Ended(c) == IF proc[c].ours THEN [NoProc EXCEPT !.st = "exited", !.ours = TRUE] ELSE NoProc
Exits(c) == proc' = [proc EXCEPT ![c] = Ended(c)]

Writes(c, state) == health' = [run |-> c, state |-> state, age |-> 0]

SupervisorKept == UNCHANGED <<mode, child, watch, kill, restart, budget, awake>>

\* The instance lock: refused to all but one; its owner starts to beat.
Boot(c) ==
  /\ proc[c].st = "boot" /\ ~proc[c].hung
  /\ IF \E d \in Slot : Running(d)
     THEN Exits(c) /\ UNCHANGED health
     ELSE /\ proc' = [proc EXCEPT ![c].st = "starting", ![c].beat = HeartbeatEvery]
          /\ Writes(c, "starting")
  /\ SupervisorKept /\ UNCHANGED <<stalled, faults>>

\* The session is open and the replay through.
BecomesReady(c) ==
  /\ proc[c].st = "starting" /\ ~proc[c].hung
  /\ proc' = [proc EXCEPT ![c].st = "ready"]
  /\ Writes(c, "ready")
  /\ SupervisorKept /\ UNCHANGED <<stalled, faults>>

\* _safeWrite: the heartbeat of a runtime whose supervisor is there; without
\* it the runtime exits.  An event loop that hung goes on with the overdue timer.
Heartbeat(c) ==
  /\ Running(c)
  /\ IF proc[c].ours
     THEN /\ proc' = [proc EXCEPT ![c].beat = HeartbeatEvery, ![c].hung = FALSE]
          /\ Writes(c, proc[c].st)
     ELSE Exits(c) /\ UNCHANGED health
  /\ SupervisorKept /\ UNCHANGED <<stalled, faults>>

\* Mutant of Beats: the supervisor's process is not looked up.
BeatsUnsupervised(c) ==
  /\ proc[c].beat = 0 /\ ~proc[c].hung /\ Running(c)
  /\ proc' = [proc EXCEPT ![c].beat = HeartbeatEvery]
  /\ Writes(c, proc[c].st)
  /\ SupervisorKept /\ UNCHANGED <<stalled, faults>>

Beats(c) == proc[c].beat = 0 /\ ~proc[c].hung /\ Heartbeat(c)
LoopRecovers(c) == proc[c].hung /\ Heartbeat(c)

\* The signal handler: stop the reporter, release the lock, exit.
HandlesTerm(c) ==
  /\ proc[c].term /\ ~proc[c].hung /\ Alive(c)
  /\ Exits(c)
  /\ IF Running(c) /\ proc[c].ours THEN Writes(c, "stopped") ELSE UNCHANGED health
  /\ SupervisorKept /\ UNCHANGED <<stalled, faults>>

\* The runtime ends by itself: killed or out of memory, through its handlers,
\* or by a failed start, which may leave handles open.
Fails(c) ==
  /\ Alive(c) /\ Fault
  /\ \/ Exits(c) /\ UNCHANGED health
     \/ /\ Running(c) /\ proc[c].ours /\ ~proc[c].hung
        /\ \/ Exits(c) /\ \E state \in {"fatal", "stopped"} : Writes(c, state)
           \/ proc' = [proc EXCEPT ![c].st = "lingering"] /\ Writes(c, "fatal")
  /\ SupervisorKept /\ UNCHANGED stalled

\* What a failed start left open comes to its timeout.
Drains(c) ==
  /\ proc[c].st = "lingering"
  /\ Exits(c)
  /\ SupervisorKept /\ UNCHANGED <<health, stalled, faults>>

Hangs(c) ==
  /\ Running(c) /\ ~proc[c].hung /\ Fault
  /\ proc' = [proc EXCEPT ![c].hung = TRUE]
  /\ stalled' = stalled \cup {c}
  /\ SupervisorKept /\ UNCHANGED health

-----------------------------------------------------------------------------
(* The supervisor.                                                         *)

\* _spawnChild: a new run in a free slot, watched from now on.
Spawn ==
  \E c \in Slot, slow \in BOOLEAN :
    /\ proc[c].st = "none"
    /\ IF slow /\ ~AlwaysSlow THEN Fault ELSE UNCHANGED faults
    /\ proc' = [proc EXCEPT ![c] = [NoProc EXCEPT !.st = "boot", !.ours = TRUE, !.slow = slow]]
    /\ health' = [health EXCEPT !.run = IF @ = c THEN NoChild ELSE @]
    /\ child' = c
    /\ watch' = NewWatch
    /\ stalled' = stalled \ {c}
    /\ UNCHANGED awake

\* _finish.
Finish ==
  /\ mode' = "finished"
  /\ kill' = Off /\ restart' = Off

\* _scheduleRestart; the growth and the jitter of the delay are left open.
ScheduleRestart ==
  LET recent == SelectSeq(budget, LAMBDA age : age <= RestartWindow)
  IN
  /\ budget' = Append(recent, 0)
  /\ IF Len(recent) < MaxRestarts
     THEN /\ \E delay \in 1 .. RestartMax : restart' = delay
          /\ kill' = Off
          /\ mode' = "up"
     ELSE Finish

\* spawn itself throws, or reports an error and no process.
SpawnFails ==
  /\ Fault
  /\ ScheduleRestart
  /\ UNCHANGED <<child, watch, proc, health, awake, stalled>>

\* The host starts the supervisor; the lock of a dead one is taken over.
HostStarts ==
  /\ mode = "down"
  /\ \/ Spawn /\ mode' = "up" /\ UNCHANGED <<kill, restart, budget>>
     \/ SpawnFails

RestartFires ==
  /\ restart = 0
  /\ \/ /\ Spawn
        /\ restart' = Off
        /\ UNCHANGED <<mode, kill, budget>>
     \/ SpawnFails

ChildExitsRestarting ==
  /\ child # NoChild /\ proc[child].st = "exited"
  /\ proc' = [proc EXCEPT ![child] = NoProc]
  /\ child' = NoChild
  /\ ScheduleRestart
  /\ UNCHANGED <<watch, health, awake, stalled, faults>>

\* _onChildExit.
ChildExits ==
  /\ child # NoChild /\ proc[child].st = "exited"
  /\ proc' = [proc EXCEPT ![child] = NoProc]
  /\ child' = NoChild
  /\ IF mode = "stopping" THEN Finish /\ UNCHANGED budget ELSE ScheduleRestart
  /\ UNCHANGED <<watch, health, awake, stalled, faults>>

\* SIGTERM: a runtime that has not installed its handler dies of it.
Terminates(c) ==
  IF proc[c].st = "boot" THEN Exits(c)
  ELSE proc' = [proc EXCEPT ![c].term = Alive(c)]

\* The killTimer of _terminateChild and of stop; an earlier one runs on.
ArmKill == kill' = IF kill = Off THEN ShutdownGrace ELSE kill

KillFires ==
  /\ kill = 0
  /\ kill' = Off
  /\ IF Alive(child) THEN Exits(child) ELSE UNCHANGED proc
  /\ UNCHANGED <<mode, child, watch, restart, budget, health, awake, stalled, faults>>

\* stop: SIGINT or SIGTERM at the supervisor.
Stop ==
  /\ mode = "up"
  /\ IF child = NoChild
     THEN Finish /\ UNCHANGED proc
     ELSE /\ mode' = "stopping"
          /\ restart' = Off
          /\ Terminates(child) /\ ArmKill
  /\ UNCHANGED <<child, watch, budget, health, awake, stalled, faults>>

\* The supervisor is killed: its child lives on without a parent.
SupervisorDies ==
  /\ mode \in {"up", "stopping"} /\ Fault
  /\ mode' = "down" /\ child' = NoChild
  /\ watch' = NewWatch /\ kill' = Off /\ restart' = Off /\ budget' = <<>>
  /\ proc' = [c \in Slot |-> IF Alive(c) THEN [proc[c] EXCEPT !.ours = FALSE] ELSE NoProc]
  /\ UNCHANGED <<health, awake, stalled>>

-----------------------------------------------------------------------------
(* The health monitor.                                                     *)

\* evaluateRuntimeHealth of the record on disk.
Verdict ==
  IF health.run # child
  THEN IF watch.age > ReadyTimeout THEN "no-health" ELSE "wait"
  ELSE IF health.state \in {"fatal", "stopped"} THEN health.state
  ELSE IF health.age > HeartbeatStale THEN "heartbeat-stale"
  ELSE IF health.state = "starting" /\ watch.age > ReadyTimeout THEN "readiness-timeout"
  ELSE "wait"

Monitors(watched) ==
  /\ mode = "up" /\ child # NoChild /\ watch.phase = 0
  /\ watch' = [watched EXCEPT !.gap = 0, !.phase = MonitorEvery]
  /\ UNCHANGED <<mode, child, restart, budget, health, faults>>

Frozen == watch.gap > SuspendGap

\* A gap longer than any monitor interval is a sleep, and not held against
\* the runtime.
MonitorRebases ==
  LET slept == watch.gap - MonitorEvery
  IN
  /\ Frozen
  /\ Monitors([watch EXCEPT !.age = Larger(0, @ - slept),
                            !.stale = IF @ = Off THEN Off ELSE Larger(0, @ - slept),
                            !.grace = ResumeGrace])
  /\ UNCHANGED <<kill, proc, stalled, awake>>

MonitorGrants ==
  /\ ~Frozen /\ watch.grace > 0
  /\ Monitors(watch)
  /\ UNCHANGED <<kill, proc, stalled, awake>>

Judges == ~Frozen /\ watch.grace = 0

MonitorContent ==
  /\ Judges /\ Verdict = "wait"
  /\ Monitors([watch EXCEPT !.stale = Off])
  /\ stalled' = {c \in stalled : c # child \/ proc[c].hung}
  /\ awake' = TRUE
  /\ UNCHANGED <<kill, proc>>

\* A stale heartbeat is confirmed for a while, if so configured.
MonitorSuspects ==
  /\ Judges /\ Verdict = "heartbeat-stale" /\ StaleConfirm > 0
  /\ watch.stale < StaleConfirm
  /\ Monitors([watch EXCEPT !.stale = IF @ = Off THEN 0 ELSE @])
  /\ UNCHANGED <<kill, proc, stalled, awake>>

MonitorTerminatesOnly ==
  /\ Judges /\ Verdict # "wait"
  /\ Verdict = "heartbeat-stale" /\ StaleConfirm > 0 => watch.stale >= StaleConfirm
  /\ Monitors([watch EXCEPT !.terminating = TRUE])
  /\ Terminates(child)
  /\ UNCHANGED <<kill, stalled, awake>>

\* _terminateChild, which does nothing the second time.
MonitorTerminates ==
  /\ Judges /\ Verdict # "wait"
  /\ Verdict = "heartbeat-stale" /\ StaleConfirm > 0 => watch.stale >= StaleConfirm
  /\ Monitors([watch EXCEPT !.terminating = TRUE])
  /\ IF watch.terminating THEN UNCHANGED <<kill, proc>> ELSE Terminates(child) /\ ArmKill
  /\ UNCHANGED <<stalled, awake>>

-----------------------------------------------------------------------------
(* Time.                                                                   *)

\* What a responsive process does before time goes on.
RuntimeDue(c) ==
  /\ ~proc[c].hung
  /\ \/ proc[c].st \in {"boot", "starting"} /\ ~proc[c].slow
     \/ Running(c) /\ proc[c].beat = 0
     \/ Alive(c) /\ proc[c].term
SupervisorDue ==
  \/ mode = "up" /\ child # NoChild /\ watch.phase = 0
  \/ kill = 0 \/ restart = 0
  \/ child # NoChild /\ proc[child].st = "exited"

\* The wall clock goes on by n, the timers by k.
Elapse(n, k) ==
  /\ watch' = [watch EXCEPT !.age = Smaller(@ + n, AgeBound), !.gap = Smaller(@ + n, GapBound),
                            !.grace = Larger(@ - n, 0), !.phase = Larger(@ - k, 0),
                            !.stale = IF @ = Off THEN Off ELSE Smaller(@ + n, StaleBound)]
  /\ kill' = IF kill = Off THEN Off ELSE Larger(kill - k, 0)
  /\ restart' = IF restart = Off THEN Off ELSE Larger(restart - k, 0)
  /\ budget' = SelectSeq([i \in 1 .. Len(budget) |-> budget[i] + n], LAMBDA age : age <= RestartWindow)
  /\ proc' = [c \in Slot |-> [proc[c] EXCEPT !.beat = Larger(@ - k, 0)]]
  /\ health' = [health EXCEPT !.age = Smaller(@ + n, HealthBound)]
  /\ UNCHANGED <<mode, child, stalled>>

Tick ==
  /\ ~SupervisorDue /\ \A c \in Slot : ~RuntimeDue(c)
  /\ mode # "finished" \/ \E c \in Slot : Alive(c)
  /\ Elapse(1, 1)
  /\ awake' = (awake \/ child = NoChild)
  /\ UNCHANGED faults

\* The machine sleeps or is frozen; the timers stand still or are overdue.
\* Between two sleeps the machine is awake until the monitor is content.
Sleep ==
  /\ awake /\ Fault
  /\ \E n \in Sleeps, k \in {0, 1} : Elapse(n, k * n)
  /\ awake' = FALSE

-----------------------------------------------------------------------------
SupervisorActs ==
  \/ RestartFires \/ ChildExits \/ KillFires
  \/ MonitorRebases \/ MonitorGrants \/ MonitorContent \/ MonitorSuspects \/ MonitorTerminates

RuntimeActs(c) ==
  Boot(c) \/ (BecomesReady(c) /\ ~proc[c].slow) \/ Beats(c) \/ HandlesTerm(c) \/ Drains(c)

Next ==
  \/ Tick \/ Sleep \/ HostStarts \/ SupervisorActs \/ Stop \/ SupervisorDies
  \/ \E c \in Slot : RuntimeActs(c) \/ BecomesReady(c) \/ LoopRecovers(c) \/ Fails(c) \/ Hangs(c)

Spec == Init /\ [][Next]_vars

\* Time passes, due timers and exit events are handled, booting runtimes get
\* on unless they are slow, and the host starts the supervisor.
FairSpec ==
  /\ Spec
  /\ WF_vars(Tick) /\ WF_vars(HostStarts) /\ WF_vars(SupervisorActs)
  /\ \A c \in Slot : WF_vars(RuntimeActs(c))

-----------------------------------------------------------------------------
(* Properties.                                                             *)

\* Every variable keeps its shape, no countdown or age leaves its range, and no
\* timer of an earlier run is left.
TypeOK ==
  /\ mode \in {"down", "up", "stopping", "finished"}
  /\ child \in Slot \cup {NoChild}
  /\ watch \in [age : 0 .. AgeBound, gap : 0 .. GapBound, phase : 0 .. MonitorEvery,
                 grace : 0 .. ResumeGrace, stale : Off .. StaleBound, terminating : BOOLEAN]
  /\ kill \in Off .. ShutdownGrace
  /\ restart \in Off .. RestartMax
  /\ budget \in Seq(0 .. RestartWindow) /\ Len(budget) <= MaxRestarts + 1
  /\ proc \in [Slot -> [st : {"none", "boot", "starting", "ready", "lingering", "exited"},
                         ours : BOOLEAN, hung : BOOLEAN, slow : BOOLEAN,
                         beat : 0 .. HeartbeatEvery, term : BOOLEAN]]
  /\ health \in [run : Slot \cup {NoChild}, state : {"starting", "ready", "fatal", "stopped"},
                  age : 0 .. HealthBound]
  /\ child # NoChild => restart = Off
  /\ child = NoChild => kill = Off
  /\ awake \in BOOLEAN /\ stalled \subseteq Slot /\ faults \in 0 .. MaxFaults

\* The supervisor starts no runtime beside a live one of its own, and leaves
\* none behind when it gives up or stops and releases its lock to the tools.
NoRuntimeLeftBehind ==
  \A c \in Slot : Alive(c) /\ proc[c].ours => child = c /\ mode \in {"up", "stopping"}

\* A runtime is sent SIGTERM for a stale heartbeat only if its event loop hung
\* since the monitor last found it in health, never because the machine slept.
OnlyStalledIsKilled ==
  [][\A c \in Slot :
       ~proc[c].term /\ proc'[c].term /\ mode' = "up" /\ Verdict = "heartbeat-stale"
         => c \in stalled]_vars

\* After the last fault the system comes to a runtime that is ready and stays
\* so, whatever hung, died, was refused or slept before, unless the supervisor
\* has ended.
Recovers ==
  <>[](mode = "finished" \/ (child # NoChild /\ proc[child].st = "ready" /\ ~proc[child].hung))

\* A stop comes to an end, even if the runtime hangs.
StopEnds == mode = "stopping" ~> mode \in {"finished", "down"}

\* A runtime without its supervisor ends, unless its event loop hangs.
OrphansEnd ==
  \A c \in Slot : Alive(c) /\ ~proc[c].ours ~> ~Alive(c) \/ proc[c].ours \/ proc[c].hung

=============================================================================

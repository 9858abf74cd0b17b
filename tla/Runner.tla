-------------------------------- MODULE Runner ------------------------------
(***************************************************************************)
(* internal/runner: runner.Run starts the agent and returns when it is     *)
(* over, so that the session can clean up; until then it hands on the      *)
(* signals aig gets. A binary is a child of aig, and cmd.Wait tells of its *)
(* end. An application bundle is started by LaunchServices; its process is *)
(* looked up with pgrep, which gives the newest one with the path of the   *)
(* binary, and polled. The context Run is given is never cancelled before  *)
(* Run returns.                                                            *)
(*                                                                         *)
(* The agent, the system and an instance of the application the user had   *)
(* open before ("other") are the environment.                              *)
(***************************************************************************)

VARIABLES
  target,   \* what args[0] is
  runner,   \* where Run is
  agent,    \* the process started for this session
  other,    \* the other instance of the application
  watched,  \* the process Run waits for
  slot,     \* sigCh, which holds one signal
  told      \* the processes that were signalled

runnerVars == <<target, runner, agent, other, watched, slot, told>>

Processes == {"agent", "other"}
Lives == {"absent", "launched", "running", "over"}

RunnerTypeOK ==
  /\ target \in {"binary", "app"}
  /\ runner \in {"start", "locate", "started", "watch", "returned", "killed"}
  /\ agent \in Lives /\ other \in {"absent", "running", "over"}
  /\ watched \in Processes \cup {"none"}
  /\ slot \in BOOLEAN
  /\ told \subseteq Processes

RunnerInit ==
  /\ target \in {"binary", "app"}
  /\ runner = "start"
  /\ agent = "absent"
  /\ other \in IF target = "app" THEN {"absent", "running"} ELSE {"absent"}
  /\ watched = "none"
  /\ slot = FALSE
  /\ told = {}

Life(p) == CASE p = "agent" -> agent [] p = "other" -> other [] OTHER -> "absent"
Tell(p) == told' = IF Life(p) = "running" THEN told \cup {p} ELSE told

-----------------------------------------------------------------------------
(* The processes                                                           *)

\* LaunchServices has started the application: pgrep can see it.
AgentAppears ==
  /\ agent = "launched"
  /\ agent' = "running"
  /\ UNCHANGED <<target, runner, other, watched, slot, told>>

AgentExits ==
  /\ agent = "running"
  /\ agent' = "over"
  /\ UNCHANGED <<target, runner, other, watched, slot, told>>

OtherExits ==
  /\ other = "running"
  /\ other' = "over"
  /\ UNCHANGED <<target, runner, agent, watched, slot, told>>

\* Ctrl-C goes to a child too, which shares the terminal.
ReachesChild == UNCHANGED told \/ (target = "binary" /\ Tell("agent"))

\* aig gets a signal while signal.Notify is on. One that finds the slot taken
\* is dropped.
Interrupt ==
  /\ runner = "watch"
  /\ slot' = TRUE
  /\ ReachesChild
  /\ UNCHANGED <<target, runner, agent, other, watched>>

\* Before signal.Notify a signal ends aig itself.
InterruptUnheard ==
  /\ runner \in {"start", "locate", "started"}
  /\ runner' = "killed"
  /\ ReachesChild
  /\ UNCHANGED <<target, agent, other, watched, slot>>

-----------------------------------------------------------------------------
(* runBinary, runAppBundle                                                 *)

\* cmd.Start, or open: the application comes later.
Start ==
  /\ runner = "start"
  /\ IF target = "binary"
     THEN runner' = "started" /\ agent' = "running" /\ watched' = "agent"
     ELSE runner' = "locate" /\ agent' = "launched" /\ UNCHANGED watched
  /\ UNCHANGED <<target, other, slot, told>>

StartFails ==
  /\ runner = "start"
  /\ runner' = "returned"
  /\ UNCHANGED <<target, agent, other, watched, slot, told>>

\* findRunningPID: the newest process that runs.
Newest == IF agent = "running" THEN "agent" ELSE "other"

Locate ==
  /\ runner = "locate"
  /\ Life(Newest) = "running"
  /\ runner' = "started" /\ watched' = Newest
  /\ UNCHANGED <<target, agent, other, slot, told>>

\* Nothing was found in five seconds.
LocateTimesOut ==
  /\ runner = "locate"
  /\ runner' = "returned"
  /\ UNCHANGED <<target, agent, other, watched, slot, told>>

\* signal.Notify.
Listen ==
  /\ runner = "started"
  /\ runner' = "watch"
  /\ UNCHANGED <<target, agent, other, watched, slot, told>>

\* Run that leaves the loop with the signal.
Forward_AndReturn ==
  /\ runner = "watch" /\ slot
  /\ slot' = FALSE /\ runner' = "returned"
  /\ Tell(watched)
  /\ UNCHANGED <<target, agent, other, watched>>

\* Run that takes the signal and hands it to nobody.
Forward_Nothing ==
  /\ runner = "watch" /\ slot
  /\ slot' = FALSE
  /\ UNCHANGED <<target, runner, agent, other, watched, told>>

\* The signal is handed on, and Run goes on waiting.
Forward ==
  /\ runner = "watch" /\ slot
  /\ slot' = FALSE
  /\ Tell(watched)
  /\ UNCHANGED <<target, runner, agent, other, watched>>

\* cmd.Wait, or a poll with kill(pid, 0) that fails.
WatchedIsOver ==
  /\ runner = "watch"
  /\ Life(watched) = "over"
  /\ runner' = "returned"
  /\ UNCHANGED <<target, agent, other, watched, slot, told>>

RunStep ==
  Start \/ StartFails \/ Locate \/ LocateTimesOut \/ Listen \/ Forward \/ WatchedIsOver

RunnerNext ==
  \/ AgentAppears \/ AgentExits \/ OtherExits
  \/ Interrupt \/ InterruptUnheard
  \/ RunStep

RunnerSpec == RunnerInit /\ [][RunnerNext]_runnerVars

(* Run goes on, and its select does not choose the signals for ever. A     *)
(* process that was signalled exits; nothing else obliges one to.          *)
FairRunnerSpec ==
  /\ RunnerSpec
  /\ WF_runnerVars(RunStep) /\ WF_runnerVars(WatchedIsOver)
  /\ WF_runnerVars("agent" \in told /\ AgentExits)
  /\ WF_runnerVars("other" \in told /\ OtherExits)

-----------------------------------------------------------------------------
(* Properties                                                              *)

(* runner.go "then waits for it to exit so the calling session can clean   *)
(* up": Run does not return, and the session does not close the store and  *)
(* the proxy, while the agent runs or is about to. Only of an application  *)
(* may it, when pgrep named another process, or none in time.              *)
RunOutlivesAgent ==
  runner = "returned" /\ agent \in {"launched", "running"} =>
    target = "app" /\ watched # "agent"

(* The inductive invariant behind it: a binary is alone and is the process *)
(* Run watches, and Run watches nothing before it has located something.   *)
BinaryAt ==
  target = "binary" =>
    /\ other = "absent" /\ agent # "launched"
    /\ runner \in {"started", "watch"} => watched = "agent"

WatchedAt ==
  /\ runner = "start" => agent = "absent"
  /\ runner = "locate" => target = "app"
  /\ runner \in {"start", "locate"} => watched = "none"

RunnerInv == RunnerTypeOK /\ BinaryAt /\ WatchedAt /\ RunOutlivesAgent

(* A signal Run listened for ends it in order: the signal is handed on,    *)
(* the process exits, Run returns, and the session flushes the store.      *)
InterruptEndsRun == slot ~> runner = "returned"
=============================================================================

----------------------------- MODULE BenchHarness -----------------------------
(***************************************************************************)
(* One call of BenchmarkHarness.measure, src/bench/harness.ts: the server  *)
(* it starts for the application under test, the samples it takes, and how *)
(* it stops the server whatever has happened.                              *)
(*                                                                         *)
(* The server is a process group: its leader, which is the shell or, when  *)
(* the shell has exec'ed its command, the application; and the application.*)
(* The port was free when it was looked for; between that and the          *)
(* application's bind another process may take it.                         *)
(*                                                                         *)
(* Simplifications: POSIX; a sample is a value; a command that fails,      *)
(* times out, prints no result or another metric is one failure.           *)
(***************************************************************************)
EXTENDS Naturals, Sequences

CONSTANTS
  Values,    \* measured values
  Samples    \* samples per measurement (config.benchmark.samples)

ASSUME HarnessAssumption == Values \subseteq Nat /\ Samples \in Nat /\ Samples >= 3

VARIABLES
  stage,      \* where measure is
  leader,     \* "none", "up", "exited" (with a code), "signalled" (without)
  app,        \* "none", "up", "bound" (it answers on the port), "gone"
  server,     \* how the application was started
  taken,      \* another process has the port
  samples     \* values so far; <<>> after a failure

harnessVars == <<stage, leader, app, server, taken, samples>>

NoServer == [execs |-> FALSE, stubborn |-> FALSE]

HarnessInit ==
  /\ stage = "idle" /\ leader = "none" /\ app = "none"
  /\ server = NoServer /\ taken = FALSE /\ samples = <<>>

To(from, to) == stage = from /\ stage' = to

\* The set-up command, then the server if there is one, then the warm-up.
SetUp ==
  /\ stage = "idle" /\ stage' \in {"port", "warm"}
  /\ UNCHANGED <<leader, app, server, taken, samples>>

\* execa with detached: leader and application are in one group.  The
\* application may be deaf to SIGTERM (stubborn).
StartServer ==
  /\ To("port", "wait")
  /\ leader' = "up" /\ app' = "up"
  /\ server' \in [execs : BOOLEAN, stubborn : BOOLEAN]
  /\ UNCHANGED <<taken, samples>>

Working == stage \in {"wait", "warm", "sample"}

Bind ==
  /\ Working /\ app = "up" /\ ~taken
  /\ app' = "bound"
  /\ UNCHANGED <<stage, leader, server, taken, samples>>

PortTaken ==
  /\ stage \in {"port", "wait"} /\ app # "bound" /\ ~taken
  /\ taken' = TRUE
  /\ UNCHANGED <<stage, leader, app, server, samples>>

\* The application ends, and the shell that waited for it: with a code.
ServerEnds ==
  /\ Working /\ app \in {"up", "bound"}
  /\ app' = "gone" /\ leader' = IF leader = "up" THEN "exited" ELSE leader
  /\ UNCHANGED <<stage, server, taken, samples>>

\* The shell had started it in the background.
ShellEnds ==
  /\ Working /\ leader = "up" /\ ~server.execs
  /\ leader' = "exited"
  /\ UNCHANGED <<stage, app, server, taken, samples>>

\* waitReady: an exit code is an error, an answer on the port is readiness,
\* whoever gives it.
Ready ==
  /\ (app = "bound" \/ taken) /\ leader # "exited"
  /\ To("wait", "warm")
  /\ UNCHANGED <<leader, app, server, taken, samples>>

Warm ==
  /\ To("warm", "sample")
  /\ UNCHANGED <<leader, app, server, taken, samples>>

\* resetCmd and sampleCmd.
TakeSample ==
  /\ stage = "sample" /\ Len(samples) < Samples
  /\ \E v \in Values : samples' = Append(samples, v)
  /\ UNCHANGED <<stage, leader, app, server, taken>>

\* An exception: the exit code or the deadline of waitReady, or a command.
Fail ==
  /\ stage \in {"idle", "port"} \/ Working
  /\ Len(samples) < Samples
  /\ samples' = <<>> /\ stage' = IF leader = "none" THEN "ended" ELSE "term"
  /\ UNCHANGED <<leader, app, server, taken>>

Measured ==
  /\ Len(samples) = Samples
  /\ To("sample", IF leader = "none" THEN "ended" ELSE "term")
  /\ UNCHANGED <<leader, app, server, taken, samples>>

\* stopProcess: SIGTERM to the group.  Who handles it exits with a code.
Terminate ==
  /\ To("term", "kill")
  /\ app' = IF server.stubborn THEN app ELSE "gone"
  /\ leader' \in IF leader # "up" \/ (server.execs /\ server.stubborn) THEN {leader}
                 ELSE {"exited", "signalled"}
  /\ UNCHANGED <<server, taken, samples>>

\* Mutant of ForceKill: the leader alone is killed.
ForceKillLeader ==
  /\ To("kill", "ended")
  /\ IF leader # "exited"
       THEN leader' = "signalled" /\ app' = IF server.execs THEN "gone" ELSE app
       ELSE UNCHANGED <<leader, app>>
  /\ UNCHANGED <<server, taken, samples>>

\* Mutant of ForceKill: the end of the streams is awaited without a limit.
ForceKillWaiting ==
  /\ To("kill", "ended")
  /\ IF leader # "exited" THEN leader' = "signalled" /\ app' = "gone"
     ELSE app = "gone" /\ UNCHANGED <<leader, app>>
  /\ UNCHANGED <<server, taken, samples>>

\* Two seconds later at most: SIGKILL to the group, unless the leader has left
\* an exit code.  The end of the streams is awaited for two seconds.
ForceKill ==
  /\ To("kill", "ended")
  /\ IF leader # "exited" THEN leader' = "signalled" /\ app' = "gone"
     ELSE UNCHANGED <<leader, app>>
  /\ UNCHANGED <<server, taken, samples>>

MeasureStep ==
  \/ SetUp \/ StartServer \/ Ready \/ Warm \/ TakeSample \/ Fail \/ Measured
  \/ Terminate \/ ForceKill

Environment == Bind \/ PortTaken \/ ServerEnds \/ ShellEnds

-----------------------------------------------------------------------------
(* Properties *)

\* However a measurement ends, at any stage of the application's start, no
\* application is left running; but for one that ignores SIGTERM and whose
\* shell had an exit code, so that SIGKILL was not sent.
ServersStopped ==
  stage = "ended" =>
    app \in {"none", "gone"} \/ (leader = "exited" /\ server.stubborn)

=============================================================================

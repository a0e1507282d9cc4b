-------------------------- MODULE Lifecycle_proofs --------------------------
(***************************************************************************)
(* Proofs about Lifecycle, for every set of configurations and number of   *)
(* launches and starts.  ProcessInv says which process can be alive for    *)
(* each place of the daemon; ConfigInv and ReceptionInv rest on it.        *)
(***************************************************************************)
EXTENDS Lifecycle, TLAPS

\* A launch is still to come for the command the daemon handles.
WillLaunch ==
  \/ daemon \in {"open", "write", "launch"}
  \/ daemon \in {"end", "wait"} /\ after = "launch"

\* The file is empty while the daemon has it open, and no launch is handled
\* that the bound excludes.
TypeInv ==
  /\ TypeOK
  /\ daemon = "write" => file = Empty
  /\ WillLaunch => launches < MaxLaunches

\* Only the last process launched can be alive, the daemon knows it unless it
\* is just launching it or has gone, and none is when the next one is launched.
ProcessInv ==
  /\ \A c \in Child : Alive(c) =>
       c = launches /\ (daemon \in {"down", "assign"} \/ child_proc = c)
  /\ daemon = "launch" => \A c \in Child : ~Alive(c)

\* What a process has loaded or will load is the last configuration, while the
\* daemon is not writing or ending it.
ConfigInv ==
  /\ daemon \in {"recv", "open", "assign"} /\ ~unwritten =>
       \A c \in Child :
         /\ stage[c] = "boot" => file = asked
         /\ stage[c] \in Program \ {"boot"} => cfg[c] = asked
  /\ daemon = "launch" \/ (daemon \in {"end", "wait"} /\ after = "launch")
       => file = asked /\ ~unwritten
  /\ \A c \in Child :
       stage[c] \in {"receive", "dma", "stream"} => trx.cfg = cfg[c]

\* The SPI device is open from spi_init on.
ReceptionInv ==
  /\ ReceivesForProgram
  /\ \A c \in Child :
       stage[c] \in {"reset", "configure", "receive", "dma", "stream"}
         => spi_open[c]

-----------------------------------------------------------------------------
\* The invariants hold at the start.
LEMMA Initially == Init => TypeInv /\ ProcessInv /\ ConfigInv /\ ReceptionInv
<1> SUFFICES ASSUME Init
             PROVE  TypeInv /\ ProcessInv /\ ConfigInv /\ ReceptionInv
  OBVIOUS
<1> USE LifecycleAssumption DEF Init, Child
<1>1. TypeInv
  <2>1. /\ trx \in [rx : BOOLEAN, cfg : Settings]
        /\ file \in Settings /\ asked \in Settings /\ wanted \in Settings
        /\ unwritten \in BOOLEAN /\ abandoned \in BOOLEAN
    BY DEF Settings
  <2>2. /\ stage \in [Child -> Stages] /\ cfg \in [Child -> Settings]
        /\ spi_open \in [Child -> BOOLEAN] /\ sigterm \in [Child -> BOOLEAN]
    BY DEF Stages, Settings
  <2>3. /\ child_proc \in 0 .. launches
        /\ launches \in 0 .. MaxLaunches /\ starts \in 0 .. MaxStarts
        /\ \A c \in Child : stage[c] = "none" <=> c > launches
    OBVIOUS
  <2>4. daemon = "down" /\ after = "recv"
    OBVIOUS
  <2>5. QED
    BY ONLY <2>1, <2>2, <2>3, <2>4 DEF TypeInv, TypeOK, WillLaunch
<1>2. ProcessInv
  BY DEF ProcessInv, Alive
<1>3. ConfigInv
  BY DEF ConfigInv, Program
<1>4. ReceptionInv
  BY DEF ReceptionInv, ReceivesForProgram
<1>5. QED
  BY <1>1, <1>2, <1>3, <1>4

\* A process the daemon knows of is one of the model's.
LEMMA TrackedIsChild == TypeOK /\ Tracked => child_proc \in Child
  BY LifecycleAssumption DEF TypeOK, Tracked, Child

\* A step of a process changes its own entries, within their types, and
\* the transceiver; the process was launched before.
LEMMA RunType ==
  ASSUME TypeInv, NEW c \in Child, Run(c) \/ Crash(c) \/ TakeTerm(c) \/ KillRest(c)
  PROVE  TypeInv'
<1> USE DEF Alive, Goto
<1>1. stage[c] # "none" /\ UNCHANGED <<daemonVars, fileVars, countVars>>
  BY DEF Run, Crash, TakeTerm, KillRest, LoadConfig, InstallHandlers, OpenSpi,
         ResetTransceiver, Configure, Receive, InitDma, HandlerReset, HandlerExit
<1>2. /\ stage' \in [Child -> Stages] /\ stage'[c] # "none"
      /\ \A d \in Child \ {c} : stage'[d] = stage[d]
  BY DEF Run, Crash, TakeTerm, KillRest, LoadConfig, InstallHandlers, OpenSpi,
         ResetTransceiver, Configure, Receive, InitDma, HandlerReset, HandlerExit,
         AfterHandler, TypeInv, TypeOK, Stages, Program, Handler
<1>3. /\ cfg' \in [Child -> Settings]
      /\ spi_open' \in [Child -> BOOLEAN] /\ sigterm' \in [Child -> BOOLEAN]
  BY DEF Run, Crash, TakeTerm, KillRest, LoadConfig, InstallHandlers, OpenSpi,
         ResetTransceiver, Configure, Receive, InitDma, HandlerReset, HandlerExit,
         TypeInv, TypeOK
<1>4. trx' \in [rx : BOOLEAN, cfg : Settings]
  <2>1. trx \in [rx : BOOLEAN, cfg : Settings] /\ cfg[c] \in Settings
    BY DEF TypeInv, TypeOK
  <2>2. CASE Reset
    BY <2>2 DEF Reset, Settings
  <2>3. CASE Configure(c)
    BY <2>1, <2>3 DEF Configure
  <2>4. CASE Receive(c)
    BY <2>1, <2>4 DEF Receive
  <2>5. CASE UNCHANGED trx
    BY <2>1, <2>5
  <2>6. QED
    BY <2>2, <2>3, <2>4, <2>5
       DEF Run, Crash, TakeTerm, KillRest, LoadConfig, InstallHandlers, OpenSpi,
           ResetTransceiver, InitDma, HandlerReset, HandlerExit, trxVars
<1>5. abandoned' \in BOOLEAN
  BY DEF Run, Crash, TakeTerm, KillRest, LoadConfig, InstallHandlers, OpenSpi,
         ResetTransceiver, Configure, Receive, InitDma, HandlerReset, HandlerExit,
         TypeInv, TypeOK, Reset, trxVars
<1>6. \A d \in Child : stage'[d] = "none" <=> d > launches
  BY <1>1, <1>2 DEF TypeInv, TypeOK
<1>7. QED
  BY <1>1, <1>2, <1>3, <1>4, <1>5, <1>6
     DEF TypeInv, TypeOK, WillLaunch, daemonVars, fileVars, countVars

\* Every step keeps the types.
LEMMA TypeStep == TypeInv /\ [Next]_vars => TypeInv'
<1> SUFFICES ASSUME TypeInv, [Next]_vars
             PROVE  TypeInv'
  OBVIOUS
<1> USE LifecycleAssumption
<1> USE DEF trxVars, fileVars, countVars, childVars
<1>1. CASE ReceiveConfig
  BY <1>1 DEF ReceiveConfig, TypeInv, TypeOK, WillLaunch, Settings
<1>2. CASE ReceiveStop
  BY <1>2 DEF ReceiveStop, TypeInv, TypeOK, WillLaunch
<1>3. CASE OpenFile
  BY <1>3 DEF OpenFile, Opened, TypeInv, TypeOK, WillLaunch, Settings
<1>4. CASE WriteFile
  BY <1>4 DEF WriteFile, Flushed, TypeInv, TypeOK, WillLaunch
<1>5. CASE EndChild
  <2>1. sigterm' \in [Child -> BOOLEAN]
    BY <1>5 DEF EndChild, Terminate, TypeInv, TypeOK
  <2>2. QED
    BY <1>5, <2>1 DEF EndChild, TypeInv, TypeOK, WillLaunch
<1>6. CASE Wait
  BY <1>6 DEF Wait, TypeInv, TypeOK, WillLaunch
<1>7. CASE Launch
  <2>1. launches + 1 \in Child /\ launches \in Nat
    BY <1>7 DEF Launch, TypeInv, TypeOK, WillLaunch, Child
  <2>2. CASE Goto(launches + 1, "boot") /\ launches' = launches + 1
    <3>1. /\ stage' \in [Child -> Stages]
          /\ \A c \in Child : stage'[c] = "none" <=> c > launches'
      BY <2>1, <2>2 DEF Goto, TypeInv, TypeOK, Stages, Program, Child
    <3>2. QED
      BY <1>7, <2>1, <2>2, <3>1 DEF Launch, TypeInv, TypeOK, WillLaunch, Child
  <2>3. CASE daemon' = "recv" /\ UNCHANGED <<launches, stage>>
    BY <1>7, <2>3 DEF Launch, TypeInv, TypeOK, WillLaunch
  <2>4. QED
    BY <1>7, <2>2, <2>3 DEF Launch
<1>8. CASE Assign
  BY <1>8 DEF Assign, TypeInv, TypeOK, WillLaunch
<1>9. CASE Undecodable
  BY <1>9 DEF Undecodable, TypeInv, TypeOK, WillLaunch
<1>10. CASE HandleShutdown
  <2>1. sigterm' \in [Child -> BOOLEAN]
    BY <1>10 DEF HandleShutdown, Terminate, TypeInv, TypeOK
  <2>2. file' \in Settings
    BY <1>10 DEF HandleShutdown, Flushed, TypeInv, TypeOK
  <2>3. QED
    BY <1>10, <2>1, <2>2 DEF HandleShutdown, TypeInv, TypeOK, WillLaunch
<1>11. CASE StartService
  BY <1>11 DEF StartService, TypeInv, TypeOK, WillLaunch, Settings
<1>12. CASE \E c \in Child : KillRest(c) \/ Run(c) \/ Crash(c) \/ TakeTerm(c)
  BY <1>12, RunType
<1>13. CASE UNCHANGED vars
  BY <1>13 DEF vars, daemonVars, TypeInv, TypeOK, WillLaunch
<1>14. QED
  BY <1>1, <1>2, <1>3, <1>4, <1>5, <1>6, <1>7, <1>8, <1>9, <1>10, <1>11, <1>12,
     <1>13 DEF Next, Daemon

\* A step of a process that lives changes no other one and launches none.
LEMMA RunAlive ==
  ASSUME TypeInv, NEW c \in Child, Run(c) \/ Crash(c) \/ TakeTerm(c) \/ KillRest(c)
  PROVE  /\ Alive(c) /\ \A d \in Child \ {c} : stage'[d] = stage[d]
         /\ UNCHANGED <<daemonVars, fileVars, countVars>>
BY DEF Run, Crash, TakeTerm, KillRest, LoadConfig, InstallHandlers, OpenSpi,
       ResetTransceiver, Configure, Receive, InitDma, HandlerReset, HandlerExit,
       Goto, TypeInv, TypeOK, Alive

\* Every step keeps ProcessInv.
LEMMA ProcessStep == TypeInv /\ ProcessInv /\ [Next]_vars => ProcessInv'
<1> SUFFICES ASSUME TypeInv, ProcessInv, [Next]_vars
             PROVE  ProcessInv'
  OBVIOUS
<1> USE DEF trxVars, fileVars, countVars, childVars, ProcessInv, Alive
<1>1. CASE ReceiveConfig
  BY <1>1 DEF ReceiveConfig
<1>2. CASE ReceiveStop
  BY <1>2 DEF ReceiveStop
<1>3. CASE OpenFile
  BY <1>3 DEF OpenFile
<1>4. CASE WriteFile
  BY <1>4 DEF WriteFile
<1>5. CASE EndChild
  BY <1>5, LifecycleAssumption DEF EndChild, Tracked, TypeInv, TypeOK, Child
<1>6. CASE Wait
  BY <1>6, LifecycleAssumption DEF Wait, WaitOver, Tracked, TypeInv, TypeOK, Child
<1>7. CASE Launch
  BY <1>7 DEF Launch, Goto, TypeInv, TypeOK, Child
<1>8. CASE Assign
  BY <1>8 DEF Assign
<1>9. CASE Undecodable
  BY <1>9 DEF Undecodable
<1>10. CASE HandleShutdown
  BY <1>10 DEF HandleShutdown
<1>11. CASE StartService
  BY <1>11 DEF StartService
<1>12. CASE \E c \in Child : KillRest(c) \/ Run(c) \/ Crash(c) \/ TakeTerm(c)
  BY <1>12, RunAlive DEF daemonVars
<1>13. CASE UNCHANGED vars
  BY <1>13 DEF vars, daemonVars
<1>14. QED
  BY <1>1, <1>2, <1>3, <1>4, <1>5, <1>6, <1>7, <1>8, <1>9, <1>10, <1>11, <1>12,
     <1>13 DEF Next, Daemon

\* When no process is alive ConfigInv asks nothing of them.
LEMMA NoneConfigured ==
  ASSUME NEW c \in Child, ~Alive(c)
  PROVE  stage[c] \notin Program
BY DEF Alive, Program

\* A step of a process keeps ConfigInv: it loads the file as it stands and
\* writes what it has loaded to the transceiver, alone.
LEMMA RunConfig ==
  ASSUME TypeInv, ProcessInv, ConfigInv,
         NEW c \in Child, Run(c) \/ Crash(c) \/ TakeTerm(c) \/ KillRest(c)
  PROVE  ConfigInv'
<1> USE DEF Alive, Goto, trxVars
<1>1. /\ UNCHANGED <<daemonVars, fileVars, countVars>>
      /\ \A d \in Child \ {c} : stage'[d] = stage[d] /\ stage[d] \notin Program
  <2>1. Alive(c) /\ \A d \in Child \ {c} : stage'[d] = stage[d]
    BY RunAlive
  <2>2. \A d \in Child \ {c} : ~Alive(d)
    BY <2>1 DEF ProcessInv
  <2>3. QED
    BY <2>1, <2>2, RunAlive, NoneConfigured
<1>2. stage[c] \in Stages /\ stage'[c] \in Stages
  BY RunType DEF TypeInv, TypeOK
<1>3. stage'[c] # "boot"
  BY DEF Run, Crash, TakeTerm, KillRest, LoadConfig, InstallHandlers, OpenSpi,
         ResetTransceiver, Configure, Receive, InitDma, HandlerReset, HandlerExit,
         AfterHandler, TypeInv, TypeOK
<1>4. stage'[c] \in Program \ {"boot"} =>
        \/ stage[c] = "boot" /\ cfg'[c] = file
        \/ stage[c] \in Program \ {"boot"} /\ cfg'[c] = cfg[c]
  BY DEF Run, Crash, TakeTerm, KillRest, LoadConfig, InstallHandlers, OpenSpi,
         ResetTransceiver, Configure, Receive, InitDma, HandlerReset, HandlerExit,
         AfterHandler, TypeInv, TypeOK, Program
<1>5. stage'[c] \in {"receive", "dma", "stream"} => trx'.cfg = cfg'[c]
  BY DEF Run, Crash, TakeTerm, KillRest, LoadConfig, InstallHandlers, OpenSpi,
         ResetTransceiver, Configure, Receive, InitDma, HandlerReset, HandlerExit,
         AfterHandler, TypeInv, TypeOK, ConfigInv
<1>6. QED
  BY <1>1, <1>3, <1>4, <1>5
     DEF ConfigInv, daemonVars, fileVars, countVars, Program

\* Every step keeps ConfigInv.
LEMMA ConfigStep == TypeInv /\ ProcessInv /\ ConfigInv /\ [Next]_vars => ConfigInv'
<1> SUFFICES ASSUME TypeInv, ProcessInv, ConfigInv, [Next]_vars
             PROVE  ConfigInv'
  OBVIOUS
<1> USE DEF trxVars, fileVars, countVars, childVars, ConfigInv
<1>1. CASE ReceiveConfig
  BY <1>1 DEF ReceiveConfig
<1>2. CASE ReceiveStop
  BY <1>2 DEF ReceiveStop
<1>3. CASE OpenFile
  BY <1>3 DEF OpenFile
<1>4. CASE WriteFile
  BY <1>4 DEF WriteFile, Flushed, TypeInv
<1>5. CASE EndChild
  <2>1. ~Tracked => \A c \in Child : stage[c] \notin Program
    BY <1>5, LifecycleAssumption, NoneConfigured
       DEF EndChild, ProcessInv, Tracked, TypeInv, TypeOK, Child
  <2>2. QED
    BY <1>5, <2>1 DEF EndChild, Program, TypeInv, TypeOK
<1>6. CASE Wait
  <2>1. \A c \in Child : stage[c] \notin Program
    BY <1>6, LifecycleAssumption, NoneConfigured
       DEF Wait, WaitOver, ProcessInv, Tracked, TypeInv, TypeOK, Child
  <2>2. QED
    BY <1>6, <2>1 DEF Wait, Program, TypeInv, TypeOK
<1>7. CASE Launch
  <2>1. \A c \in Child : stage[c] \notin Program
    BY <1>7, NoneConfigured DEF Launch, ProcessInv
  <2>2. QED
    BY <1>7, <2>1 DEF Launch, Goto, Program, TypeInv, TypeOK, Child
<1>8. CASE Assign
  BY <1>8 DEF Assign
<1>9. CASE Undecodable
  BY <1>9 DEF Undecodable
<1>10. CASE HandleShutdown
  BY <1>10 DEF HandleShutdown
<1>11. CASE StartService
  <2>1. \A c \in Child : stage[c] \notin Program
    BY <1>11, NoneConfigured DEF StartService
  <2>2. QED
    BY <1>11, <2>1 DEF StartService, Program
<1>12. CASE \E c \in Child : KillRest(c) \/ Run(c) \/ Crash(c) \/ TakeTerm(c)
  BY <1>12, RunConfig
<1>13. CASE UNCHANGED vars
  BY <1>13 DEF vars, daemonVars
<1>14. QED
  BY <1>1, <1>2, <1>3, <1>4, <1>5, <1>6, <1>7, <1>8, <1>9, <1>10, <1>11, <1>12,
     <1>13 DEF Next, Daemon

\* A step of a process keeps ReceptionInv: only Receive turns the reception
\* on, and every way out of the stages behind it is accounted for.
LEMMA RunReception ==
  ASSUME TypeInv, ReceptionInv,
         NEW c \in Child, Run(c) \/ Crash(c) \/ TakeTerm(c) \/ KillRest(c)
  PROVE  ReceptionInv'
<1> USE DEF Goto, trxVars, Alive
<1>1. \A d \in Child \ {c} : stage'[d] = stage[d] /\ spi_open'[d] = spi_open[d]
  BY DEF Run, Crash, TakeTerm, KillRest, LoadConfig, InstallHandlers, OpenSpi,
         ResetTransceiver, Configure, Receive, InitDma, HandlerReset, HandlerExit,
         TypeInv, TypeOK
<1>2. stage'[c] \in {"reset", "configure", "receive", "dma", "stream"} => spi_open'[c]
  BY DEF Run, Crash, TakeTerm, KillRest, LoadConfig, InstallHandlers, OpenSpi,
         ResetTransceiver, Configure, Receive, InitDma, HandlerReset, HandlerExit,
         AfterHandler, TypeInv, TypeOK, ReceptionInv
<1>3. trx'.rx =>
        \/ abandoned'
        \/ stage'[c] \in {"dma", "stream", "handler"} /\ spi_open'[c]
        \/ /\ trx.rx /\ ~abandoned
           /\ ~(stage[c] \in {"dma", "stream", "handler"} /\ spi_open[c])
  BY DEF Run, Crash, TakeTerm, KillRest, LoadConfig, InstallHandlers, OpenSpi,
         ResetTransceiver, Reset, Configure, Receive, InitDma, HandlerReset,
         HandlerExit, TypeInv, TypeOK, ReceptionInv, Unhandled, Handler, Program
<1>4. QED
  BY <1>1, <1>2, <1>3 DEF ReceptionInv, ReceivesForProgram

\* Every step keeps ReceptionInv.
LEMMA ReceptionStep == TypeInv /\ ReceptionInv /\ [Next]_vars => ReceptionInv'
<1> SUFFICES ASSUME TypeInv, ReceptionInv, [Next]_vars
             PROVE  ReceptionInv'
  OBVIOUS
<1>1. CASE \E c \in Child : KillRest(c) \/ Run(c) \/ Crash(c) \/ TakeTerm(c)
  BY <1>1, RunReception
<1>2. CASE Launch
  <2>1. stage[launches + 1] = "none"
    <3>1. launches < MaxLaunches /\ launches \in Nat
      BY <1>2, LifecycleAssumption DEF Launch, TypeInv, TypeOK, WillLaunch
    <3>2. launches + 1 \in Child /\ launches + 1 > launches
      BY <3>1, LifecycleAssumption DEF Child
    <3>3. QED
      BY <3>2 DEF TypeInv, TypeOK
  <2>2. \A c \in Child : \/ stage'[c] = stage[c]
                         \/ stage[c] = "none" /\ stage'[c] = "boot"
    BY <1>2, <2>1 DEF Launch, Goto, TypeInv, TypeOK
  <2>3. QED
    BY <1>2, <2>2 DEF Launch, ReceptionInv, ReceivesForProgram, trxVars
<1>3. CASE UNCHANGED <<trx, abandoned, stage, spi_open>>
  BY <1>3 DEF ReceptionInv, ReceivesForProgram
<1>4. QED
  BY <1>1, <1>2, <1>3
     DEF Next, Daemon, ReceiveConfig, ReceiveStop, OpenFile, WriteFile, EndChild,
         Wait, Assign, Undecodable, HandleShutdown, StartService, vars, trxVars,
         childVars

\* All layers together are an inductive invariant of the specification.
THEOREM LifecycleCorrect ==
  Spec => [](TypeInv /\ ProcessInv /\ ConfigInv /\ ReceptionInv)
<1>1. /\ TypeInv /\ ProcessInv /\ ConfigInv /\ ReceptionInv /\ [Next]_vars
        => (TypeInv /\ ProcessInv /\ ConfigInv /\ ReceptionInv)'
  BY TypeStep, ProcessStep, ConfigStep, ReceptionStep
<1>2. QED
  BY Initially, <1>1, PTL DEF Spec

\* Every variable stays in its type and only launched processes exist.
THEOREM TypesCorrect == Spec => []TypeOK
<1>1. TypeInv => TypeOK
  BY DEF TypeInv
<1>2. QED
  BY <1>1, LifecycleCorrect, PTL

\* However many configurations arrive and wherever the service is stopped,
\* config_daemon.py and the service never have two programs on the engine.
THEOREM ProgramsExclusive == Spec => []OneProgram
<1>1. ProcessInv => OneProgram
  BY DEF ProcessInv, OneProgram
<1>2. QED
  BY <1>1, LifecycleCorrect, PTL

\* The program that streams when the daemon waits for a command was set up
\* with the last configuration written to config.txt.
THEOREM ConfigurationCorrect == Spec => []LatestConfiguration
<1>1. ConfigInv => LatestConfiguration
  BY DEF ConfigInv, LatestConfiguration, Program
<1>2. QED
  BY <1>1, LifecycleCorrect, PTL

\* The handler of main.c resets the transceiver wherever SIGTERM finds the
\* program.  What leaves it receiving without a program: a kill before that
\* reset, an error of dma_init, and a chunk that crashes dma_loop.
THEOREM ReceptionCorrect == Spec => []ReceivesForProgram
<1>1. ReceptionInv => ReceivesForProgram
  BY DEF ReceptionInv
<1>2. QED
  BY <1>1, LifecycleCorrect, PTL
=============================================================================

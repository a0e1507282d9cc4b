----------------------------- MODULE Lifecycle -----------------------------
(***************************************************************************)
(* Who runs the streaming program: config_daemon.py, its child processes,  *)
(* the systemd service around them, config.txt and the transceiver.  The   *)
(* daemon takes a configuration or STOP from the network, ends its child   *)
(* and launches the next one; main.c sets the transceiver up and resets it *)
(* in its signal handler.  Signals are delivered some time after they are  *)
(* sent, and the service may be stopped between any two steps.             *)
(***************************************************************************)
EXTENDS Naturals

CONSTANTS
  Configs,      \* configurations a client may send
  Oversized,    \* those with a chunk_bytes that dma_loop does not survive
  Empty,        \* a config.txt without settings: the program's defaults
  MaxLaunches,  \* bound of the model: child processes
  MaxStarts     \* bound of the model: starts of the service

ASSUME LifecycleAssumption ==
  /\ Empty \notin Configs /\ Oversized \subseteq Configs
  /\ MaxLaunches \in Nat /\ MaxStarts \in Nat

VARIABLES
  daemon,     \* what config_daemon.py does next, "down" when it is not running
  after,      \* where it goes on once its child has ended
  child_proc, \* the child it knows of, 0 for None
  wanted,     \* the configuration in the datagram it handles
  file,       \* config.txt
  stage,      \* what each child process does next
  cfg,        \* the configuration it has loaded
  spi_open,   \* it has opened the SPI device
  sigterm,    \* SIGTERM is pending for it
  trx,        \* the transceiver: [rx |-> receiving, cfg |-> its registers]
  launches, starts,
  asked,      \* history: the last configuration written to config.txt
  unwritten,  \* history: a write of config.txt failed since then
  abandoned   \* history: a program was killed, failed in dma_init or crashed
              \* since the transceiver was last reset

daemonVars == <<daemon, after, child_proc, wanted>>
fileVars == <<file, asked, unwritten>>
trxVars == <<trx, abandoned>>
countVars == <<launches, starts>>
childVars == <<stage, cfg, spi_open, sigterm>>
vars == <<daemonVars, fileVars, trxVars, childVars, countVars>>

Child == 1 .. MaxLaunches

\* main.c in order; "handlers" is the call of signal, "configure" and
\* "receive" are the two halves of transceiver_init after the reset.
Program == {"boot", "handlers", "spi", "reset", "configure", "receive", "dma",
            "stream"}
Handler == {"handler", "closing"}
Stages == Program \cup Handler \cup {"none", "dead"}

Alive(c) == stage[c] \notin {"none", "dead"}

\* child_proc and child_proc.poll() is None
Tracked == child_proc # 0 /\ Alive(child_proc)

Goto(c, next) == stage' = [stage EXCEPT ![c] = next]
Terminate(c) == sigterm' = [sigterm EXCEPT ![c] = TRUE]

Init ==
  /\ daemon = "down" /\ after = "recv" /\ child_proc = 0
  /\ wanted = Empty
  /\ file = Empty /\ asked = Empty /\ unwritten = FALSE
  /\ stage = [c \in Child |-> "none"] /\ cfg = [c \in Child |-> Empty]
  /\ spi_open = [c \in Child |-> FALSE] /\ sigterm = [c \in Child |-> FALSE]
  /\ trx = [rx |-> FALSE, cfg |-> Empty] /\ abandoned = FALSE
  /\ launches = 0 /\ starts = 0

(***************************************************************************)
(* The daemon.                                                             *)
(***************************************************************************)
\* A datagram with a configuration.
ReceiveConfig ==
  /\ daemon = "recv" /\ launches < MaxLaunches
  /\ wanted' \in Configs
  /\ daemon' = "open"
  /\ UNCHANGED <<after, child_proc, fileVars, trxVars, childVars, countVars>>

\* STOP.
ReceiveStop ==
  /\ daemon = "recv"
  /\ daemon' = "end" /\ after' = "recv"
  /\ UNCHANGED <<child_proc, wanted, fileVars, trxVars, childVars, countVars>>

\* Mutant: the file is opened for appending.
Opened_Append == file

\* open(CONFIG_FILE, 'w') empties the file.
Opened == Empty

\* An error of open skips the command.
OpenFile ==
  /\ daemon = "open"
  /\ \/ daemon' = "write" /\ file' = Opened
     \/ daemon' = "recv" /\ UNCHANGED file
  /\ UNCHANGED <<after, child_proc, wanted, asked, unwritten, trxVars, childVars,
                 countVars>>

\* Mutant: the child is launched inside the 'with', before the file is closed.
Flushed_Late(text) == Empty

\* Leaving the 'with' writes the buffered text behind what the file holds.
Flushed(text) == IF file = Empty THEN text ELSE <<file, text>>

WriteFile ==
  /\ daemon = "write"
  /\ \/ /\ file' = Flushed(wanted) /\ asked' = wanted /\ unwritten' = FALSE
        /\ daemon' = "end" /\ after' = "launch"
     \/ unwritten' = TRUE /\ daemon' = "recv" /\ UNCHANGED <<file, asked, after>>
  /\ UNCHANGED <<child_proc, wanted, trxVars, childVars, countVars>>

\* Signal the child that still runs, then wait for it.
EndChild ==
  /\ daemon = "end"
  /\ IF Tracked
     THEN /\ daemon' = "wait"
          /\ Terminate(child_proc)
     ELSE daemon' = after /\ UNCHANGED sigterm
  /\ UNCHANGED <<after, child_proc, wanted, fileVars, trxVars, stage, cfg,
                 spi_open, countVars>>

\* Mutant: terminate() without wait().
WaitOver_AtOnce == TRUE

WaitOver == ~Tracked

Wait ==
  /\ daemon = "wait"
  /\ WaitOver
  /\ daemon' = after
  /\ UNCHANGED <<after, child_proc, wanted, fileVars, trxVars, childVars, countVars>>

\* Popen: the child runs before child_proc is assigned, or the launch fails.
Launch ==
  /\ daemon = "launch"
  /\ \/ /\ daemon' = "assign"
        /\ launches' = launches + 1
        /\ Goto(launches + 1, "boot")
     \/ daemon' = "recv" /\ UNCHANGED <<launches, stage>>
  /\ UNCHANGED <<after, child_proc, wanted, fileVars, trxVars, cfg, spi_open,
                 sigterm, starts>>

Assign ==
  /\ daemon = "assign"
  /\ child_proc' = launches
  /\ daemon' = "recv"
  /\ UNCHANGED <<after, wanted, fileVars, trxVars, childVars, countVars>>

\* A datagram that is not UTF-8 ends the daemon.
Undecodable ==
  /\ daemon = "recv"
  /\ daemon' = "down"
  /\ UNCHANGED <<after, child_proc, wanted, fileVars, trxVars, childVars, countVars>>

\* handle_shutdown, between any two steps: signal the child it knows of and
\* exit; a file that is open is closed with what was written to it so far.
\* A child that Popen has started but not yet returned is not known.
HandleShutdown ==
  /\ daemon # "down"
  /\ daemon' = "down"
  /\ IF Tracked THEN Terminate(child_proc) ELSE UNCHANGED sigterm
  /\ file' \in IF daemon = "write" THEN {file, Flushed(wanted)} ELSE {file}
  /\ UNCHANGED <<after, child_proc, wanted, asked, unwritten, trxVars, stage,
                 cfg, spi_open, countVars>>

Daemon == OpenFile \/ WriteFile \/ EndChild \/ Wait \/ Launch \/ Assign

(***************************************************************************)
(* The service (Restart=on-failure, KillMode=mixed): what the daemon left  *)
(* behind is killed before it starts again.                                *)
(***************************************************************************)
KillRest(c) ==
  /\ daemon = "down" /\ Alive(c)
  /\ Goto(c, "dead")
  /\ abandoned' = TRUE
  /\ UNCHANGED <<daemonVars, fileVars, trx, cfg, spi_open, sigterm, countVars>>

StartService ==
  /\ daemon = "down" /\ \A c \in Child : ~Alive(c)
  /\ starts < MaxStarts
  /\ starts' = starts + 1
  /\ daemon' = "recv" /\ after' = "recv" /\ child_proc' = 0 /\ wanted' = Empty
  /\ UNCHANGED <<fileVars, trxVars, childVars, launches>>

(***************************************************************************)
(* The program.                                                            *)
(***************************************************************************)
\* config_load: an empty file leaves the defaults.
LoadConfig(c) ==
  /\ stage[c] = "boot"
  /\ cfg' = [cfg EXCEPT ![c] = file]
  /\ Goto(c, "handlers")
  /\ UNCHANGED <<daemonVars, fileVars, trxVars, spi_open, sigterm, countVars>>

\* Mutant: the handlers are installed only in front of dma_loop.
Unhandled_UntilLoop == Program \ {"stream"}

\* Where SIGTERM has its default action.  signal() of the C library this is
\* built with (c99, POSIX) resets the action as the handler is entered.
Unhandled == {"boot", "handlers"}

InstallHandlers(c) ==
  /\ stage[c] = "handlers"
  /\ Goto(c, "spi")
  /\ UNCHANGED <<daemonVars, fileVars, trxVars, cfg, spi_open, sigterm, countVars>>

\* spi_init, which may fail.
OpenSpi(c) ==
  /\ stage[c] = "spi"
  /\ \/ Goto(c, "reset") /\ spi_open' = [spi_open EXCEPT ![c] = TRUE]
     \/ Goto(c, "dead") /\ UNCHANGED spi_open
  /\ UNCHANGED <<daemonVars, fileVars, trxVars, cfg, sigterm, countVars>>

\* w8(R_RST, 0x07)
Reset == trx' = [rx |-> FALSE, cfg |-> Empty] /\ abandoned' = FALSE

ResetTransceiver(c) ==
  /\ stage[c] = "reset"
  /\ Reset
  /\ Goto(c, "configure")
  /\ UNCHANGED <<daemonVars, fileVars, cfg, spi_open, sigterm, countVars>>

Configure(c) ==
  /\ stage[c] = "configure"
  /\ trx' = [trx EXCEPT !.cfg = cfg[c]]
  /\ Goto(c, "receive")
  /\ UNCHANGED <<daemonVars, fileVars, abandoned, cfg, spi_open, sigterm, countVars>>

\* TXPREP, then RX.
Receive(c) ==
  /\ stage[c] = "receive"
  /\ trx' = [trx EXCEPT !.rx = TRUE]
  /\ Goto(c, "dma")
  /\ UNCHANGED <<daemonVars, fileVars, abandoned, cfg, spi_open, sigterm, countVars>>

\* dma_init: an error exits and leaves the transceiver as it is.
InitDma(c) ==
  /\ stage[c] = "dma"
  /\ \/ Goto(c, "stream") /\ UNCHANGED abandoned
     \/ Goto(c, "dead") /\ abandoned' = TRUE
  /\ UNCHANGED <<daemonVars, fileVars, trx, cfg, spi_open, sigterm, countVars>>

\* dma_loop puts two arrays of the chunk's size on the stack, and reads the
\* mapping: a chunk that overruns either ends the program by SIGSEGV, for which
\* it has no handler.  It gets there when the first chunk has come in.
Crash(c) ==
  /\ stage[c] = "stream" /\ cfg[c] \in Oversized
  /\ Goto(c, "dead")
  /\ abandoned' = TRUE
  /\ UNCHANGED <<daemonVars, fileVars, trx, cfg, spi_open, sigterm, countVars>>

\* SIGTERM is delivered: the default action, or sigint_handler is entered.
TakeTerm(c) ==
  /\ Alive(c) /\ sigterm[c]
  /\ sigterm' = [sigterm EXCEPT ![c] = FALSE]
  /\ \/ /\ stage[c] \in Unhandled \cup Handler
        /\ Goto(c, "dead")
        /\ abandoned' = (abandoned \/ stage[c] = "handler")
     \/ /\ stage[c] \in Program \ Unhandled
        /\ Goto(c, "handler")
        /\ UNCHANGED abandoned
  /\ UNCHANGED <<daemonVars, fileVars, trx, cfg, spi_open, countVars>>

\* The handler's w8, which fails unnoticed before spi_init.
HandlerReset(c) ==
  /\ stage[c] = "handler"
  /\ IF spi_open[c] THEN Reset ELSE UNCHANGED trxVars
  /\ Goto(c, "closing")
  /\ UNCHANGED <<daemonVars, fileVars, cfg, spi_open, sigterm, countVars>>

\* Mutant: the handler returns to the loop it interrupted.
AfterHandler_Return == "stream"

AfterHandler == "dead"

\* dma_close, spi_close, exit.
HandlerExit(c) ==
  /\ stage[c] = "closing"
  /\ Goto(c, AfterHandler)
  /\ UNCHANGED <<daemonVars, fileVars, trxVars, cfg, spi_open, sigterm, countVars>>

Run(c) ==
  \/ LoadConfig(c) \/ InstallHandlers(c) \/ OpenSpi(c) \/ ResetTransceiver(c)
  \/ Configure(c) \/ Receive(c) \/ InitDma(c)
  \/ HandlerReset(c) \/ HandlerExit(c)

Next ==
  \/ ReceiveConfig \/ ReceiveStop \/ Undecodable \/ HandleShutdown
  \/ Daemon
  \/ StartService
  \/ \E c \in Child : KillRest(c) \/ Run(c) \/ Crash(c) \/ TakeTerm(c)

Spec == Init /\ [][Next]_vars

\* The daemon and the programs are run, and a signal is delivered.  Nobody is
\* obliged to send a command or to start or stop the service, nor the receiver
\* to fill the chunk on which a program crashes.
FairSpec ==
  /\ Spec
  /\ WF_vars(Daemon)
  /\ \A c \in Child : WF_vars(Run(c)) /\ WF_vars(TakeTerm(c))

-----------------------------------------------------------------------------
(***************************************************************************)
(* Properties.                                                             *)
(***************************************************************************)
Settings == Configs \cup {Empty}

\* Every variable stays in its type, and only launched processes exist.
TypeOK ==
  /\ daemon \in {"down", "recv", "open", "write", "end", "wait", "launch",
                 "assign"}
  /\ after \in {"recv", "launch"}
  /\ child_proc \in 0 .. launches
  /\ file \in Settings /\ asked \in Settings /\ wanted \in Settings
  /\ unwritten \in BOOLEAN /\ abandoned \in BOOLEAN
  /\ trx \in [rx : BOOLEAN, cfg : Settings]
  /\ stage \in [Child -> Stages] /\ cfg \in [Child -> Settings]
  /\ spi_open \in [Child -> BOOLEAN] /\ sigterm \in [Child -> BOOLEAN]
  /\ launches \in 0 .. MaxLaunches /\ starts \in 0 .. MaxStarts
  /\ \A c \in Child : stage[c] = "none" <=> c > launches

\* Never two programs: config_daemon.py ends the old one before it launches
\* the next, and the service kills what a daemon left behind before it starts
\* another.  DmaLoop relies on it: two programs would share one engine.
OneProgram == \A c, d \in Child : Alive(c) /\ Alive(d) => c = d

\* When the daemon waits for the next command, a program that has set the
\* transceiver up did so with the last configuration that was written, never
\* with the emptied file of the write in between.  Only a write that failed
\* under a program still on its way to config_load can break it.
LatestConfiguration ==
  daemon = "recv" /\ ~unwritten =>
    \A c \in Child :
      stage[c] \in {"receive", "dma", "stream"} =>
        cfg[c] = asked /\ trx.cfg = asked

\* The transceiver receives only for a program that runs and will reset it,
\* wherever SIGTERM finds the program.  Three ways of ending leave it receiving
\* for nobody until the next program resets it: killed before the handler got
\* to the reset, an error of dma_init, a crash on an oversized chunk.
ReceivesForProgram ==
  trx.rx => \/ abandoned
            \/ \E c \in Child :
                 /\ stage[c] \in {"dma", "stream", "handler"}
                 /\ spi_open[c]

\* The daemon comes back for the next command after every command: the wait
\* for a child it has signalled ends.
ServesCommands == []<>(daemon \in {"recv", "down"})

\* What the handlers' comments say ("Clean up child on exit", "reset
\* transceiver and clean up resources on exit"): once the service is stopped
\* and nothing runs, the transceiver is reset.
CleanedUp ==
  daemon = "down" /\ (\A c \in Child : ~Alive(c)) => ~trx.rx
=============================================================================

------------------------------ MODULE Services -------------------------------
(***************************************************************************)
(* The services a runtime thread offers: OS handles, timers, signals,      *)
(* child processes, the operations of the driver, framed and TLS streams.  *)
(* They share no state, so a behaviour exercises one of them; the others   *)
(* rest in an initial state.                                               *)
(***************************************************************************)
EXTENDS IoHandle, Timer, Signal, Process, Operations, Framed, Tls

CONSTANT Parts         \* the services exercised

VARIABLE part

serviceVars == <<part, handleVars, timerVars, signalVars, processVars, call, framedVars, tlsVars>>

Init ==
    /\ part \in Parts
    /\ HandleInit /\ (part # "handle" => handle[CHOOSE h \in Handles : TRUE] = "whole")
    /\ TimerInit /\ (part # "timer" => ticker.start = 0)
    /\ SignalInit /\ (part # "signal" => platform = "unix")
    /\ ProcessInit /\ (part # "process" => wrote = <<>> /\ ~proc.eof /\ ~child.killOnDrop)
    /\ CallInit /\ (part # "operation" => call.op = "read" /\ call.on = "uring")
    /\ FramedInit /\ (part # "framed" => framing.kind = "noop")
    /\ TlsInit /\ (part # "tls" => peer.script = <<>> /\ rustls.queue = <<>>)

Next ==
    /\ \/ /\ part = "handle" /\ HandleNext
          /\ UNCHANGED <<timerVars, signalVars, processVars, call, framedVars, tlsVars>>
       \/ /\ part = "timer" /\ TimerNext
          /\ UNCHANGED <<handleVars, signalVars, processVars, call, framedVars, tlsVars>>
       \/ /\ part = "signal" /\ SignalNext
          /\ UNCHANGED <<handleVars, timerVars, processVars, call, framedVars, tlsVars>>
       \/ /\ part = "process" /\ ProcessNext
          /\ UNCHANGED <<handleVars, timerVars, signalVars, call, framedVars, tlsVars>>
       \/ /\ part = "operation" /\ CallNext
          /\ UNCHANGED <<handleVars, timerVars, signalVars, processVars, framedVars, tlsVars>>
       \/ /\ part = "framed" /\ FramedNext
          /\ UNCHANGED <<handleVars, timerVars, signalVars, processVars, call, tlsVars>>
       \/ /\ part = "tls" /\ TlsNext
          /\ UNCHANGED <<handleVars, timerVars, signalVars, processVars, call, framedVars>>
    /\ UNCHANGED part

\* Whatever runs keeps running: a woken task is polled, an operation ends, the
\* clock moves, a child process makes progress.
CanStep ==
    \/ part = "handle" /\ CanHandleStep
    \/ part = "timer" /\ CanTimerStep
    \/ part = "process" /\ CanProcessStep
Step ==
    \/ part = "handle" /\ HandleSteps
    \/ part = "timer" /\ TimerSteps
    \/ part = "process" /\ ProcessSteps
Spec == Init /\ [][Next]_serviceVars /\ ([]<>~CanStep \/ []<><<Step>>_serviceVars)
=============================================================================

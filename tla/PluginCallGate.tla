--------------------------- MODULE PluginCallGate ---------------------------
(***************************************************************************)
(* The operations of pluginCallGate (src/wago/plugin_call_gate.go), one    *)
(* gate per plugin.  RuntimeShutdown composes them with the callers.       *)
(*                                                                         *)
(* state is one atomic word: a call count and a close bit.  terminalMu is  *)
(* a sync.RWMutex: a terminal callback holds it for reading while it runs, *)
(* and a waiting writer keeps new readers out.                             *)
(***************************************************************************)
EXTENDS Integers

CONSTANT Plugins

VARIABLES
    calls,      \* the low bits of state: admitted calls and reservations
    shut,       \* its close bit
    drained,    \* the channel drained is closed
    terminal,   \* the terminal lane is open
    readers,    \* terminal callbacks that hold terminalMu
    writing     \* a writer waits for terminalMu

gates == <<calls, shut, drained, terminal, readers, writing>>

GatesInit ==
    /\ calls = [p \in Plugins |-> 0]
    /\ shut = [p \in Plugins |-> FALSE]
    /\ drained = [p \in Plugins |-> FALSE]
    /\ terminal = [p \in Plugins |-> FALSE]
    /\ readers = [p \in Plugins |-> 0]
    /\ writing = [p \in Plugins |-> FALSE]

\* enter, when it succeeds; it is refused once the close bit is set.
Enter(p) ==
    /\ ~shut[p]
    /\ calls' = [calls EXCEPT ![p] = @ + 1]
    /\ UNCHANGED <<shut, drained, terminal, readers, writing>>

\* release of one call, or of all the gates of a reservation.
Leave(ps) ==
    /\ calls' = [p \in Plugins |-> IF p \in ps THEN calls[p] - 1 ELSE calls[p]]
    /\ drained' = [p \in Plugins |-> drained[p] \/ (p \in ps /\ shut[p] /\ calls[p] = 1)]
    /\ UNCHANGED <<shut, terminal, readers, writing>>

\* deactivate, and the first half of closeAndWait.
Deactivate(p) ==
    /\ shut' = [shut EXCEPT ![p] = TRUE]
    /\ drained' = [drained EXCEPT ![p] = @ \/ calls[p] = 0]
    /\ UNCHANGED <<calls, terminal, readers, writing>>

BeginTerminalCallbacks(p) ==
    /\ readers[p] = 0
    /\ terminal' = [terminal EXCEPT ![p] = TRUE]
    /\ UNCHANGED <<calls, shut, drained, readers, writing>>

\* enterTerminalOrOrdinary on the terminal lane; the callback keeps the lock.
EnterTerminal(p) ==
    /\ terminal[p] /\ ~writing[p]
    /\ readers' = [readers EXCEPT ![p] = @ + 1]
    /\ UNCHANGED <<calls, shut, drained, terminal, writing>>

\* The same on the ordinary lane, which needs the lock only to decide.
EnterOrdinary(p) ==
    /\ ~terminal[p] /\ ~writing[p]
    /\ Enter(p)

ReleaseTerminal(p) ==
    /\ readers' = [readers EXCEPT ![p] = @ - 1]
    /\ UNCHANGED <<calls, shut, drained, terminal, writing>>

\* endTerminalCallbacks: ask for the lock, and close the lane when it is had.
RequestTerminalLock(p) ==
    /\ writing' = [writing EXCEPT ![p] = TRUE]
    /\ UNCHANGED <<calls, shut, drained, terminal, readers>>

EndTerminalCallbacks(p) ==
    /\ writing[p] /\ readers[p] = 0
    /\ terminal' = [terminal EXCEPT ![p] = FALSE]
    /\ writing' = [writing EXCEPT ![p] = FALSE]
    /\ UNCHANGED <<calls, shut, drained, readers>>
=============================================================================

---------------------------- MODULE DdosDetector ----------------------------
(***************************************************************************)
(* The DDoS detector of lib/mininet/src: main starts a goroutine that      *)
(* waits for a signal, then MainLoop the listener and two periodic jobs,   *)
(* and waits for them.  The flag Running is shared by all, without a lock. *)
(***************************************************************************)
EXTENDS Naturals, FiniteSets

Jobs == {"CountersRotator", "GraphiteSender"}

Workers == Jobs \cup {"listener"}

VARIABLES
    Running,  \* AppState.Running
    at,       \* where main is
    worker,   \* [worker -> where its goroutine is]
    wait,     \* AppState.Wait
    signal    \* "none", "sent", "handled", or "killed" by a second one

vars == <<Running, at, worker, wait, signal>>

Init ==
    /\ Running = FALSE
    /\ at = "set"
    /\ worker = [w \in Workers |-> "none"]
    /\ wait = 0
    /\ signal = "none"

(* SIGINT or SIGTERM, once KillSignal has asked for it; it is reset before *)
(* the second, which kills.                                                *)
Send ==
    /\ signal' = CASE signal = "none" -> "sent"
                   [] signal = "handled" -> "killed"
                   [] OTHER -> signal
    /\ UNCHANGED <<Running, at, worker, wait>>

Handle ==
    /\ signal = "sent"
    /\ signal' = "handled"
    /\ Running' = FALSE
    /\ UNCHANGED <<at, worker, wait>>

SetRunning ==
    /\ at = "set"
    /\ at' = "listener"
    /\ Running' = TRUE
    /\ UNCHANGED <<worker, wait, signal>>

(* Wait.Add comes before the goroutine. *)
After == [listener |-> "CountersRotator", CountersRotator |-> "GraphiteSender",
          GraphiteSender |-> "wait"]

StartWorker(w) ==
    /\ at = w
    /\ at' = After[w]
    /\ wait' = wait + 1
    /\ worker' = [worker EXCEPT ![w] = "start"]
    /\ UNCHANGED <<Running, signal>>

MainEnds ==
    /\ at = "wait" /\ wait = 0
    /\ at' = "finished"
    /\ UNCHANGED <<Running, worker, wait, signal>>

Move(w, to) ==
    /\ worker' = [worker EXCEPT ![w] = to]
    /\ wait' = IF to = "done" THEN wait - 1 ELSE wait
    /\ UNCHANGED <<Running, at, signal>>

(* The listener's socket, which may not open. *)
Listen == worker["listener"] = "start" /\ Move("listener", "loop")

ListenFails == worker["listener"] = "start" /\ Move("listener", "done")

(* for AppState.Running *)
Loop(w) ==
    /\ worker[w] = "loop" \/ (worker[w] = "start" /\ w \in Jobs)
    /\ Move(w, IF Running THEN "busy" ELSE "done")

(* The blocking read, and the channel of the ticker. *)
Datagram == worker["listener"] = "busy" /\ Move("listener", "loop")

ReadFails == worker["listener"] = "busy" /\ Move("listener", "done")

Tick(j) == worker[j] = "busy" /\ Move(j, "loop")

Main == SetRunning \/ MainEnds \/ \E w \in Workers : StartWorker(w)

Alive == signal # "killed" /\ at # "finished"

Working(w) == Alive /\ (Loop(w) \/ (w \in Jobs /\ Tick(w))
                            \/ (w = "listener" /\ (Listen \/ ListenFails)))

Next ==
    /\ Alive
    /\ \/ Send \/ Handle \/ Main
       \/ \E w \in Workers : Working(w)
       \/ Datagram \/ ReadFails

(* Goroutines are scheduled, tickers tick, and agents send datagrams; a    *)
(* signal need not come.                                                   *)
Fairness ==
    /\ WF_vars(Alive /\ Handle) /\ WF_vars(Alive /\ Main)
    /\ \A w \in Workers : WF_vars(Working(w))
    /\ WF_vars(Alive /\ Datagram)

Spec == Init /\ [][Next]_vars /\ Fairness

----------------------------------------------------------------------------
(* What must hold.                                                         *)

(* main ends only when every worker has: each is added before it runs, and *)
(* done once, whichever way it ends.                                       *)
WaitsForWorkers ==
    /\ wait = Cardinality({w \in Workers : worker[w] \notin {"none", "done"}})
    /\ at = "finished" => \A w \in Workers : worker[w] = "done"

(* Once Running is set, a signal stops the detector: the listener at the   *)
(* next datagram, the jobs at their next tick.                             *)
StopsWhenStarted ==
    ~Running /\ signal = "handled" /\ at # "set"
        ~> at = "finished" \/ signal = "killed" \/ Running

(* "Got SIGTERM, finishing work gracefully." (ddos_detector.go:47): what   *)
(* has been told to finish finishes.                                       *)
FinishesGracefully ==
    signal = "handled" ~> at = "finished" \/ signal = "killed"
=============================================================================

------------------------------ MODULE Teardown ------------------------------
(***************************************************************************)
(* How the process ends (service/teardown.go, main.go): the main goroutine *)
(* starts the services, registers the teardown functions and waits for a   *)
(* signal; then it tells everybody and waits for a WaitGroup to empty.     *)
(* TeardownFunc joins the WaitGroup from the goroutine it starts, so Wait  *)
(* may come first.                                                         *)
(***************************************************************************)
EXTENDS Naturals, FiniteSets

CONSTANTS
  Services,  \* the Kafka readers and the REST server
  Funcs      \* the functions given to TeardownFunc

ASSUME FiniteAssumption == IsFiniteSet(Services) /\ IsFiniteSet(Funcs)

VARIABLES
  main,      \* how far the main goroutine has come
  service,   \* each service: "off", "on", "stopped"
  func,      \* the goroutine of each TeardownFunc
  counter,   \* the counter of the WaitGroup
  parked,    \* the main goroutine sleeps in waitGroup.Wait
  done,      \* doneChan is closed
  cancelled, \* the context is cancelled
  intime     \* history: the functions that had joined when doneChan was closed

vars == <<main, service, func, counter, parked, done, cancelled, intime>>

Init ==
  /\ main = "starting"
  /\ service = [s \in Services |-> "off"]
  /\ func = [f \in Funcs |-> "none"]
  /\ counter = 0 /\ parked = FALSE
  /\ done = FALSE /\ cancelled = FALSE
  /\ intime = {}

-----------------------------------------------------------------------------
(* The main goroutine.                                                     *)

\* AddConsumer, CreateService: the service joins the WaitGroup before the call returns.
StartService(s) ==
  /\ main = "starting" /\ service[s] = "off"
  /\ service' = [service EXCEPT ![s] = "on"]
  /\ counter' = counter + 1
  /\ UNCHANGED <<main, func, parked, done, cancelled, intime>>

\* All services are started by then.
TeardownFunc(f) ==
  /\ main = "starting" /\ \A s \in Services : service[s] # "off"
  /\ func[f] = "none"
  /\ func' = [func EXCEPT ![f] = "started"]
  /\ UNCHANGED <<main, service, counter, parked, done, cancelled, intime>>

\* tdm.Wait(), up to the receive.
Wait ==
  /\ main = "starting"
  /\ \A s \in Services : service[s] # "off"
  /\ \A f \in Funcs : func[f] # "none"
  /\ main' = "receiving"
  /\ UNCHANGED <<service, func, counter, parked, done, cancelled, intime>>

\* Notify never blocks on a channel and termChan has no buffer, so a signal counts only
\* when the main goroutine is receiving; an earlier one is dropped.
Signal ==
  /\ main = "receiving"
  /\ main' = "signalled"
  /\ UNCHANGED <<service, func, counter, parked, done, cancelled, intime>>

\* A slip: only the context is cancelled.
CloseDoneForgotten ==
  /\ main = "signalled"
  /\ main' = "closed"
  /\ UNCHANGED <<service, func, counter, parked, done, cancelled, intime>>

CloseDone ==
  /\ main = "signalled"
  /\ main' = "closed"
  /\ done' = TRUE
  /\ intime' = {f \in Funcs : func[f] = "joined"}
  /\ UNCHANGED <<service, func, counter, parked, cancelled>>

Cancel ==
  /\ main = "closed"
  /\ main' = "waiting"
  /\ cancelled' = TRUE
  /\ UNCHANGED <<service, func, counter, parked, done, intime>>

\* waitGroup.Wait returns at once, or sleeps until the counter has come down to zero.
GroupWait ==
  /\ main = "waiting" /\ ~parked
  /\ IF counter = 0 THEN main' = "returned" /\ UNCHANGED parked
     ELSE parked' = TRUE /\ UNCHANGED main
  /\ UNCHANGED <<service, func, counter, done, cancelled, intime>>

\* The sleeper is woken, and panics when the counter is not zero any more.
GroupWake ==
  /\ main = "woken"
  /\ main' = IF counter = 0 THEN "returned" ELSE "panicked"
  /\ UNCHANGED <<service, func, counter, parked, done, cancelled, intime>>

-----------------------------------------------------------------------------
(* The other goroutines; they are gone when main has returned.             *)

Running == main \notin {"returned", "panicked"}

\* waitGroup.Done: who brings the counter to zero wakes the sleeper.
Leave ==
  /\ counter' = counter - 1
  /\ IF counter = 1 /\ parked THEN main' = "woken" /\ parked' = FALSE
     ELSE UNCHANGED <<main, parked>>

\* A service watches its context.
StopService(s) ==
  /\ Running /\ cancelled /\ service[s] = "on"
  /\ service' = [service EXCEPT ![s] = "stopped"]
  /\ Leave
  /\ UNCHANGED <<func, done, cancelled, intime>>

\* waitGroup.Add(1), in the goroutine.
Join(f) ==
  /\ Running /\ func[f] = "started"
  /\ func' = [func EXCEPT ![f] = "joined"]
  /\ counter' = counter + 1
  /\ UNCHANGED <<main, service, parked, done, cancelled, intime>>

\* A slip: Done is not deferred, it comes before f.
RunThenDone(f) ==
  /\ Running /\ func[f] = "joined" /\ done
  /\ func' = [func EXCEPT ![f] = "running"]
  /\ Leave
  /\ UNCHANGED <<service, done, cancelled, intime>>

\* <-m.doneChan; f().
Run(f) ==
  /\ Running /\ func[f] = "joined" /\ done
  /\ func' = [func EXCEPT ![f] = "running"]
  /\ UNCHANGED <<main, service, counter, parked, done, cancelled, intime>>

\* f returns, and the deferred Done.
Finish(f) ==
  /\ Running /\ func[f] = "running"
  /\ func' = [func EXCEPT ![f] = "finished"]
  /\ Leave
  /\ UNCHANGED <<service, done, cancelled, intime>>

Shutdown == CloseDone \/ Cancel \/ GroupWait \/ GroupWake

Next ==
  \/ Wait \/ Signal \/ Shutdown
  \/ \E s \in Services : StartService(s) \/ StopService(s)
  \/ \E f \in Funcs : TeardownFunc(f) \/ Join(f) \/ Run(f) \/ Finish(f)

\* Goroutines go on, and teardown functions return; signals need not come.
Fairness ==
  /\ WF_vars(Shutdown)
  /\ \A s \in Services : WF_vars(StopService(s))
  /\ \A f \in Funcs : WF_vars(Join(f)) /\ WF_vars(Run(f)) /\ WF_vars(Finish(f))

Spec == Init /\ [][Next]_vars /\ Fairness

-----------------------------------------------------------------------------
(* Properties.                                                             *)

\* The WaitGroup counts who is inside it, and never goes below zero (which panics).
TypeOK ==
  /\ main \in {"starting", "receiving", "signalled", "closed", "waiting", "woken",
               "returned", "panicked"}
  /\ service \in [Services -> {"off", "on", "stopped"}]
  /\ func \in [Funcs -> {"none", "started", "joined", "running", "finished"}]
  /\ counter = Cardinality({s \in Services : service[s] = "on"})
               + Cardinality({f \in Funcs : func[f] \in {"joined", "running"}})
  /\ parked \in BOOLEAN /\ done \in BOOLEAN /\ cancelled \in BOOLEAN
  /\ intime \subseteq Funcs

\* When the process ends in good order no service is running any more, every teardown
\* function that had joined before doneChan was closed has run to its end
\* (service/teardown.go:48-53), and none is cut off in the middle.
EndsClean ==
  main = "returned" =>
    /\ \A s \in Services : service[s] = "stopped"
    /\ \A f \in intime : func[f] = "finished"
    /\ \A f \in Funcs : func[f] # "running"

\* After a signal the process ends: nobody waits for a channel or a counter for ever.
SignalEnds == main = "signalled" ~> main \in {"returned", "panicked"}

=============================================================================

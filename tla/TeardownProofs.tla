--------------------------- MODULE TeardownProofs ---------------------------
(***************************************************************************)
(* The process ends in good order, with any number of services and         *)
(* teardown functions.                                                     *)
(***************************************************************************)
EXTENDS Teardown, FiniteSetTheorems, TLAPS

-----------------------------------------------------------------------------
(***************************************************************************)
(* The inductive invariant.  The counter tells how many goroutines are     *)
(* inside the WaitGroup (TypeOK); main returns only at zero, and then      *)
(* nobody moves any more.  Zero says that no service runs because by then  *)
(* all have been started, and that no function in time is still inside     *)
(* because who has joined leaves only by finishing.                        *)
(***************************************************************************)
On == {s \in Services : service[s] = "on"}
In == {f \in Funcs : func[f] \in {"joined", "running"}}

Started == main # "starting" \/ parked => \A s \in Services : service[s] # "off"
Emptied == main = "returned" => counter = 0
Joined  == \A f \in intime : func[f] \in {"joined", "running", "finished"}

TeardownInv == TypeOK /\ Started /\ Emptied /\ Joined

\* TypeOK, with names for the two sets it counts.
Shape ==
  /\ main \in {"starting", "receiving", "signalled", "closed", "waiting", "woken",
               "returned", "panicked"}
  /\ service \in [Services -> {"off", "on", "stopped"}]
  /\ func \in [Funcs -> {"none", "started", "joined", "running", "finished"}]
  /\ parked \in BOOLEAN /\ done \in BOOLEAN /\ cancelled \in BOOLEAN
  /\ intime \subseteq Funcs

Counted == counter = Cardinality(On) + Cardinality(In)

LEMMA Typed == TypeOK <=> Shape /\ Counted
  BY DEF TypeOK, Shape, Counted, On, In

LEMMA FiniteGroups ==
  /\ IsFiniteSet(On) /\ Cardinality(On) \in Nat
  /\ IsFiniteSet(In) /\ Cardinality(In) \in Nat
<1>1. IsFiniteSet(On) /\ IsFiniteSet(In)
  BY FiniteAssumption, FS_Subset DEF On, In
<1> QED BY <1>1, FS_CardinalityType

\* At zero nobody is inside.
LEMMA EmptyGroup ==
  ASSUME Counted, counter = 0
  PROVE  On = {} /\ In = {}
<1>1. Cardinality(On) = 0 /\ Cardinality(In) = 0
  BY FiniteGroups DEF Counted
<1> QED BY <1>1, FiniteGroups, FS_EmptySet

-----------------------------------------------------------------------------
(* What the steps do to the counter.                                       *)

LEMMA SameGroups ==
  ASSUME Counted, UNCHANGED <<service, func, counter>>
  PROVE  Counted'
  BY DEF Counted, On, In

LEMMA StartCounts ==
  ASSUME Shape, Counted, NEW s \in Services, StartService(s)
  PROVE  Counted'
<1>1. On' = On \cup {s} /\ s \notin On /\ In' = In
  BY DEF Shape, StartService, On, In
<1>2. Cardinality(On') = Cardinality(On) + 1
  BY <1>1, FiniteGroups, FS_AddElement
<1> QED BY <1>1, <1>2, FiniteGroups DEF Counted, StartService

LEMMA StopCounts ==
  ASSUME Shape, Counted, NEW s \in Services, StopService(s)
  PROVE  Counted'
<1>1. On' = On \ {s} /\ s \in On /\ In' = In
  BY DEF Shape, StopService, On, In
<1>2. Cardinality(On') = Cardinality(On) - 1
  BY <1>1, FiniteGroups, FS_RemoveElement
<1> QED BY <1>1, <1>2, FiniteGroups DEF Counted, StopService, Leave

LEMMA JoinCounts ==
  ASSUME Shape, Counted, NEW f \in Funcs, Join(f)
  PROVE  Counted'
<1>1. In' = In \cup {f} /\ f \notin In /\ On' = On
  BY DEF Shape, Join, On, In
<1>2. Cardinality(In') = Cardinality(In) + 1
  BY <1>1, FiniteGroups, FS_AddElement
<1> QED BY <1>1, <1>2, FiniteGroups DEF Counted, Join

LEMMA FinishCounts ==
  ASSUME Shape, Counted, NEW f \in Funcs, Finish(f)
  PROVE  Counted'
<1>1. In' = In \ {f} /\ f \in In /\ On' = On
  BY DEF Shape, Finish, On, In
<1>2. Cardinality(In') = Cardinality(In) - 1
  BY <1>1, FiniteGroups, FS_RemoveElement
<1> QED BY <1>1, <1>2, FiniteGroups DEF Counted, Finish, Leave

\* A function that is given over, or runs, is counted as before.
LEMMA FuncCounts ==
  ASSUME Shape, Counted, NEW f \in Funcs, TeardownFunc(f) \/ Run(f)
  PROVE  Counted'
<1>1. In' = In /\ On' = On /\ counter' = counter
  BY DEF Shape, TeardownFunc, Run, On, In
<1> QED BY <1>1 DEF Counted

\* Who leaves the group may wake the main goroutine.
LEMMA LeftGroup ==
  ASSUME Shape, Leave
  PROVE  /\ main' = main \/ (main' = "woken" /\ parked)
         /\ parked' \in BOOLEAN
         /\ parked' => parked
<1>1. CASE counter = 1 /\ parked
  BY <1>1 DEF Leave
<1>2. CASE ~(counter = 1 /\ parked)
  BY <1>2 DEF Leave, Shape
<1> QED BY <1>1, <1>2

-----------------------------------------------------------------------------

LEMMA TeardownInit == Init => TeardownInv
<1> SUFFICES ASSUME Init PROVE TeardownInv
  OBVIOUS
<1>1. On = {} /\ In = {} /\ counter = 0
  BY DEF Init, On, In
<1>2. Counted
  BY <1>1, FS_EmptySet DEF Counted
<1>3. Shape /\ Started /\ Emptied /\ Joined
  BY DEF Init, Shape, Started, Emptied, Joined
<1> QED BY <1>2, <1>3, Typed DEF TeardownInv

LEMMA TeardownNext == TeardownInv /\ [Next]_vars => TeardownInv'
<1> SUFFICES ASSUME TeardownInv, [Next]_vars
             PROVE  TeardownInv'
  OBVIOUS
<1>0. Shape /\ Counted /\ Started /\ Emptied /\ Joined
  BY Typed DEF TeardownInv
<1> DEFINE Rest == Shape' /\ Started' /\ Emptied' /\ Joined'
<1>1. ASSUME NEW s \in Services, StartService(s)
      PROVE  Counted' /\ Rest
  BY <1>0, <1>1, StartCounts DEF StartService, Shape, Started, Emptied, Joined
<1>2. ASSUME NEW s \in Services, StopService(s)
      PROVE  Counted' /\ Rest
  <2>1. Shape' /\ Started' /\ Joined'
    <3>1. /\ main' = main \/ (main' = "woken" /\ parked)
          /\ parked' \in BOOLEAN
          /\ parked' => parked
      BY <1>0, <1>2, LeftGroup DEF StopService
    <3>2. Started'
      BY <1>0, <1>2, <3>1 DEF StopService, Shape, Started
    <3> QED BY <1>0, <1>2, <3>1, <3>2 DEF StopService, Shape, Joined
  <2>2. Emptied'
    BY <1>2 DEF StopService, Leave, Running, Emptied
  <2> QED BY <1>0, <1>2, <2>1, <2>2, StopCounts
<1>3. ASSUME NEW f \in Funcs, TeardownFunc(f)
      PROVE  Counted' /\ Rest
  BY <1>0, <1>3, FuncCounts DEF TeardownFunc, Shape, Started, Emptied, Joined
<1>4. ASSUME NEW f \in Funcs, Join(f)
      PROVE  Counted' /\ Rest
  BY <1>0, <1>4, JoinCounts DEF Join, Running, Shape, Started, Emptied, Joined
<1>5. ASSUME NEW f \in Funcs, Run(f)
      PROVE  Counted' /\ Rest
  BY <1>0, <1>5, FuncCounts DEF Run, Running, Shape, Started, Emptied, Joined
<1>6. ASSUME NEW f \in Funcs, Finish(f)
      PROVE  Counted' /\ Rest
  <2>1. Shape' /\ Started' /\ Joined'
    <3>1. /\ main' = main \/ (main' = "woken" /\ parked)
          /\ parked' \in BOOLEAN
          /\ parked' => parked
      BY <1>0, <1>6, LeftGroup DEF Finish
    <3>2. Started'
      BY <1>0, <1>6, <3>1 DEF Finish, Shape, Started
    <3> QED BY <1>0, <1>6, <3>1, <3>2 DEF Finish, Shape, Joined
  <2>2. Emptied'
    BY <1>6 DEF Finish, Leave, Running, Emptied
  <2> QED BY <1>0, <1>6, <2>1, <2>2, FinishCounts
<1>7. ASSUME Wait \/ Signal \/ Shutdown
      PROVE  Counted' /\ Rest
  <2>1. UNCHANGED <<service, func, counter>>
    BY <1>7 DEF Wait, Signal, Shutdown, CloseDone, Cancel, GroupWait, GroupWake
  <2>2. Shape' /\ Started' /\ Emptied'
    BY <1>0, <1>7
    DEF Wait, Signal, Shutdown, CloseDone, Cancel, GroupWait, GroupWake, Shape, Started, Emptied
  <2>3. Joined'
    BY <1>0, <1>7
    DEF Wait, Signal, Shutdown, CloseDone, Cancel, GroupWait, GroupWake, Joined
  <2> QED BY <1>0, <2>1, <2>2, <2>3, SameGroups
<1>8. ASSUME UNCHANGED vars
      PROVE  Counted' /\ Rest
  BY <1>0, <1>8, SameGroups DEF vars, Shape, Started, Emptied, Joined
<1>9. Counted' /\ Rest
  BY <1>1, <1>2, <1>3, <1>4, <1>5, <1>6, <1>7, <1>8 DEF Next
<1>10. TypeOK' <=> Shape' /\ Counted'
  BY Typed, PTL
<1> QED BY <1>9, <1>10 DEF TeardownInv

LEMMA TeardownInvariant == Spec => []TeardownInv
  BY TeardownInit, TeardownNext, PTL DEF Spec

\* The WaitGroup always counts those inside it, so it never panics below zero
\* (service/teardown.go:42).
THEOREM GroupCounts == Spec => []TypeOK
<1>1. TeardownInv => TypeOK
  BY DEF TeardownInv
<1> QED BY <1>1, TeardownInvariant, PTL

\* When Wait returns every service has stopped, every teardown function that had joined
\* before doneChan was closed has run to its end, and none is cut off in the middle
\* (service/teardown.go:48-53).
THEOREM ShutdownClean == Spec => []EndsClean
<1>1. TeardownInv => EndsClean
  <2> SUFFICES ASSUME TeardownInv, main = "returned"
               PROVE  /\ \A s \in Services : service[s] = "stopped"
                      /\ \A f \in intime : func[f] = "finished"
                      /\ \A f \in Funcs : func[f] # "running"
    BY DEF EndsClean
  <2>1. On = {} /\ In = {}
    BY Typed, EmptyGroup DEF TeardownInv, Emptied
  <2>2. Shape /\ Started /\ Joined
    BY Typed DEF TeardownInv
  <2> QED BY <2>1, <2>2 DEF On, In, Shape, Started, Joined
<1> QED BY <1>1, TeardownInvariant, PTL

=============================================================================

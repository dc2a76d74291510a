----------------------------- MODULE TunnelProofs -----------------------------
(***************************************************************************)
(* Proofs about Tunnel.tla, for any number of openings.                    *)
(***************************************************************************)
EXTENDS Tunnel, FiniteSetTheorems, TLAPS

\* The threads whose result the event loop has not seen.
Open == {o \in Opening : thread[o] \in {"preparing", "waiting", "returned", "raised"}}

\* starting says whether there is such a thread, and there is one at most.
StartingIsOneOpening ==
  server # "down" =>
    /\ starting <=> Open # {}
    /\ \A o, p \in Open : o = p

\* The processes in use: that of the tunnel, and one on its way to be the tunnel.
RunningIsAccounted ==
  server # "down" => \A o \in Running : o = tunnel \/ thread[o] \in {"waiting", "returned"}

\* Nothing is opened while a tunnel is active.
NoOpeningBesideActive == server # "down" => ~(starting /\ Active)

\* An opening has no process before its thread launches it.
TunnelWasStarted ==
  \A o \in Opening : thread[o] \in {"unused", "preparing"} => process[o] = "none"

Inv ==
  /\ TypeOK
  /\ StartingIsOneOpening
  /\ RunningIsAccounted
  /\ NoOpeningBesideActive
  /\ TunnelWasStarted

\* It holds when the server starts, with or without a tunnel handed over.
LEMMA InitInv == Init => Inv
<1> SUFFICES ASSUME Init PROVE Inv
  OBVIOUS
<1>1. TypeOK
  BY TunnelAssumption DEF Init, TypeOK, Place
<1>2. Open = {}
  BY DEF Init, Open
<1>3. Running \subseteq {tunnel}
  BY DEF Init, Running
<1> QED
  BY <1>1, <1>2, <1>3
  DEF Init, Inv, StartingIsOneOpening, RunningIsAccounted, NoOpeningBesideActive, TunnelWasStarted

\* Tunnel.stop ends the process it is called on and touches no other.
LEMMA StoppedLemma ==
  ASSUME TypeOK, NEW o, Stopped(o)
  PROVE  /\ process' \in [Opening -> {"none", "running", "ended"}]
         /\ Running' = Running \ {o}
         /\ \A x \in Opening : process[x] = "none" => process'[x] = "none"
<1>1. process' = [x \in Opening |-> IF x = o /\ x \in Running THEN "ended" ELSE process[x]]
  BY DEF Stopped
<1>2. process' \in [Opening -> {"none", "running", "ended"}]
  BY <1>1 DEF TypeOK
<1>3. Running' = Running \ {o}
  BY <1>1 DEF Running
<1>4. \A x \in Opening : process[x] = "none" => process'[x] = "none"
  BY <1>1 DEF Running
<1> QED
  BY <1>2, <1>3, <1>4

\* Every step of the switch, the threads, the processes and the loop keeps it.
LEMMA NextInv == Inv /\ [Next]_vars => Inv'
<1> SUFFICES ASSUME Inv, [Next]_vars PROVE Inv'
  OBVIOUS
<1> USE DEF Inv, StartingIsOneOpening, RunningIsAccounted, NoOpeningBesideActive, TunnelWasStarted
<1>1. CASE SwitchOn /\ (Active \/ starting)
  BY <1>1 DEF SwitchOn, TypeOK, Open, Running, Active
<1>2. CASE SwitchOn /\ ~(Active \/ starting)
  <2>1. PICK o \in Opening : thread[o] = "unused" /\ Goto(o, "preparing")
    BY <1>2 DEF SwitchOn
  <2>2. UNCHANGED <<server, tunnel, process>> /\ starting' = TRUE /\ failed' = FALSE /\ wanted' = TRUE
    BY <1>2 DEF SwitchOn
  <2>3. thread' \in [Opening -> Place] /\ thread'[o] = "preparing"
        /\ \A x \in Opening \ {o} : thread'[x] = thread[x]
    BY <2>1 DEF Goto, TypeOK, Place
  <2>4. server = "up" /\ Open = {}
    BY <1>2 DEF SwitchOn
  <2>5. Open' = {o}
    BY <2>3, <2>4 DEF Open
  <2>6. TypeOK'
    BY <2>1, <2>2, <2>3 DEF TypeOK
  <2>7. Running' = Running /\ ~Active'
    BY <1>2, <2>2 DEF Running, Active
  <2> QED
    BY <2>1, <2>2, <2>3, <2>4, <2>5, <2>6, <2>7 DEF TypeOK, Running
<1>3. CASE SwitchOff \/ Shutdown
  <2>1. Stopped(tunnel) /\ tunnel' = None /\ UNCHANGED <<starting, thread>>
        /\ server = "up" /\ server' \in {"up", "closing"} /\ wanted' \in BOOLEAN /\ failed' = FALSE
    BY <1>3 DEF SwitchOff, Shutdown, TypeOK
  <2>2. /\ process' \in [Opening -> {"none", "running", "ended"}]
        /\ Running' = Running \ {tunnel}
        /\ \A x \in Opening : process[x] = "none" => process'[x] = "none"
    BY <2>1, StoppedLemma
  <2>3. Open' = Open
    BY <2>1 DEF Open
  <2>4. TypeOK'
    BY <2>1, <2>2 DEF TypeOK
  <2>5. ~Active'
    BY <2>1, TunnelAssumption DEF Active, Running
  <2> QED
    BY <2>1, <2>2, <2>3, <2>4, <2>5
<1>4. ASSUME NEW o \in Opening, Launch(o)
      PROVE  Inv'
  <2>1. thread'[o] = "waiting" /\ thread' \in [Opening -> Place]
        /\ \A x \in Opening \ {o} : thread'[x] = thread[x]
    BY <1>4 DEF Launch, Goto, TypeOK, Place
  <2>2. thread[o] = "preparing" /\ UNCHANGED <<server, wanted, tunnel, starting, failed>>
    BY <1>4 DEF Launch
  <2>3. process' \in [Opening -> {"none", "running", "ended"}] /\ process'[o] = "running"
        /\ \A x \in Opening \ {o} : process'[x] = process[x]
    BY <1>4 DEF Launch, TypeOK
  <2>4. Open' = Open /\ o # tunnel
    BY <2>1, <2>2, TunnelAssumption DEF Open, TypeOK
  <2>5. Running' = Running \cup {o}
    BY <2>3 DEF Running
  <2>6. TypeOK'
    BY <2>1, <2>2, <2>3, <2>4 DEF TypeOK
  <2>7. Active' <=> Active
    BY <2>2, <2>4, <2>5 DEF Active
  <2> QED
    BY <2>1, <2>2, <2>3, <2>4, <2>5, <2>6, <2>7 DEF Running
<1>5. ASSUME NEW o \in Opening, PrepareFails(o) \/ Addressed(o)
      PROVE  Inv'
  <2>1. /\ thread'[o] \in {"raised", "returned"} /\ thread' \in [Opening -> Place]
        /\ \A x \in Opening \ {o} : thread'[x] = thread[x]
    BY <1>5 DEF PrepareFails, Addressed, Goto, TypeOK, Place
  <2>2. /\ thread[o] \in {"preparing", "waiting"}
        /\ thread[o] = "waiting" => thread'[o] = "returned"
        /\ UNCHANGED <<server, wanted, tunnel, starting, failed, process>>
    BY <1>5 DEF PrepareFails, Addressed, Goto, TypeOK
  <2>3. Open' = Open /\ Running' = Running /\ o # tunnel
    BY <2>1, <2>2, TunnelAssumption DEF Open, Running, TypeOK
  <2>4. TypeOK'
    BY <2>1, <2>2, <2>3 DEF TypeOK
  <2>5. Active' <=> Active
    BY <2>2, <2>3 DEF Active
  <2> QED
    BY <2>1, <2>2, <2>3, <2>4, <2>5 DEF Running
<1>6. ASSUME NEW o \in Opening, NoAddress(o)
      PROVE  Inv'
  <2>1. /\ thread'[o] = "raised" /\ thread' \in [Opening -> Place]
        /\ \A x \in Opening \ {o} : thread'[x] = thread[x]
    BY <1>6 DEF NoAddress, Goto, TypeOK, Place
  <2>2. thread[o] = "waiting" /\ Stopped(o) /\ UNCHANGED <<server, wanted, tunnel, starting, failed>>
    BY <1>6 DEF NoAddress
  <2>3. /\ process' \in [Opening -> {"none", "running", "ended"}]
        /\ Running' = Running \ {o}
        /\ \A x \in Opening : process[x] = "none" => process'[x] = "none"
    BY <2>2, StoppedLemma
  <2>4. Open' = Open /\ o # tunnel
    BY <2>1, <2>2, TunnelAssumption DEF Open, TypeOK
  <2>5. TypeOK'
    BY <2>1, <2>2, <2>3, <2>4 DEF TypeOK
  <2>6. Active' => Active
    BY <2>2, <2>3 DEF Active
  <2> QED
    BY <2>1, <2>2, <2>3, <2>4, <2>5, <2>6 DEF Running
<1>7. ASSUME NEW o \in Opening, ProcessEnds(o)
      PROVE  Inv'
  <2>1. Stopped(o) /\ UNCHANGED <<server, wanted, tunnel, starting, failed, thread>>
    BY <1>7 DEF ProcessEnds
  <2>2. /\ process' \in [Opening -> {"none", "running", "ended"}]
        /\ Running' = Running \ {o}
        /\ \A x \in Opening : process[x] = "none" => process'[x] = "none"
    BY <2>1, StoppedLemma
  <2>3. Open' = Open
    BY <2>1 DEF Open
  <2>4. TypeOK'
    BY <2>1, <2>2 DEF TypeOK
  <2>5. Active' => Active
    BY <2>1, <2>2 DEF Active
  <2> QED
    BY <2>1, <2>2, <2>3, <2>4, <2>5
<1>8. ASSUME NEW o \in Opening, Publish(o) \/ Report(o)
      PROVE  Inv'
  <2>1. /\ thread'[o] = "done" /\ thread' \in [Opening -> Place]
        /\ \A x \in Opening \ {o} : thread'[x] = thread[x]
    BY <1>8 DEF Publish, Report, Goto, TypeOK, Place
  <2>2. /\ thread[o] \in {"returned", "raised"} /\ server # "down"
        /\ starting' = FALSE /\ failed' \in BOOLEAN
        /\ UNCHANGED <<server, wanted, process>>
        /\ tunnel' = o \/ (tunnel' = tunnel /\ thread[o] = "raised")
    BY <1>8 DEF Publish, Report, TypeOK
  <2>3. Open = {o} /\ starting
    BY <2>2 DEF Open
  <2>4. Open' = {}
    BY <2>1, <2>3 DEF Open
  <2>5. Running' = Running /\ tunnel \notin Running
    BY <2>2, <2>3 DEF Running, Active
  <2>6. TypeOK'
    BY <2>1, <2>2, TunnelAssumption DEF TypeOK
  <2>7. \A x \in Running' : x = tunnel'
    BY <2>2, <2>3, <2>5 DEF Open, Running
  <2> QED
    BY <2>1, <2>2, <2>4, <2>5, <2>6, <2>7
<1>9. CASE LoopEnds
  BY <1>9 DEF LoopEnds, TypeOK
<1>10. CASE UNCHANGED vars
  BY <1>10 DEF vars, TypeOK, Open, Running, Active
<1> QED
  BY <1>1, <1>2, <1>3, <1>4, <1>5, <1>6, <1>7, <1>8, <1>9, <1>10
  DEF Next, ThreadStep, LoopStep

\* What the invariant says of the processes is the property.
LEMMA InvNoForgotten == Inv => NoForgottenProcess
<1> SUFFICES ASSUME Inv, server # "down"
             PROVE  /\ \A o \in Running : o = tunnel \/ (starting /\ thread[o] \in {"waiting", "returned"})
                    /\ Cardinality(Running) <= 1
  BY DEF NoForgottenProcess
<1>1. \A o \in Running : o = tunnel \/ (starting /\ o \in Open /\ thread[o] \in {"waiting", "returned"})
  BY DEF Inv, RunningIsAccounted, StartingIsOneOpening, Open, Running
<1>2. \A o, p \in Running : o = p
  BY <1>1 DEF Inv, NoOpeningBesideActive, StartingIsOneOpening, Active
<1>3. Cardinality(Running) <= 1
  <2>1. CASE Running = {}
    BY <2>1, FS_EmptySet
  <2>2. CASE Running # {}
    <3>1. PICK o \in Running : Running = {o}
      BY <2>2, <1>2
    <3> QED
      BY <3>1, FS_Singleton
  <2> QED
    BY <2>1, <2>2
<1> QED
  BY <1>1, <1>3

\* In every reachable state the whole invariant holds.
LEMMA AlwaysInv == Spec => []Inv
  BY InitInv, NextInv, PTL DEF Spec

\* Every variable keeps its type; self.tunnel is never set by a thread.
THEOREM TunnelTypeCorrect == Spec => []TypeOK
<1>1. Inv => TypeOK
  BY DEF Inv
<1> QED
  BY <1>1, AlwaysInv, PTL

\* Whatever the order of switching on and off, of openings that succeed or fail
\* and of processes that die, at most one cloudflared exposes the gateway, and it
\* is one the switch knows of or the opening it reports.
THEOREM NoProcessIsForgotten == Spec => []NoForgottenProcess
  BY AlwaysInv, InvNoForgotten, PTL

\* An opening under way and a tunnel that works exclude each other.
LEMMA OneMayWork ==
  ASSUME Inv, server # "down"
  PROVE  Cardinality(MayWork) <= 1
<1>1. \A o \in MayWork : o \in Open \/ (o = tunnel /\ Active)
  BY DEF MayWork, Open, Active
<1>2. Active => Open = {}
  BY DEF Inv, StartingIsOneOpening, NoOpeningBesideActive
<1>3. \A o, p \in MayWork : o = p
  BY <1>1, <1>2 DEF Inv, StartingIsOneOpening
<1>4. CASE MayWork = {}
  BY <1>4, FS_EmptySet
<1>5. CASE MayWork # {}
  <2>1. PICK o \in MayWork : MayWork = {o}
    BY <1>3, <1>5
  <2> QED
    BY <2>1, FS_Singleton
<1> QED
  BY <1>4, <1>5

\* While the switch is off, no step makes an address possible that was not.
LEMMA OffStep ==
  ASSUME Inv, [Next]_vars, server # "down", ~wanted'
  PROVE  MayWork' \subseteq MayWork
<1>1. CASE SwitchOn
  BY <1>1 DEF SwitchOn
<1>2. CASE SwitchOff \/ Shutdown
  <2>1. tunnel' = None /\ UNCHANGED thread
    BY <1>2 DEF SwitchOff, Shutdown
  <2> QED
    BY <2>1, TunnelAssumption DEF MayWork
<1>3. ASSUME NEW o \in Opening, ThreadStep(o)
      PROVE  MayWork' \subseteq MayWork
  <2>1. /\ o \in MayWork /\ tunnel' = tunnel
        /\ \A x \in Opening \ {o} : thread'[x] = thread[x]
    BY <1>3 DEF ThreadStep, Launch, PrepareFails, Addressed, NoAddress, Goto, MayWork, Inv, TypeOK
  <2>2. \A x \in Opening \ {o} : process'[x] = "running" => process[x] = "running"
    BY <1>3 DEF ThreadStep, Launch, PrepareFails, Addressed, NoAddress, Stopped, Inv, TypeOK
  <2> QED
    BY <2>1, <2>2 DEF MayWork, Running
<1>4. ASSUME NEW o \in Opening, LoopStep(o)
      PROVE  MayWork' \subseteq MayWork
  <2>1. /\ thread'[o] = "done" /\ UNCHANGED process
        /\ \A x \in Opening \ {o} : thread'[x] = thread[x]
    BY <1>4 DEF LoopStep, Publish, Report, Goto, Inv, TypeOK
  <2>2. tunnel' = tunnel \/ (tunnel' = o /\ thread[o] = "returned")
    BY <1>4 DEF LoopStep, Publish, Report
  <2> QED
    BY <2>1, <2>2 DEF MayWork, Running
<1>5. ASSUME NEW o \in Opening, ProcessEnds(o)
      PROVE  MayWork' \subseteq MayWork
  <2>1. Stopped(o) /\ UNCHANGED <<tunnel, thread>>
    BY <1>5 DEF ProcessEnds
  <2>2. Running' = Running \ {o}
    BY <2>1, StoppedLemma DEF Inv
  <2> QED
    BY <2>1, <2>2 DEF MayWork
<1>6. CASE LoopEnds \/ UNCHANGED vars
  BY <1>6 DEF LoopEnds, vars, MayWork, Running
<1> QED
  BY <1>1, <1>2, <1>3, <1>4, <1>5, <1>6 DEF Next

\* While the switch is off, an address that comes to work is the one whose opening
\* was under way when it was turned off, and no other comes after it.
THEOREM OffIsFinal == Spec => OffStaysOff
<1>1. Inv /\ [Next]_vars =>
        [server # "down" /\ ~wanted /\ ~wanted' =>
           MayWork' \subseteq MayWork /\ Cardinality(MayWork) <= 1]_vars
  BY OneMayWork, OffStep
<1> QED
  BY <1>1, AlwaysInv, PTL DEF Spec, OffStaysOff

=============================================================================

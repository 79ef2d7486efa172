--------------------------- MODULE RealtimeProofs ---------------------------
(***************************************************************************)
(* The registry's count, its cap, and what an Ok from drain means, for any *)
(* number of connections, drains and payloads.                             *)
(*                                                                         *)
(* Every action is, for the registry, one of a few moves: a connection     *)
(* changes location on one side of the guard, takes a guard, gives one up, *)
(* or a drain advances.  Each move preserves the inductive invariant, and  *)
(* Moves shows that there are no others.                                   *)
(***************************************************************************)
EXTENDS Realtime, FiniteSetTheorems, TLAPS

\* The types the argument needs.
RegistryType ==
    /\ live \in Nat
    /\ at \in [Conns -> Locations]
    /\ cur \in [Conns -> Nat]
    /\ drain \in [Drainers -> {"idle", "notify", "look", "waiting", "count", "ok", "err"}]
    /\ before \in [Drainers -> SUBSET Conns]

\* What a pending compare-and-swap still knows about the value it expects.
Expectations ==
    \A c \in Conns : /\ at[c] = "cas" => cur[c] < MaxConnections
                     /\ at[c] = "dropping" => cur[c] > 0

\* A connection a drain found open is open or closed, never a candidate again.
FoundOpen == \A d \in Drainers : \A c \in before[d] : at[c] \in Guarded \cup {"gone"}

Bounded == live <= MaxConnections

IInv == RegistryType /\ Expectations /\ FoundOpen /\ Bounded /\ LiveExact /\ DrainOkMeansClosed
-----------------------------------------------------------------------------
\* The moves.  A connection changes location and keeps, or stays without, its guard.
Walk(c, l) ==
    /\ at[c] # "gone" /\ l \in Locations \ {"gone"}
    /\ l \in Guarded <=> at[c] \in Guarded
    /\ at' = [at EXCEPT ![c] = l]
    /\ \/ cur' = cur /\ l \notin {"cas", "dropping"}
       \/ /\ cur' = [cur EXCEPT ![c] = live]
          /\ l = "cas" => live < MaxConnections
          /\ l = "dropping" => live # 0
    /\ UNCHANGED <<live, drain, before>>

\* A departing guard finds the count already at its floor.
Floor(c) ==
    /\ at[c] = "drop" /\ live = 0
    /\ at' = [at EXCEPT ![c] = "gone"]
    /\ UNCHANGED <<live, cur, drain, before>>

Enter(c) ==
    /\ at[c] = "cas" /\ live = cur[c] /\ live' = live + 1
    /\ at' = [at EXCEPT ![c] = "guard"]
    /\ UNCHANGED <<cur, drain, before>>

Exit(c) ==
    /\ at[c] = "dropping" /\ live = cur[c] /\ live' = live - 1
    /\ at' = [at EXCEPT ![c] = "gone"]
    /\ UNCHANGED <<cur, drain, before>>

Advance(d) ==
    /\ \E s \in {"notify", "look", "waiting", "count", "err"} : drain' = [drain EXCEPT ![d] = s]
    /\ drain[d] # "ok"
    /\ before' = before \/ before' = [before EXCEPT ![d] = Holders]
    /\ UNCHANGED <<live, at, cur>>

Succeed(d) ==
    /\ live = 0
    /\ drain' = [drain EXCEPT ![d] = "ok"]
    /\ UNCHANGED <<live, at, cur, before>>

Still == UNCHANGED <<live, at, cur, drain, before>>

Move ==
    \/ \E c \in Conns : \/ \E l \in Locations : Walk(c, l)
                        \/ Floor(c) \/ Enter(c) \/ Exit(c)
    \/ \E d \in Drainers : Advance(d) \/ Succeed(d)
    \/ Still
-----------------------------------------------------------------------------
\* A connection that changes location on its side of the guard.
LEMMA WalkStep ==
    ASSUME IInv, NEW c \in Conns, NEW l \in Locations, Walk(c, l)
    PROVE  IInv'
<1>1. RegistryType'
  BY DEF IInv, RegistryType, Walk
<1>2. \A k \in Conns : at'[k] = IF k = c THEN l ELSE at[k]
  BY DEF IInv, RegistryType, Walk
<1>3. Expectations'
  BY <1>2 DEF IInv, RegistryType, Expectations, Walk
<1>4. Holders' = Holders
  BY <1>2 DEF Holders, Walk
<1>5. FoundOpen'
  BY <1>2 DEF IInv, RegistryType, FoundOpen, Walk
<1>6. DrainOkMeansClosed'
  BY <1>2 DEF IInv, RegistryType, DrainOkMeansClosed, Walk
<1> QED
  BY <1>1, <1>3, <1>4, <1>5, <1>6 DEF IInv, LiveExact, Bounded, Walk

\* Holders is finite, so that counting it means something.
LEMMA HoldersFinite == IsFiniteSet(Holders) /\ Cardinality(Holders) \in Nat
<1>1. Holders \subseteq Conns
  BY DEF Holders
<1> QED
  BY <1>1, RealtimeConstants, FS_Subset, FS_CardinalityType

\* While a guard exists the count is positive: the floor in drop is never met.
LEMMA GuardCounts ==
    ASSUME IInv, NEW c \in Conns, at[c] \in Guarded
    PROVE  live # 0
<1>1. c \in Holders
  BY DEF Holders
<1>2. Cardinality(Holders) # 0
  BY <1>1, HoldersFinite, FS_EmptySet
<1> QED
  BY <1>2 DEF IInv, LiveExact

\* A won compare-and-swap of acquire.
LEMMA EnterStep ==
    ASSUME IInv, NEW c \in Conns, Enter(c)
    PROVE  IInv'
<1>1. RegistryType'
  BY DEF IInv, RegistryType, Enter, Locations, Guarded
<1>2. \A k \in Conns : at'[k] = IF k = c THEN "guard" ELSE at[k]
  BY DEF IInv, RegistryType, Enter
<1>3. Expectations'
  BY <1>2 DEF IInv, RegistryType, Expectations, Enter
<1>4. Holders' = Holders \cup {c} /\ c \notin Holders
  BY <1>2 DEF Holders, Enter, Guarded
<1>5. Cardinality(Holders') = Cardinality(Holders) + 1
  BY <1>4, HoldersFinite, FS_AddElement
<1>6. LiveExact'
  BY <1>5 DEF IInv, LiveExact, Enter
<1>7. Bounded'
  <2>1. cur[c] \in Nat /\ cur[c] < MaxConnections
    BY DEF IInv, RegistryType, Expectations, Enter
  <2> QED
    BY <2>1, RealtimeConstants DEF Bounded, Enter
<1>8. FoundOpen'
  BY <1>2 DEF IInv, RegistryType, FoundOpen, Enter, Guarded
<1>9. DrainOkMeansClosed'
  BY <1>2 DEF IInv, RegistryType, DrainOkMeansClosed, Enter
<1> QED
  BY <1>1, <1>3, <1>6, <1>7, <1>8, <1>9 DEF IInv

\* A won compare-and-swap of ConnectionGuard::drop.
LEMMA ExitStep ==
    ASSUME IInv, NEW c \in Conns, Exit(c)
    PROVE  IInv'
<1>0. live \in Nat /\ live > 0
  BY DEF IInv, RegistryType, Expectations, Exit
<1>1. RegistryType'
  BY <1>0 DEF IInv, RegistryType, Exit, Locations, Guarded
<1>2. \A k \in Conns : at'[k] = IF k = c THEN "gone" ELSE at[k]
  BY DEF IInv, RegistryType, Exit
<1>3. Expectations'
  BY <1>2 DEF IInv, RegistryType, Expectations, Exit
<1>4. Holders' = Holders \ {c} /\ c \in Holders
  BY <1>2 DEF Holders, Exit, Guarded
<1>5. Cardinality(Holders') = Cardinality(Holders) - 1
  BY <1>4, HoldersFinite, FS_RemoveElement
<1>6. LiveExact'
  BY <1>5 DEF IInv, LiveExact, Exit
<1>7. Bounded'
  BY <1>0, RealtimeConstants DEF IInv, Bounded, Exit
<1>8. FoundOpen'
  BY <1>2 DEF IInv, RegistryType, FoundOpen, Exit
<1>9. DrainOkMeansClosed'
  BY <1>2 DEF IInv, RegistryType, DrainOkMeansClosed, Exit
<1> QED
  BY <1>1, <1>3, <1>6, <1>7, <1>8, <1>9 DEF IInv

\* A drain that begins, notifies, waits or fails.
LEMMA AdvanceStep ==
    ASSUME IInv, NEW d \in Drainers, Advance(d)
    PROVE  IInv'
<1>0. Holders \subseteq Conns /\ Holders' = Holders
  BY DEF Holders, Advance
<1>1. RegistryType'
  BY <1>0 DEF IInv, RegistryType, Advance
<1>2. Expectations' /\ LiveExact' /\ Bounded'
  BY <1>0 DEF IInv, Expectations, LiveExact, Bounded, Advance
<1>3. \A e \in Drainers : before'[e] = before[e] \/ before'[e] = Holders
  BY DEF IInv, RegistryType, Advance
<1>4. FoundOpen'
  BY <1>3 DEF IInv, FoundOpen, Holders, Advance
<1>5. DrainOkMeansClosed'
  BY DEF IInv, RegistryType, DrainOkMeansClosed, Advance
<1> QED
  BY <1>1, <1>2, <1>4, <1>5 DEF IInv

\* A drain that reads a count of zero: no guard is left, so what it found open is gone.
LEMMA SucceedStep ==
    ASSUME IInv, NEW d \in Drainers, Succeed(d)
    PROVE  IInv'
<1>1. RegistryType'
  BY DEF IInv, RegistryType, Succeed
<1>2. Holders' = Holders
  BY DEF Holders, Succeed
<1>3. Expectations' /\ LiveExact' /\ Bounded' /\ FoundOpen'
  BY <1>2 DEF IInv, Expectations, LiveExact, Bounded, FoundOpen, Succeed
<1>4. \A c \in Conns : at[c] \notin Guarded
  BY GuardCounts DEF Succeed
<1>5. \A c \in before[d] : at[c] = "gone"
  BY <1>4 DEF IInv, RegistryType, FoundOpen
<1>6. DrainOkMeansClosed'
  BY <1>5 DEF IInv, RegistryType, DrainOkMeansClosed, Succeed
<1> QED
  BY <1>1, <1>3, <1>6 DEF IInv

\* A step the registry does not see.
LEMMA StillStep ==
    ASSUME IInv, Still
    PROVE  IInv'
<1>1. Holders' = Holders
  BY DEF Holders, Still
<1> QED
  BY <1>1 DEF IInv, RegistryType, Expectations, FoundOpen, Bounded, LiveExact,
              DrainOkMeansClosed, Still

\* Every move preserves the invariant; the floor of drop is unreachable.
LEMMA MoveStep ==
    ASSUME IInv, Move
    PROVE  IInv'
<1>1. ASSUME NEW c \in Conns, Floor(c) PROVE IInv'
  BY <1>1, GuardCounts DEF Floor, Guarded
<1> QED
  BY <1>1, WalkStep, EnterStep, ExitStep, AdvanceStep, SucceedStep, StillStep DEF Move
-----------------------------------------------------------------------------
\* Every step of the specification is one of the moves.
LEMMA Moves ==
    ASSUME IInv, [Next]_vars
    PROVE  Move
<1> USE DEF Goto, Locations, Guarded
<1>1. ASSUME NEW c \in Conns, ConnStep(c) PROVE Move
  <2>1. CASE AcquireLoad(c)
    <3>1. CASE live >= MaxConnections
      <4>1. Walk(c, "refused")
        BY <2>1, <3>1 DEF AcquireLoad, Walk
      <4> QED BY <4>1 DEF Move
    <3>2. CASE ~(live >= MaxConnections)
      <4>1. live < MaxConnections
        BY <3>2, RealtimeConstants DEF IInv, RegistryType
      <4>2. Walk(c, "cas")
        BY <2>1, <3>2, <4>1 DEF AcquireLoad, Walk
      <4> QED BY <4>2 DEF Move
    <3> QED BY <3>1, <3>2
  <2>2. CASE AcquireCas(c)
    <3>1. Enter(c) \/ Walk(c, "admit")
      BY <2>2 DEF AcquireCas, Enter, Walk
    <3> QED BY <3>1 DEF Move
  <2>3. CASE Subscribe(c)
    <3>1. Walk(c, "loop") \/ Walk(c, "emit")
      BY <2>3 DEF Subscribe, Walk
    <3> QED BY <3>1 DEF Move
  <2>4. CASE DropLoad(c)
    <3>1. Floor(c) \/ Walk(c, "dropping")
      BY <2>4 DEF DropLoad, Floor, Walk
    <3> QED BY <3>1 DEF Move
  <2>5. CASE DropCas(c)
    <3>1. Exit(c) \/ Walk(c, "drop")
      BY <2>5 DEF DropCas, Exit, Walk
    <3> QED BY <3>1 DEF Move
  <2>6. CASE Arm(c) \/ CheckFlag(c)
    <3>1. Walk(c, "armed") \/ Walk(c, "wait")
      BY <2>6 DEF Arm, CheckFlag, Walk
    <3> QED BY <3>1 DEF Move
  <2>7. CASE SsePoll(c) \/ SseRecv(c)
    <3>1. Walk(c, "drop") \/ Walk(c, "recv") \/ Walk(c, "emit")
      BY <2>7 DEF SsePoll, SseRecv, Walk
    <3> QED BY <3>1 DEF Move
  <2> QED
    BY <1>1, <2>1, <2>2, <2>3, <2>4, <2>5, <2>6, <2>7 DEF ConnStep
<1>2. ASSUME NEW c \in WsConns, NeverStarts(c) \/ WsArms(c) \/ SendDone(c) PROVE Move
  <2>1. c \in Conns
    BY DEF Conns
  <2>2. CASE NeverStarts(c) \/ LeaveArm(c) \/ DrainArm(c) \/ PongArm(c)
    <3>1. Walk(c, "drop") \/ Walk(c, "closing") \/ Walk(c, "loop")
      BY <2>2 DEF NeverStarts, LeaveArm, DrainArm, PongArm, Walk
    <3> QED BY <2>1, <3>1 DEF Move
  <2>3. CASE PayloadArm(c) \/ HeartbeatArm(c)
    <3>1. Walk(c, "loop") \/ Walk(c, "sending") \/ Walk(c, "closing")
      BY <2>3 DEF PayloadArm, HeartbeatArm, Walk
    <3> QED BY <2>1, <3>1 DEF Move
  <2>4. CASE SendDone(c)
    <3>1. Walk(c, "loop") \/ Walk(c, "drop")
      BY <2>4 DEF SendDone, Walk
    <3> QED BY <2>1, <3>1 DEF Move
  <2> QED
    BY <1>2, <2>2, <2>3, <2>4 DEF WsArms
<1>3. ASSUME NEW c \in SseConns, SseEmit(c) \/ SseLeave(c) PROVE Move
  <2>1. Walk(c, "poll") \/ Walk(c, "drop")
    BY <1>3 DEF SseEmit, SseLeave, Walk
  <2> QED BY <2>1 DEF Move, Conns
<1>4. ASSUME NEW d \in Drainers, DrainStep(d) PROVE Move
  <2>1. Advance(d) \/ Succeed(d)
    BY <1>4 DEF DrainStep, DrainSwap, DrainNotify, DrainLook, DrainWait, DrainCount,
                Advance, Succeed
  <2> QED BY <2>1 DEF Move
<1>5. CASE Publish \/ AppDrops \/ \E c \in Conns, how \in {"mute", "stall"} : Misbehave(c, how)
  BY <1>5 DEF Publish, AppDrops, Misbehave, Move, Still
<1>6. CASE UNCHANGED vars
  BY <1>6 DEF vars, Move, Still
<1> QED
  BY <1>1, <1>2, <1>3, <1>4, <1>5, <1>6 DEF Next

\* An empty registry satisfies the invariant.
LEMMA InitInv == Init => IInv
<1> SUFFICES ASSUME Init PROVE IInv
  OBVIOUS
<1>1. RegistryType
  BY DEF Init, RegistryType, Locations
<1>2. Holders = {}
  BY DEF Init, Holders, Guarded
<1>3. LiveExact
  BY <1>2, FS_EmptySet DEF Init, LiveExact
<1>4. Expectations /\ FoundOpen /\ Bounded /\ DrainOkMeansClosed
  BY RealtimeConstants DEF Init, Expectations, FoundOpen, Bounded, DrainOkMeansClosed
<1> QED
  BY <1>1, <1>3, <1>4 DEF IInv

\* The inductive invariant holds throughout.
LEMMA InvHolds == Spec => []IInv
<1>1. IInv /\ [Next]_vars => IInv'
  BY Moves, MoveStep
<1> QED
  BY <1>1, InitInv, PTL DEF Spec

\* The counter equals the number of live guards whatever loads and
\* compare-and-swaps of acquire and of ConnectionGuard::drop interleave.
THEOREM LiveExactCorrect == Spec => []LiveExact
<1>1. IInv => LiveExact
  BY DEF IInv
<1> QED
  BY <1>1, InvHolds, PTL

\* acquire never lets in more connections than max_connections.
THEOREM CapHoldsCorrect == Spec => []CapHolds
<1>1. IInv => CapHolds
  BY DEF IInv, LiveExact, Bounded, CapHolds
<1> QED
  BY <1>1, InvHolds, PTL

\* An Ok from realtime::drain means every connection it found open is closed.
THEOREM DrainOkCorrect == Spec => []DrainOkMeansClosed
<1>1. IInv => DrainOkMeansClosed
  BY DEF IInv
<1> QED
  BY <1>1, InvHolds, PTL
=============================================================================

------------------------- MODULE RuntimeManagerProofs -------------------------
(***************************************************************************)
(* What the runtime manager guarantees for any number of requests, savers  *)
(* and settings versions: a runtime that somebody leases is not closed,    *)
(* and a shutdown that returns leaves no runtime open or being built.      *)
(***************************************************************************)
EXTENDS RuntimeManager, FiniteSetTheorems, TLAPS

Lives == {"none", "open", "retired", "closing", "closed"}
Leases == [version : 0 .. MaxVersion, pc : {"free", "leased", "cancelled", "ended"}]
Reloads == [pc : {"idle", "loop", "saved", "build", "discard"}, version : 0 .. MaxVersion]
Stops == {"up", "controller", "reloads", "slots", "down"}

UsersOf(v) == {u \in Users : lease[u].pc = "leased" /\ lease[u].version = v}

\* What is counted: the leases of each version, none of them for a runtime that
\* does not exist or is being closed.
Counted ==
    /\ \A u \in Users : lease[u].pc = "leased" => lease[u].version \in Versions
    /\ \A v \in Versions :
          /\ active[v] = Cardinality(UsersOf(v))
          /\ slot[v] \in {"none", "closing", "closed"} => active[v] = 0

\* Only the current runtime is open, until the shutdown has retired it.
OnlyCurrent ==
    \A v \in Versions : slot[v] = "open" <=> v = current /\ stop \notin {"slots", "down"}

\* Nothing is built once the reloads have settled.
Settled ==
    /\ stop \in {"slots", "down"} => \A l \in Loaders : reload[l].pc \notin {"build", "discard"}
    /\ stop = "down" => \A v \in Versions : slot[v] \in {"none", "closed"}

Typed ==
    /\ stored \in Versions /\ latest \in Versions /\ current \in Versions
    /\ requested \in BOOLEAN /\ stop \in Stops
    /\ slot \in [Versions -> Lives] /\ active \in [Versions -> Nat]
    /\ lease \in [Users -> Leases] /\ reload \in [Loaders -> Reloads]

Inv == Typed /\ Counted /\ OnlyCurrent /\ Settled

LEMMA FirstVersion ==
    ASSUME RuntimeAssumption
    PROVE  1 \in Versions /\ 0 \in 0 .. MaxVersion /\ Versions \subseteq 0 .. MaxVersion
  BY DEF RuntimeAssumption, Versions

LEMMA FiniteUsers ==
    ASSUME RuntimeAssumption, NEW v
    PROVE  /\ IsFiniteSet(UsersOf(v)) /\ Cardinality(UsersOf(v)) \in 0 .. Cardinality(Users)
           /\ Cardinality(Users) \in Nat
  <1>1. UsersOf(v) \subseteq Users /\ IsFiniteSet(Users)
    BY DEF UsersOf, RuntimeAssumption
  <1>2. IsFiniteSet(UsersOf(v)) /\ Cardinality(UsersOf(v)) <= Cardinality(Users)
    BY <1>1, FS_Subset
  <1>3. Cardinality(UsersOf(v)) \in Nat /\ Cardinality(Users) \in Nat
    BY <1>1, <1>2, FS_CardinalityType
  <1>4. QED
    BY <1>2, <1>3

\* A user who has a lease is counted.
LEMMA UserIsCounted ==
    ASSUME RuntimeAssumption, NEW u \in Users, NEW v \in Versions, u \in UsersOf(v)
    PROVE  Cardinality(UsersOf(v)) > 0
  <1>1. Cardinality(UsersOf(v)) # 0
    BY FiniteUsers, FS_EmptySet
  <1>2. QED
    BY <1>1, FiniteUsers
-----------------------------------------------------------------------------
(* Reloads.                                                                *)

\* A loader returns, or is somewhere else with the version that it has.
LEMMA LoaderMoves ==
    ASSUME RuntimeAssumption, reload \in [Loaders -> Reloads], NEW l \in Loaders,
           NEW pc \in {"idle", "loop", "saved", "build", "discard"},
           reload' = [reload EXCEPT ![l].pc = pc]
    PROVE  /\ reload' \in [Loaders -> Reloads]
           /\ reload'[l].pc = pc /\ reload'[l].version = reload[l].version
           /\ \A k \in Loaders : k # l => reload'[k] = reload[k]
  <1>1. reload' \in [Loaders -> Reloads]
    BY Zenon DEF Reloads
  <1>2. reload'[l].pc = pc /\ reload'[l].version = reload[l].version
    BY Zenon DEF Reloads
  <1>3. QED
    BY <1>1, <1>2

LEMMA LoaderTakes ==
    ASSUME RuntimeAssumption, reload \in [Loaders -> Reloads], NEW l \in Loaders,
           NEW v \in 0 .. MaxVersion, NEW pc \in {"idle", "loop", "saved"},
           reload' = [reload EXCEPT ![l] = [pc |-> pc, version |-> v]]
    PROVE  /\ reload' \in [Loaders -> Reloads]
           /\ \A k \in Loaders : reload'[k].pc = reload[k].pc \/ reload'[k].pc \in {"idle", "loop", "saved"}
  <1>1. [pc |-> pc, version |-> v] \in Reloads
    BY DEF Reloads
  <1>2. QED
    BY <1>1

LEMMA LoaderReturns ==
    ASSUME RuntimeAssumption, reload \in [Loaders -> Reloads], NEW l \in Loaders,
           reload' = Returns(l)
    PROVE  /\ reload' \in [Loaders -> Reloads]
           /\ \A k \in Loaders : reload'[k].pc = reload[k].pc \/ reload'[k].pc \in {"idle", "loop", "saved"}
  <1>1. CASE l = Controller
    BY <1>1, FirstVersion, LoaderTakes DEF Returns
  <1>2. CASE l # Controller
    BY <1>2, FirstVersion, LoaderTakes DEF Returns, NoReload
  <1>3. QED
    BY <1>1, <1>2

\* A step that changes no runtime and no lease.
LEMMA QuietStep ==
    ASSUME RuntimeAssumption, Inv, UNCHANGED <<current, slot, active, lease>>,
           stored' \in Versions, latest' \in Versions, requested' \in BOOLEAN,
           \/ stop' = stop
           \/ stop' \in Stops /\ stop \notin {"slots", "down"} /\ stop' \notin {"slots", "down"},
           reload' \in [Loaders -> Reloads],
           stop' \in {"slots", "down"} => \A l \in Loaders : reload'[l].pc \notin {"build", "discard"}
    PROVE  Inv'
  <1>1. Typed'
    BY DEF Inv, Typed
  <1>2. Counted'
    BY DEF Inv, Counted, UsersOf
  <1>3. OnlyCurrent' /\ Settled'
    BY DEF Inv, OnlyCurrent, Settled
  <1>4. QED
    BY <1>1, <1>2, <1>3 DEF Inv

\* Loaders go on without building or discarding more.
LEMMA LoaderStep ==
    ASSUME RuntimeAssumption, Inv, UNCHANGED <<current, slot, active, lease, stop>>,
           stored' \in Versions, latest' \in Versions, requested' \in BOOLEAN,
           reload' \in [Loaders -> Reloads],
           \A l \in Loaders : reload'[l].pc = reload[l].pc \/ reload'[l].pc \in {"idle", "loop", "saved"}
    PROVE  Inv'
  <1>1. stop' \in {"slots", "down"} => \A l \in Loaders : reload'[l].pc \notin {"build", "discard"}
    BY DEF Inv, Settled
  <1>2. QED
    BY <1>1, QuietStep
-----------------------------------------------------------------------------
(* Leases and slots.                                                       *)

\* Draining changes retired runtimes without leases only.
LEMMA Drained ==
    ASSUME NEW s \in [Versions -> Lives], NEW n
    PROVE  /\ AfterDrain(s, n) \in [Versions -> Lives]
           /\ \A v \in Versions :
                \/ AfterDrain(s, n)[v] = s[v]
                \/ s[v] = "retired" /\ AfterDrain(s, n)[v] = "closing" /\ n[v] = 0
  BY DEF AfterDrain, Lives

LEMMA AcquireKeepsInv ==
    ASSUME RuntimeAssumption, Inv, NEW u \in Users, Acquire(u)
    PROVE  Inv'
  <1> DEFINE new == [version |-> current, pc |-> "leased"]
  <1>1. /\ lease[u].pc = "free" /\ ~Closing
        /\ active' = [active EXCEPT ![current] = @ + 1]
        /\ lease' = [lease EXCEPT ![u] = new]
        /\ UNCHANGED <<stored, current, slot, latest, reload, requested, stop>>
    BY DEF Acquire
  <1>2. new \in Leases /\ current \in Versions
    BY FirstVersion DEF Inv, Typed, Leases
  <1>3. Typed'
    BY <1>1, <1>2 DEF Inv, Typed
  <1>4. slot[current] = "open"
    BY <1>1, <1>2 DEF Inv, OnlyCurrent, Closing
  <1>5. lease'[u] = new /\ \A t \in Users : t # u => lease'[t] = lease[t]
    BY <1>1 DEF Inv, Typed
  <1>6. UsersOf(current)' = UsersOf(current) \cup {u} /\ u \notin UsersOf(current)
    BY <1>1, <1>5 DEF UsersOf
  <1>7. Cardinality(UsersOf(current)') = Cardinality(UsersOf(current)) + 1
    BY <1>6, FiniteUsers, FS_AddElement
  <1>8. \A v \in Versions : v # current => UsersOf(v)' = UsersOf(v)
    BY <1>1, <1>5 DEF UsersOf
  <1>9. Counted'
    <2>1. \A t \in Users : lease'[t].pc = "leased" => lease'[t].version \in Versions
      BY <1>2, <1>5 DEF Inv, Counted
    <2>2. ASSUME NEW v \in Versions
          PROVE  /\ active'[v] = Cardinality(UsersOf(v)')
                 /\ slot'[v] \in {"none", "closing", "closed"} => active'[v] = 0
      <3>1. CASE v = current
        BY <1>1, <1>2, <1>4, <1>7, <3>1 DEF Inv, Counted, Typed
      <3>2. CASE v # current
        BY <1>1, <1>8, <3>2 DEF Inv, Counted, Typed
      <3>3. QED
        BY <3>1, <3>2
    <2>3. QED
      BY <1>1, <2>1, <2>2 DEF Counted, Versions
  <1>10. OnlyCurrent' /\ Settled'
    BY <1>1 DEF Inv, OnlyCurrent, Settled
  <1>11. QED
    BY <1>3, <1>9, <1>10 DEF Inv

LEMMA LetsGoKeepsInv ==
    ASSUME RuntimeAssumption, Inv, NEW u \in Users, NEW pc \in {"ended", "cancelled"}, LetsGo(u, pc)
    PROVE  Inv'
  <1>0. PICK w \in Versions : w = lease[u].version
    BY DEF Inv, Counted, LetsGo
  <1>1. /\ lease[u].pc = "leased" /\ lease' = [lease EXCEPT ![u].pc = pc]
        /\ active' = [active EXCEPT ![w] = @ - 1]
        /\ slot' = AfterDrain(slot, active')
        /\ UNCHANGED <<stored, current, latest, reload, requested, stop>>
    BY <1>0 DEF LetsGo
  <1>2. lease \in [Users -> Leases] /\ w \in Versions /\ u \in UsersOf(w)
    BY <1>0, <1>1 DEF Inv, Typed, UsersOf
  <1>3. lease' \in [Users -> Leases]
    BY <1>1, <1>2, Zenon DEF Leases
  <1>4. lease'[u].pc = pc
    BY <1>1, <1>2, Zenon DEF Leases
  <1>5. \A t \in Users : t # u => lease'[t] = lease[t]
    BY <1>1, <1>2
  <1>6. active[w] = Cardinality(UsersOf(w)) /\ active[w] > 0
    BY <1>2, UserIsCounted DEF Inv, Counted
  <1>7. UsersOf(w)' = UsersOf(w) \ {u}
    BY <1>4, <1>5 DEF UsersOf
  <1>8. Cardinality(UsersOf(w)') = Cardinality(UsersOf(w)) - 1
    BY <1>2, <1>7, FiniteUsers, FS_RemoveElement
  <1>9. \A v \in Versions : v # w => UsersOf(v)' = UsersOf(v)
    BY <1>0, <1>1, <1>4, <1>5 DEF UsersOf
  <1>10. /\ slot' \in [Versions -> Lives]
         /\ \A v \in Versions :
              \/ slot'[v] = slot[v]
              \/ slot[v] = "retired" /\ slot'[v] = "closing" /\ active'[v] = 0
    BY <1>1 DEF Inv, Typed, AfterDrain, Lives
  <1>11. active' \in [Versions -> Nat] /\ active'[w] = active[w] - 1
    BY <1>1, <1>2, <1>6 DEF Inv, Typed
  <1>12. \A v \in Versions : v # w => active'[v] = active[v]
    BY <1>1 DEF Inv, Typed
  <1>13. Typed'
    BY <1>1, <1>3, <1>10, <1>11 DEF Inv, Typed
  <1>14. Counted'
    <2>1. \A t \in Users : lease'[t].pc = "leased" => lease'[t].version \in Versions
      BY <1>4, <1>5 DEF Inv, Counted
    <2>2. ASSUME NEW v \in Versions
          PROVE  /\ active'[v] = Cardinality(UsersOf(v)')
                 /\ slot'[v] \in {"none", "closing", "closed"} => active'[v] = 0
      <3>1. CASE v = w
        <4>1. UsersOf(v)' = UsersOf(w)'
          BY <3>1 DEF UsersOf
        <4>2. active'[v] = Cardinality(UsersOf(v)')
          BY <1>6, <1>8, <1>11, <3>1, <4>1
        <4>3. slot[v] \notin {"none", "closing", "closed"}
          BY <1>6, <3>1 DEF Inv, Counted
        <4>4. QED
          BY <1>10, <4>2, <4>3
      <3>2. CASE v # w
        BY <1>9, <1>10, <1>12, <3>2 DEF Inv, Counted
      <3>3. QED
        BY <3>1, <3>2
    <2>3. QED
      BY <2>1, <2>2 DEF Counted, Versions
  <1>15. OnlyCurrent' /\ Settled'
    BY <1>1, <1>10 DEF Inv, OnlyCurrent, Settled, Versions
  <1>16. QED
    BY <1>13, <1>14, <1>15 DEF Inv

LEMMA ReleaseAgainKeepsInv ==
    ASSUME RuntimeAssumption, Inv, NEW u \in Users, ReleaseAgain(u)
    PROVE  Inv'
  <1>1. /\ lease[u].pc \in {"ended", "cancelled"} /\ lease' = [lease EXCEPT ![u] = NoLease]
        /\ UNCHANGED <<stored, current, slot, active, latest, reload, requested, stop>>
    BY DEF ReleaseAgain
  <1>2. NoLease \in Leases /\ NoLease.pc = "free"
    BY FirstVersion DEF NoLease, Leases
  <1>3. Typed'
    BY <1>1, <1>2 DEF Inv, Typed
  <1>4. /\ lease'[u].pc = "free" /\ \A t \in Users : t # u => lease'[t] = lease[t]
    BY <1>1, <1>2 DEF Inv, Typed
  <1>5. \A v \in Versions : UsersOf(v)' = UsersOf(v)
    BY <1>1, <1>4 DEF UsersOf
  <1>6. Counted'
    BY <1>1, <1>4, <1>5 DEF Inv, Counted, Versions
  <1>7. OnlyCurrent' /\ Settled'
    BY <1>1 DEF Inv, OnlyCurrent, Settled
  <1>8. QED
    BY <1>3, <1>6, <1>7 DEF Inv

\* Runtimes change without a change of the leases.
LEMMA SlotStep ==
    ASSUME RuntimeAssumption, Inv, UNCHANGED <<active, lease, stored, latest, requested>>,
           slot' \in [Versions -> Lives], current' \in Versions, stop' \in Stops,
           reload' \in [Loaders -> Reloads],
           \A v \in Versions : slot'[v] \in {"none", "closing", "closed"} => active[v] = 0,
           OnlyCurrent', Settled'
    PROVE  Inv'
  <1>1. Typed'
    BY DEF Inv, Typed
  <1>2. Counted'
    BY DEF Inv, Counted, UsersOf, Versions
  <1>3. QED
    BY <1>1, <1>2 DEF Inv

LEMMA FinishCloseKeepsInv ==
    ASSUME RuntimeAssumption, Inv, NEW v \in Versions, FinishClose(v)
    PROVE  Inv'
  <1>1. /\ slot[v] = "closing" /\ slot' = [slot EXCEPT ![v] = "closed"]
        /\ UNCHANGED <<stored, current, active, lease, latest, reload, requested, stop>>
    BY DEF FinishClose
  <1>2. slot' \in [Versions -> Lives]
    BY <1>1 DEF Inv, Typed, Lives
  <1>3. slot'[v] = "closed" /\ \A w \in Versions : w # v => slot'[w] = slot[w]
    BY <1>1 DEF Inv, Typed
  <1>4. \A w \in Versions : slot'[w] \in {"none", "closing", "closed"} => active[w] = 0
    BY <1>1, <1>3 DEF Inv, Counted
  <1>5. OnlyCurrent' /\ Settled'
    BY <1>1, <1>3 DEF Inv, OnlyCurrent, Settled, Versions
  <1>6. QED
    BY <1>1, <1>2, <1>4, <1>5, SlotStep DEF Inv, Typed

LEMMA InstallKeepsInv ==
    ASSUME RuntimeAssumption, Inv, NEW l \in Loaders, Install(l)
    PROVE  Inv'
  <1> DEFINE v == reload[l].version
  <1>1. reload[l].pc = "build" /\ UNCHANGED <<stored, active, lease, latest, requested, stop>>
    BY DEF Install
  <1>2. Typed
    BY DEF Inv
  <1>3. CASE Installable(v) /\ ~Closing
    <2> DEFINE s == [slot EXCEPT ![current] = "retired", ![v] = "open"]
    <2>1. slot' = AfterDrain(s, active) /\ current' = v /\ reload' = Returns(l)
      BY <1>3 DEF Install
    <2>2. v \in Versions /\ v # current /\ stop \notin {"reloads", "slots", "down"}
      BY <1>2, <1>3 DEF Typed, Installable, Closing, Versions, Reloads
    <2>3. s \in [Versions -> Lives]
      BY <1>2 DEF Typed, Lives
    <2>4. /\ s[v] = "open" /\ s[current] = "retired"
          /\ \A w \in Versions : w # v /\ w # current => s[w] = slot[w]
      BY <1>2, <2>2 DEF Typed
    <2> HIDE DEF s
    <2>5. /\ slot' \in [Versions -> Lives]
          /\ \A w \in Versions :
               \/ slot'[w] = s[w]
               \/ s[w] = "retired" /\ slot'[w] = "closing" /\ active[w] = 0
      BY <2>1, <2>3, Drained
    <2>6. \A w \in Versions : slot'[w] \in {"none", "closing", "closed"} => active[w] = 0
      BY <2>4, <2>5 DEF Inv, Counted
    <2>7. /\ reload' \in [Loaders -> Reloads]
          /\ \A k \in Loaders : reload'[k].pc = reload[k].pc \/ reload'[k].pc \in {"idle", "loop", "saved"}
      BY <1>2, <2>1, LoaderReturns DEF Typed
    <2>8. OnlyCurrent'
      <3> SUFFICES ASSUME NEW w \in Versions
                   PROVE  slot'[w] = "open" <=> w = v /\ stop \notin {"slots", "down"}
        BY <1>1, <2>1 DEF OnlyCurrent, Versions
      <3>1. slot[w] = "open" <=> w = current
        BY <2>2 DEF Inv, OnlyCurrent
      <3>2. QED
        BY <2>2, <2>4, <2>5, <3>1
    <2>9. Settled'
      BY <1>1, <2>2 DEF Settled
    <2>10. QED
      BY <1>1, <1>2, <2>1, <2>2, <2>5, <2>6, <2>7, <2>8, <2>9, SlotStep DEF Typed
  <1>4. CASE ~(Installable(v) /\ ~Closing)
    <2>1. reload' = [reload EXCEPT ![l].pc = "discard"] /\ UNCHANGED <<current, slot>>
      BY <1>4 DEF Install
    <2>2. reload' \in [Loaders -> Reloads]
      BY <1>2, <2>1, LoaderMoves DEF Typed
    <2>3. stop \notin {"slots", "down"}
      BY <1>1 DEF Inv, Settled
    <2>4. QED
      BY <1>1, <1>2, <2>1, <2>2, <2>3, QuietStep DEF Typed
  <1>5. QED
    BY <1>3, <1>4

LEMMA RetireCurrentKeepsInv ==
    ASSUME RuntimeAssumption, Inv, RetireCurrent
    PROVE  Inv'
  <1> DEFINE s == [slot EXCEPT ![current] = "retired"]
  <1>1. /\ stop = "reloads" /\ ReloadsSettled /\ stop' = "slots"
        /\ slot' = AfterDrain(s, active)
        /\ UNCHANGED <<stored, current, active, lease, latest, reload, requested>>
    BY DEF RetireCurrent
  <1>2. Typed
    BY DEF Inv
  <1>3. /\ s \in [Versions -> Lives] /\ s[current] = "retired"
        /\ \A w \in Versions : w # current => s[w] = slot[w]
    BY <1>2 DEF Typed, Lives
  <1> HIDE DEF s
  <1>4. /\ slot' \in [Versions -> Lives]
        /\ \A w \in Versions :
             \/ slot'[w] = s[w]
             \/ s[w] = "retired" /\ slot'[w] = "closing" /\ active[w] = 0
    BY <1>1, <1>3, Drained
  <1>5. \A w \in Versions : slot'[w] \in {"none", "closing", "closed"} => active[w] = 0
    BY <1>3, <1>4 DEF Inv, Counted
  <1>6. OnlyCurrent'
    <2>1. \A w \in Versions : slot'[w] # "open"
      BY <1>1, <1>3, <1>4 DEF Inv, OnlyCurrent
    <2>2. QED
      BY <1>1, <2>1 DEF OnlyCurrent, Versions
  <1>7. Settled'
    BY <1>1 DEF Settled, ReloadsSettled, Loaders
  <1>8. QED
    BY <1>1, <1>2, <1>4, <1>5, <1>6, <1>7, SlotStep DEF Typed, Stops

LEMMA ShutdownEndsKeepsInv ==
    ASSUME RuntimeAssumption, Inv, ShutdownEnds
    PROVE  Inv'
  <1>1. /\ stop = "slots" /\ stop' = "down" /\ \A v \in Versions : slot[v] \in {"none", "closed"}
        /\ UNCHANGED <<stored, current, slot, active, lease, latest, reload, requested>>
    BY DEF ShutdownEnds
  <1>2. OnlyCurrent'
    BY <1>1 DEF Inv, OnlyCurrent, Versions
  <1>3. Settled'
    BY <1>1 DEF Inv, Settled, Versions, Loaders
  <1>4. QED
    BY <1>1, <1>2, <1>3, SlotStep DEF Inv, Typed, Counted, Stops
-----------------------------------------------------------------------------
(* The other steps change no runtime and no lease.                         *)

LEMMA ReloadKeepsInv ==
    ASSUME RuntimeAssumption, Inv, NEW l \in Loaders, Reload(l)
    PROVE  Inv'
  <1>1. Typed /\ UNCHANGED <<stored, current, slot, active, lease, requested, stop>>
    BY DEF Reload, Inv
  <1>2. CASE reload[l].version > current /\ ~Closing
    <2>1. /\ latest' = IF latest > reload[l].version THEN latest ELSE reload[l].version
          /\ reload' = [reload EXCEPT ![l].pc = "build"]
      BY <1>2 DEF Reload
    <2>2. reload' \in [Loaders -> Reloads]
      BY <1>1, <2>1, LoaderMoves DEF Typed
    <2>3. latest' \in Versions
      BY <1>1, <1>2, <2>1 DEF Typed, Reloads, Versions
    <2>4. stop \notin {"slots", "down"}
      BY <1>2 DEF Closing
    <2>5. QED
      BY <1>1, <2>2, <2>3, <2>4, QuietStep DEF Typed
  <1>3. CASE ~(reload[l].version > current /\ ~Closing)
    <2>1. reload' = Returns(l) /\ latest' = latest
      BY <1>3 DEF Reload
    <2>2. QED
      BY <1>1, <2>1, LoaderReturns, LoaderStep DEF Typed
  <1>4. QED
    BY <1>2, <1>3

LEMMA LoopKeepsInv ==
    ASSUME RuntimeAssumption, Inv, RequestRefresh \/ Looping
    PROVE  Inv'
  <1>1. /\ Typed /\ Controller \in Loaders
        /\ UNCHANGED <<stored, current, slot, active, lease, latest, stop>>
        /\ requested' \in BOOLEAN
    BY DEF RequestRefresh, Looping, Refresh, ReadFails, RefreshEnds, Inv, Typed, Loaders
  <1>2. CASE RequestRefresh
    <2>1. CASE reload[Controller].pc = "idle"
      <3>1. reload' = [reload EXCEPT ![Controller].pc = "loop"]
        BY <1>2, <2>1 DEF RequestRefresh
      <3>2. /\ reload' \in [Loaders -> Reloads] /\ reload'[Controller].pc = "loop"
            /\ \A k \in Loaders : k # Controller => reload'[k] = reload[k]
        BY <1>1, <3>1, LoaderMoves DEF Typed
      <3>3. QED
        BY <1>1, <3>2, LoaderStep DEF Typed
    <2>2. CASE reload[Controller].pc # "idle"
      BY <1>1, <1>2, <2>2, LoaderStep DEF RequestRefresh, Typed
    <2>3. QED
      BY <2>1, <2>2
  <1>3. CASE Refresh
    <2>1. reload' = [reload EXCEPT ![Controller] = [pc |-> "saved", version |-> stored]]
      BY <1>3 DEF Refresh
    <2>2. QED
      BY <1>1, <2>1, FirstVersion, LoaderTakes, LoaderStep DEF Typed
  <1>4. CASE ReadFails
    BY <1>1, <1>4, LoaderStep DEF ReadFails, Typed
  <1>5. CASE RefreshEnds
    <2>1. reload' = [reload EXCEPT ![Controller] = [pc |-> "idle", version |-> 0]]
      BY <1>5 DEF RefreshEnds, NoReload
    <2>2. QED
      BY <1>1, <2>1, FirstVersion, LoaderTakes, LoaderStep DEF Typed
  <1>6. QED
    BY <1>2, <1>3, <1>4, <1>5 DEF Looping

LEMMA SaveKeepsInv ==
    ASSUME RuntimeAssumption, Inv, SavedElsewhere \/ \E s \in Savers : Save(s)
    PROVE  Inv'
  <1>1. Typed /\ stored < MaxVersion /\ stored' = stored + 1
    BY DEF Inv, Save, SavedElsewhere
  <1>2. stored' \in Versions /\ stored + 1 \in 0 .. MaxVersion
    BY <1>1, FirstVersion DEF Typed, Versions, RuntimeAssumption
  <1>3. CASE SavedElsewhere
    BY <1>1, <1>2, <1>3, LoaderStep DEF SavedElsewhere, Typed
  <1>4. ASSUME NEW s \in Savers, Save(s)
        PROVE  Inv'
    <2>1. /\ reload' = [reload EXCEPT ![s] = [pc |-> "saved", version |-> stored + 1]]
          /\ s \in Loaders
          /\ UNCHANGED <<current, slot, active, lease, latest, requested, stop>>
      BY <1>4 DEF Save, Loaders
    <2>2. QED
      BY <1>1, <1>2, <2>1, LoaderTakes, LoaderStep DEF Typed
  <1>5. QED
    BY <1>3, <1>4

LEMMA ReturnKeepsInv ==
    ASSUME RuntimeAssumption, Inv, NEW l \in Loaders, CloseCandidate(l) \/ BuildFails(l)
    PROVE  Inv'
  BY LoaderReturns, LoaderStep DEF CloseCandidate, BuildFails, Inv, Typed

LEMMA CloseKeepsInv ==
    ASSUME RuntimeAssumption, Inv, Close \/ ShutdownStarts
    PROVE  Inv'
  <1>1. /\ UNCHANGED <<stored, current, slot, active, lease, latest, reload, requested>>
        /\ stop \in {"up", "controller"} /\ stop' \in {"controller", "reloads"}
    BY DEF Close, ShutdownStarts
  <1>2. QED
    BY <1>1, QuietStep DEF Inv, Typed, Stops
-----------------------------------------------------------------------------
LEMMA InitInv ==
    ASSUME RuntimeAssumption, Init
    PROVE  Inv
  <1>1. NoLease \in Leases /\ NoReload \in Reloads /\ 1 \in Versions
    BY FirstVersion DEF NoLease, NoReload, Leases, Reloads
  <1>2. Typed
    BY <1>1 DEF Init, Typed, Lives, Stops
  <1>3. \A u \in Users : lease[u].pc = "free"
    BY DEF Init, NoLease
  <1>4. \A v \in Versions : UsersOf(v) = {}
    BY <1>3 DEF UsersOf
  <1>5. Counted
    BY <1>3, <1>4, FS_EmptySet DEF Counted, Init
  <1>6. OnlyCurrent /\ Settled
    BY <1>1 DEF Init, OnlyCurrent, Settled
  <1>7. QED
    BY <1>2, <1>5, <1>6 DEF Inv

LEMMA StepInv ==
    ASSUME RuntimeAssumption, Inv, [Next]_vars
    PROVE  Inv'
  <1>1. ASSUME NEW u \in Users, Acquire(u) \/ Release(u) \/ CancelStream(u) \/ ReleaseAgain(u) PROVE Inv'
    BY <1>1, AcquireKeepsInv, LetsGoKeepsInv, ReleaseAgainKeepsInv DEF Release, CancelStream
  <1>2. ASSUME NEW v \in Versions, FinishClose(v) PROVE Inv'
    BY <1>2, FinishCloseKeepsInv
  <1>3. CASE SavedElsewhere \/ \E s \in Savers : Save(s)
    BY <1>3, SaveKeepsInv
  <1>4. ASSUME NEW l \in Loaders, Reload(l) \/ Install(l) \/ BuildFails(l) \/ CloseCandidate(l)
        PROVE  Inv'
    BY <1>4, ReloadKeepsInv, InstallKeepsInv, ReturnKeepsInv
  <1>5. CASE RequestRefresh \/ Looping
    BY <1>5, LoopKeepsInv
  <1>6. CASE Close \/ Stopping
    BY <1>6, CloseKeepsInv, RetireCurrentKeepsInv, ShutdownEndsKeepsInv DEF Stopping
  <1>7. CASE UNCHANGED vars
    BY <1>7, LoaderStep DEF vars, Inv, Typed
  <1>8. QED
    BY <1>1, <1>2, <1>3, <1>4, <1>5, <1>6, <1>7 DEF Next

LEMMA InvImplies ==
    ASSUME RuntimeAssumption, Inv
    PROVE  TypeOK /\ LeasedIsOpen /\ ShutdownLeavesNothing
  <1>1. TypeOK
    <2>1. active \in [Versions -> 0 .. Cardinality(Users)]
      <3>1. \A v \in Versions : active[v] \in 0 .. Cardinality(Users)
        BY FiniteUsers DEF Inv, Counted
      <3>2. QED
        BY <3>1 DEF Inv, Typed
    <2>2. {v \in Versions : slot[v] = "open"} = IF stop \in {"slots", "down"} THEN {} ELSE {current}
      BY DEF Inv, Typed, OnlyCurrent
    <2>3. QED
      BY <2>1, <2>2 DEF Inv, Typed, TypeOK, Lives, Leases, Reloads, Stops
  <1>2. LeasedIsOpen
    <2> SUFFICES ASSUME NEW u \in Users, lease[u].pc = "leased"
                 PROVE  slot[lease[u].version] \in {"open", "retired"}
      BY DEF LeasedIsOpen
    <2> DEFINE v == lease[u].version
    <2>1. v \in Versions /\ u \in UsersOf(v)
      BY DEF Inv, Counted, UsersOf
    <2>2. active[v] > 0
      BY <2>1, UserIsCounted DEF Inv, Counted
    <2>3. QED
      BY <2>1, <2>2 DEF Inv, Counted, Typed, Lives
  <1>3. ShutdownLeavesNothing
    BY DEF Inv, Settled, ShutdownLeavesNothing
  <1>4. QED
    BY <1>1, <1>2, <1>3

\* The variables are typed, and only the current runtime is not retired.
THEOREM TypeCorrect ==
    ASSUME RuntimeAssumption
    PROVE  Spec => []TypeOK
  <1>1. Init => Inv
    BY InitInv
  <1>2. Inv /\ [Next]_vars => Inv'
    BY StepInv
  <1>3. Inv => TypeOK
    BY InvImplies
  <1>4. QED
    BY <1>1, <1>2, <1>3, PTL DEF Spec

\* Whoever holds a lease works with a runtime that is not being closed, however
\* leases, cancelled streams, reloads and the shutdown interleave; the work of a
\* stream that was cancelled holds none, and nothing is said of it.
THEOREM LeasedStaysOpen ==
    ASSUME RuntimeAssumption
    PROVE  Spec => []LeasedIsOpen
  <1>1. Init => Inv
    BY InitInv
  <1>2. Inv /\ [Next]_vars => Inv'
    BY StepInv
  <1>3. Inv => LeasedIsOpen
    BY InvImplies
  <1>4. QED
    BY <1>1, <1>2, <1>3, PTL DEF Spec

\* A shutdown that has returned leaves no runtime open, and none being built.
THEOREM ShutdownIsComplete ==
    ASSUME RuntimeAssumption
    PROVE  Spec => []ShutdownLeavesNothing
  <1>1. Init => Inv
    BY InitInv
  <1>2. Inv /\ [Next]_vars => Inv'
    BY StepInv
  <1>3. Inv => ShutdownLeavesNothing
    BY InvImplies
  <1>4. QED
    BY <1>1, <1>2, <1>3, PTL DEF Spec
-----------------------------------------------------------------------------
(* The order of the versions.                                              *)

\* A runtime is built once its version is current, not before.
Unbuilt == \A v \in Versions : v > current => slot[v] = "none"

\* What a step may do to the runtime of a version.
LifeStep(v) ==
    \/ slot'[v] = slot[v]
    \/ slot[v] \in {"retired", "closing"} /\ slot'[v] \in {"closing", "closed"}
    \/ v = current /\ slot'[v] \in {"retired", "closing"}
    \/ v = current' /\ v > current /\ slot'[v] = "open"

\* A runtime that was replaced or retired is never in use again.
NeverReopened == \A v \in Versions : slot[v] \in {"retired", "closing", "closed"} => slot'[v] # "open"

LEMMA InstallMovesOn ==
    ASSUME RuntimeAssumption, Inv, NEW l \in Loaders, Install(l)
    PROVE  current' >= current /\ \A v \in Versions : LifeStep(v)
  <1>1. /\ slot \in [Versions -> Lives] /\ current \in Versions /\ Versions \subseteq Nat
        /\ reload[l].version \in 0 .. MaxVersion
    BY DEF Inv, Typed, Reloads, Versions
  <1>2. PICK n \in 0 .. MaxVersion : n = reload[l].version
    BY <1>1
  <1>3. CASE Installable(n) /\ ~Closing
    <2> DEFINE s == [slot EXCEPT ![current] = "retired", ![n] = "open"]
    <2>1. slot' = AfterDrain(s, active) /\ current' = n /\ n > current
      BY <1>2, <1>3 DEF Install, Installable
    <2>2. s[n] = "open" /\ s[current] = "retired" /\ n \in Versions
      BY <1>1, <2>1 DEF Versions, RuntimeAssumption
    <2>3. \A w \in Versions : w # n /\ w # current => s[w] = slot[w]
      BY <1>1
    <2>4. s \in [Versions -> Lives]
      BY <1>1 DEF Lives
    <2> HIDE DEF s
    <2>5. \A w \in Versions : slot'[w] = s[w] \/ (s[w] = "retired" /\ slot'[w] = "closing")
      BY <2>1, <2>4, Drained
    <2>6. ASSUME NEW w \in Versions
          PROVE  LifeStep(w)
      <3>1. CASE w = n
        BY <2>1, <2>2, <2>5, <3>1 DEF LifeStep
      <3>2. CASE w = current
        BY <2>2, <2>5, <3>2 DEF LifeStep
      <3>3. CASE w # n /\ w # current
        BY <2>3, <2>5, <3>3 DEF LifeStep
      <3>4. QED
        BY <3>1, <3>2, <3>3
    <2>7. current' >= current
      BY <1>1, <2>1
    <2>8. QED
      BY <2>6, <2>7
  <1>4. CASE ~(Installable(n) /\ ~Closing)
    BY <1>1, <1>2, <1>4 DEF Install, LifeStep
  <1>5. QED
    BY <1>3, <1>4

LEMMA OthersMoveOn ==
    ASSUME RuntimeAssumption, Inv, [Next]_vars, \A l \in Loaders : ~Install(l)
    PROVE  current' >= current /\ \A v \in Versions : LifeStep(v)
  <1>1. /\ slot \in [Versions -> Lives] /\ current \in Versions /\ current >= current
    BY DEF Inv, Typed, Versions
  <1>2. CASE UNCHANGED slot /\ UNCHANGED current
    BY <1>1, <1>2 DEF LifeStep
  <1>3. ASSUME NEW u \in Users, Release(u) \/ CancelStream(u)
        PROVE  current' >= current /\ \A v \in Versions : LifeStep(v)
    BY <1>1, <1>3, Drained DEF Release, CancelStream, LetsGo, LifeStep
  <1>4. ASSUME NEW v \in Versions, FinishClose(v)
        PROVE  current' >= current /\ \A w \in Versions : LifeStep(w)
    BY <1>1, <1>4 DEF FinishClose, LifeStep
  <1>5. CASE RetireCurrent
    <2> DEFINE s == [slot EXCEPT ![current] = "retired"]
    <2>1. slot' = AfterDrain(s, active) /\ current' = current
      BY <1>5 DEF RetireCurrent
    <2>2. /\ s \in [Versions -> Lives] /\ s[current] = "retired"
          /\ \A w \in Versions : w # current => s[w] = slot[w]
      BY <1>1 DEF Lives
    <2> HIDE DEF s
    <2>3. \A w \in Versions : slot'[w] = s[w] \/ (s[w] = "retired" /\ slot'[w] = "closing")
      BY <2>1, <2>2, Drained
    <2>4. QED
      BY <1>1, <2>1, <2>2, <2>3 DEF LifeStep
  <1>6. \/ UNCHANGED slot /\ UNCHANGED current
        \/ \E u \in Users : Release(u) \/ CancelStream(u)
        \/ \E v \in Versions : FinishClose(v)
        \/ RetireCurrent
    BY DEF Next, vars, Acquire, ReleaseAgain, Save, Reload, BuildFails, CloseCandidate,
           SavedElsewhere, RequestRefresh, Looping, Refresh, ReadFails, RefreshEnds, Close,
           Stopping, ShutdownStarts, ShutdownEnds
  <1>7. QED
    BY <1>2, <1>3, <1>4, <1>5, <1>6

LEMMA MovesOn ==
    ASSUME RuntimeAssumption, Inv, [Next]_vars
    PROVE  current' >= current /\ \A v \in Versions : LifeStep(v)
  BY InstallMovesOn, OthersMoveOn

LEMMA UnbuiltStays ==
    ASSUME RuntimeAssumption, Inv, Unbuilt, [Next]_vars
    PROVE  Unbuilt' /\ NeverGoesBack /\ NeverReopened
  <1>1. /\ current' >= current /\ \A v \in Versions : LifeStep(v)
        /\ current \in Nat /\ current' \in Nat /\ Versions \subseteq Nat /\ Versions' = Versions
    BY MovesOn, StepInv DEF Inv, Typed, Versions
  <1>2. Unbuilt'
    <2> SUFFICES ASSUME NEW v \in Versions, v > current'
                 PROVE  slot'[v] = "none"
      BY <1>1 DEF Unbuilt
    <2>1. v > current /\ v # current /\ v # current'
      BY <1>1
    <2>2. QED
      BY <1>1, <2>1 DEF Unbuilt, LifeStep
  <1>3. NeverReopened
    <2> SUFFICES ASSUME NEW v \in Versions, slot[v] \in {"retired", "closing", "closed"}
                 PROVE  slot'[v] # "open"
      BY DEF NeverReopened
    <2>1. ~(v > current)
      BY DEF Unbuilt
    <2>2. QED
      BY <1>1, <2>1 DEF LifeStep
  <1>4. QED
    BY <1>1, <1>2, <1>3 DEF NeverGoesBack

\* The runtime is only replaced by one of newer settings, and what was replaced or
\* shut down is never in use again, in whatever order savers and the controller
\* finish building.
THEOREM VersionsOnlyRise ==
    ASSUME RuntimeAssumption
    PROVE  Spec => [][NeverGoesBack /\ NeverReopened]_vars
  <1>1. Init => Inv /\ Unbuilt
    <2>1. ASSUME Init
          PROVE  Unbuilt
      <3>1. current = 1 /\ slot = [v \in Versions |-> IF v = 1 THEN "open" ELSE "none"]
        BY <2>1 DEF Init
      <3>2. QED
        BY <3>1 DEF Unbuilt, Versions
    <2>2. QED
      BY <2>1, InitInv
  <1>2. Inv /\ Unbuilt /\ [Next]_vars => Inv' /\ Unbuilt'
    BY StepInv, UnbuiltStays
  <1>3. Inv /\ Unbuilt /\ [Next]_vars => [NeverGoesBack /\ NeverReopened]_vars
    BY UnbuiltStays
  <1>4. QED
    BY <1>1, <1>2, <1>3, PTL DEF Spec
-----------------------------------------------------------------------------
(* The stored sign-in of the Codex provider (CodexCredentials): for any     *)
(* number of requests, administrators and sign-ins.  Its current sign-in is *)
(* not the current runtime above.                                           *)

CONSTANTS Requests, Admins, MaxFlows, Nobody
VARIABLES row, lock, req, issued, live, refused, unsaved, flow, signIn, admin, turn, ended

Tokens == INSTANCE CodexCredentials WITH current <- signIn

Rows == [status : {"none", "connected", "reauth-required"}, version : Nat, login : 0 .. MaxFlows,
         token : Nat, fresh : BOOLEAN]
AskedAt == {"new", "wait", "refresh", "store", "reject", "call", "done"}
Asked == [pc : AskedAt, forced : BOOLEAN, seen : Rows, token : Nat]
SignInAt == {"none", "poll", "exchange", "persist", "persisted", "ended"}
SignInStates == {"none", "pending", "exchanging", "cancelled", "connected", "expired", "failed"}
SignIns == [pc : SignInAt, state : SignInStates, aborted : BOOLEAN]
AdminAt == {"idle", "queued", "await", "delete"}
AdminCalls == [op : {"none", "start", "cancel", "disconnect"}, pc : AdminAt]

CodexTyped ==
    /\ row \in Rows /\ lock \in Requests \cup {Nobody} /\ req \in [Requests -> Asked]
    /\ issued \in Nat /\ live \subseteq 1 .. issued /\ refused \subseteq 1 .. issued
    /\ unsaved \subseteq 1 .. issued
    /\ flow \in [Tokens!Flows -> SignIns] /\ signIn \in 0 .. MaxFlows /\ ended \in 0 .. signIn
    /\ admin \in [Admins -> AdminCalls] /\ turn \in Admins \cup {Nobody}

Accounted == live \cup unsaved \cup refused
Signed(i) == flow[i].pc = "persisted" \/ (flow[i].pc = "ended" /\ flow[i].state = "connected")

\* Credentials are those of a sign-in that stored them.
IsBacked(k) ==
    /\ k.status # "none" => k.login # 0
    /\ IF k.login = 0 THEN k.version = 0 ELSE Signed(k.login)
    /\ k.token <= issued

\* The token of the row is accounted for, but between a rotation and its storage.
RowIsLive ==
    /\ IsBacked(row)
    /\ row.status = "connected" =>
          row.token \in Accounted \/ \E r \in Requests : req[r].pc = "store"

Locking == {"refresh", "store", "reject"}

\* What a request has seen is no newer than the row of the same sign-in.
RequestIsAbreast(r) ==
    /\ IsBacked(req[r].seen)
    /\ row.login = req[r].seen.login => req[r].seen.version <= row.version
    /\ req[r].pc \in Locking <=> lock = r

\* The holder of the lock has seen the row as it is, unless it was removed, and
\* nobody has seen a newer one.
HolderIsCurrent(r) ==
    req[r].pc \in Locking =>
        LET s == req[r].seen IN
        /\ s.status = "connected" /\ s.token \in 1 .. issued
        /\ \/ row = Tokens!NoRow
           \/ /\ row.status = "connected" /\ row.version = s.version /\ row.login = s.login
              /\ row.token = s.token
        /\ req[r].pc = "refresh" => s.token \in Accounted
        /\ req[r].pc = "store" => req[r].token \in live
        /\ req[r].pc = "reject" => s.token \in refused
        /\ \A q \in Requests : req[q].seen.login = s.login => req[q].seen.version <= s.version

\* One sign-in at a time.
FlowIsInTurn(i) ==
    /\ i > signIn => flow[i].pc = "none"
    /\ i # signIn \/ i <= ended => flow[i].pc \in {"none", "ended"}
    /\ flow[i].pc = "ended" => flow[i].state \in {"cancelled", "connected", "expired", "failed"}

CodexInv ==
    /\ CodexTyped /\ RowIsLive
    /\ \A r \in Requests : RequestIsAbreast(r)
    /\ \A r \in Requests : HolderIsCurrent(r)
    /\ \A i \in Tokens!Flows : FlowIsInTurn(i)

\* What a statement that assigns some fields makes of a request, a sign-in or a call.
LEMMA AskedMoves ==
    ASSUME req \in [Requests -> Asked], NEW r \in Requests,
           NEW s \in AskedAt,
           req' = [req EXCEPT ![r].pc = s]
    PROVE  \E now \in Asked :
              /\ now = [pc |-> s, forced |-> req[r].forced, seen |-> req[r].seen, token |-> req[r].token]
              /\ req' = [req EXCEPT ![r] = now]
  <1>1. PICK k \in Asked : k = req[r]
    OBVIOUS
  <1>2. PICK c \in Asked : c = [k EXCEPT !.pc = s]
    BY DEF Asked
  <1>3. c = [pc |-> s, forced |-> k.forced, seen |-> k.seen, token |-> k.token]
    BY <1>2 DEF Asked
  <1>4. req' = [req EXCEPT ![r] = c]
    BY <1>1, <1>2, Zenon
  <1>5. QED
    BY <1>1, <1>3, <1>4

LEMMA AskedSees ==
    ASSUME req \in [Requests -> Asked], NEW r \in Requests,
           NEW s \in AskedAt, NEW x \in Rows,
           req' = [req EXCEPT ![r].pc = s, ![r].seen = x]
    PROVE  \E now \in Asked :
              /\ now = [pc |-> s, forced |-> req[r].forced, seen |-> x, token |-> req[r].token]
              /\ req' = [req EXCEPT ![r] = now]
  <1>1. PICK k \in Asked : k = req[r]
    OBVIOUS
  <1>2. PICK c \in Asked : c = [k EXCEPT !.pc = s]
    BY DEF Asked
  <1>3. c = [pc |-> s, forced |-> k.forced, seen |-> k.seen, token |-> k.token]
    BY <1>2 DEF Asked
  <1>4. PICK d \in Asked : d = [c EXCEPT !.seen = x]
    BY DEF Asked
  <1>5. d = [pc |-> s, forced |-> k.forced, seen |-> x, token |-> k.token]
    BY <1>3, <1>4 DEF Asked
  <1>6. req' = [req EXCEPT ![r] = d]
    BY <1>1, <1>2, <1>4
  <1>7. QED
    BY <1>1, <1>5, <1>6

LEMMA AskedAgain ==
    ASSUME req \in [Requests -> Asked], NEW r \in Requests,
           NEW s \in AskedAt, NEW b \in BOOLEAN,
           req' = [req EXCEPT ![r].pc = s, ![r].forced = b]
    PROVE  \E now \in Asked :
              /\ now = [pc |-> s, forced |-> b, seen |-> req[r].seen, token |-> req[r].token]
              /\ req' = [req EXCEPT ![r] = now]
  <1>1. PICK k \in Asked : k = req[r]
    OBVIOUS
  <1>2. PICK c \in Asked : c = [k EXCEPT !.pc = s]
    BY DEF Asked
  <1>3. c = [pc |-> s, forced |-> k.forced, seen |-> k.seen, token |-> k.token]
    BY <1>2 DEF Asked
  <1>4. PICK d \in Asked : d = [c EXCEPT !.forced = b]
    BY DEF Asked
  <1>5. d = [pc |-> s, forced |-> b, seen |-> k.seen, token |-> k.token]
    BY <1>3, <1>4 DEF Asked
  <1>6. req' = [req EXCEPT ![r] = d]
    BY <1>1, <1>2, <1>4
  <1>7. QED
    BY <1>1, <1>5, <1>6

LEMMA SignInMoves ==
    ASSUME flow \in [Tokens!Flows -> SignIns], NEW i \in Tokens!Flows,
           NEW s \in SignInAt,
           flow' = [flow EXCEPT ![i].pc = s]
    PROVE  \E now \in SignIns :
              /\ now = [pc |-> s, state |-> flow[i].state, aborted |-> flow[i].aborted]
              /\ flow' = [flow EXCEPT ![i] = now]
  <1>1. PICK k \in SignIns : k = flow[i]
    OBVIOUS
  <1>2. PICK c \in SignIns : c = [k EXCEPT !.pc = s]
    BY DEF SignIns
  <1>3. c = [pc |-> s, state |-> k.state, aborted |-> k.aborted]
    BY <1>2 DEF SignIns
  <1>4. flow' = [flow EXCEPT ![i] = c]
    BY <1>1, <1>2, Zenon
  <1>5. QED
    BY <1>1, <1>3, <1>4

LEMMA SignInEnds ==
    ASSUME flow \in [Tokens!Flows -> SignIns], NEW i \in Tokens!Flows,
           NEW s \in SignInAt, NEW e \in SignInStates,
           flow' = [flow EXCEPT ![i].pc = s, ![i].state = e]
    PROVE  \E now \in SignIns :
              /\ now = [pc |-> s, state |-> e, aborted |-> flow[i].aborted]
              /\ flow' = [flow EXCEPT ![i] = now]
  <1>1. PICK k \in SignIns : k = flow[i]
    OBVIOUS
  <1>2. PICK c \in SignIns : c = [k EXCEPT !.pc = s]
    BY DEF SignIns
  <1>3. c = [pc |-> s, state |-> k.state, aborted |-> k.aborted]
    BY <1>2 DEF SignIns
  <1>4. PICK d \in SignIns : d = [c EXCEPT !.state = e]
    BY DEF SignIns
  <1>5. d = [pc |-> s, state |-> e, aborted |-> k.aborted]
    BY <1>3, <1>4 DEF SignIns
  <1>6. flow' = [flow EXCEPT ![i] = d]
    BY <1>1, <1>2, <1>4
  <1>7. QED
    BY <1>1, <1>5, <1>6

LEMMA SignInAborts ==
    ASSUME flow \in [Tokens!Flows -> SignIns], NEW i \in Tokens!Flows,
           NEW e \in SignInStates, NEW b \in BOOLEAN,
           flow' = [flow EXCEPT ![i].state = e, ![i].aborted = b]
    PROVE  \E now \in SignIns :
              /\ now = [pc |-> flow[i].pc, state |-> e, aborted |-> b]
              /\ flow' = [flow EXCEPT ![i] = now]
  <1>1. PICK k \in SignIns : k = flow[i]
    OBVIOUS
  <1>2. PICK c \in SignIns : c = [k EXCEPT !.state = e]
    BY DEF SignIns
  <1>3. c = [pc |-> k.pc, state |-> e, aborted |-> k.aborted]
    BY <1>2 DEF SignIns
  <1>4. PICK d \in SignIns : d = [c EXCEPT !.aborted = b]
    BY DEF SignIns
  <1>5. d = [pc |-> k.pc, state |-> e, aborted |-> b]
    BY <1>3, <1>4 DEF SignIns
  <1>6. flow' = [flow EXCEPT ![i] = d]
    BY <1>1, <1>2, <1>4
  <1>7. QED
    BY <1>1, <1>5, <1>6

LEMMA AdminMoves ==
    ASSUME admin \in [Admins -> AdminCalls], NEW a \in Admins,
           NEW s \in AdminAt,
           admin' = [admin EXCEPT ![a].pc = s]
    PROVE  \E now \in AdminCalls :
              /\ now = [op |-> admin[a].op, pc |-> s]
              /\ admin' = [admin EXCEPT ![a] = now]
  <1>1. PICK k \in AdminCalls : k = admin[a]
    OBVIOUS
  <1>2. PICK c \in AdminCalls : c = [k EXCEPT !.pc = s]
    BY DEF AdminCalls
  <1>3. c = [op |-> k.op, pc |-> s]
    BY <1>2 DEF AdminCalls
  <1>4. admin' = [admin EXCEPT ![a] = c]
    BY <1>1, <1>2, Zenon
  <1>5. QED
    BY <1>1, <1>3, <1>4

LEMMA AnsweredIs ==
    ASSUME Tokens!CodexAssumption
    PROVE  /\ Tokens!Answered \in Asked /\ Tokens!Answered.pc = "done"
           /\ Tokens!Answered.seen = Tokens!NoRow /\ Tokens!NoRow \in Rows
           /\ Tokens!NoRow.login = 0 /\ Tokens!NoRow.version = 0 /\ Tokens!NoRow.token = 0
           /\ Tokens!NoRow.status = "none" /\ Tokens!NewRequest \in Asked
           /\ Tokens!NewRequest.pc = "new" /\ Tokens!NewRequest.seen = Tokens!NoRow
  <1>1. Tokens!NoRow \in Rows
    BY DEF Tokens!NoRow, Rows, Tokens!CodexAssumption
  <1>2. Tokens!NewRequest \in Asked
    BY <1>1 DEF Tokens!NewRequest, Asked, AskedAt
  <1>3. Tokens!NewRequest.pc = "new" /\ Tokens!NewRequest.seen = Tokens!NoRow
    BY DEF Tokens!NewRequest
  <1>4. PICK k \in Asked : k = Tokens!NewRequest
    BY <1>2
  <1>5. /\ [k EXCEPT !.pc = "done"] \in Asked /\ [k EXCEPT !.pc = "done"].pc = "done"
        /\ [k EXCEPT !.pc = "done"].seen = k.seen
    BY DEF Asked, AskedAt
  <1>6. /\ Tokens!Answered \in Asked /\ Tokens!Answered.pc = "done"
        /\ Tokens!Answered.seen = Tokens!NoRow
    BY <1>3, <1>4, <1>5 DEF Tokens!Answered
  <1>7. /\ Tokens!NoRow.login = 0 /\ Tokens!NoRow.version = 0 /\ Tokens!NoRow.token = 0
        /\ Tokens!NoRow.status = "none"
    BY DEF Tokens!NoRow
  <1>8. QED
    BY <1>1, <1>2, <1>3, <1>6, <1>7

LEMMA CodexAsk ==
    ASSUME Tokens!CodexAssumption, CodexInv, NEW r \in Requests, Tokens!Ask(r)
    PROVE  CodexInv'
  <1>1. CodexTyped'
    <2>1. PICK k \in Asked : k = [pc |-> "wait", forced |-> req[r].forced, seen |-> req[r].seen, token |-> req[r].token]
                      /\ req' = [req EXCEPT ![r] = k]
      BY AskedMoves DEF CodexInv, CodexTyped, Tokens!Ask, AskedAt
    <2>2. QED
      BY <2>1 DEF CodexInv, CodexTyped, Tokens!Ask, Tokens!provider, Tokens!device
  <1>2. RowIsLive'
    BY DEF Tokens!Ask, Tokens!provider, Tokens!device, CodexInv, RowIsLive, IsBacked, Signed,
           Accounted, Tokens!Flows, Locking, Tokens!NoRow
  <1>3. (\A r_1 \in Requests : RequestIsAbreast(r_1))'
    BY DEF Tokens!Ask, Tokens!provider, Tokens!device, CodexInv, RequestIsAbreast, IsBacked,
           Signed, Locking, Tokens!Flows, Tokens!NoRow
  <1>4. (\A r_1 \in Requests : HolderIsCurrent(r_1))'
    BY DEF Tokens!Ask, Tokens!provider, Tokens!device, CodexInv, HolderIsCurrent, Locking,
           Tokens!NoRow, Accounted, Tokens!Flows, IsBacked, Signed
  <1>5. (\A i_1 \in Tokens!Flows : FlowIsInTurn(i_1))'
    BY DEF Tokens!Ask, Tokens!provider, Tokens!device, CodexInv, FlowIsInTurn, Tokens!Flows,
           Tokens!NoRow
  <1>6. QED
    BY <1>1, <1>2, <1>3, <1>4, <1>5 DEF CodexInv

LEMMA CodexReadForRequest ==
    ASSUME Tokens!CodexAssumption, CodexInv, NEW r \in Requests, Tokens!ReadForRequest(r)
    PROVE  CodexInv'
  <1>1. PICK k \in Asked :
          /\ req' = [req EXCEPT ![r] = k]
          /\ \/ k = Tokens!Answered /\ k.pc = "done" /\ k.seen = Tokens!NoRow /\ lock' = lock
             \/ k.pc = "call" /\ k.seen = row /\ lock' = lock
             \/ k.pc = "refresh" /\ k.seen = row /\ lock' = r /\ row.status = "connected"
    <2>1. /\ req \in [Requests -> Asked] /\ row \in Rows
          /\ "refresh" \in AskedAt /\ "call" \in AskedAt
      BY DEF CodexInv, CodexTyped, AskedAt
    <2>2. CASE req' = [req EXCEPT ![r] = Tokens!Answered] /\ lock' = lock
      BY <2>2, AnsweredIs
    <2>3. CASE req' = [req EXCEPT ![r].pc = "refresh", ![r].seen = row] /\ lock' = r
               /\ row.status = "connected"
      <3>1. PICK c \in Asked : /\ c = [pc |-> "refresh", forced |-> req[r].forced, seen |-> row,
                                      token |-> req[r].token]
                              /\ req' = [req EXCEPT ![r] = c]
        BY <2>1, <2>3, AskedSees
      <3>2. QED
        BY <2>3, <3>1
    <2>4. CASE req' = [req EXCEPT ![r].pc = "call", ![r].seen = row] /\ lock' = lock
      <3>1. PICK c \in Asked : /\ c = [pc |-> "call", forced |-> req[r].forced, seen |-> row,
                                      token |-> req[r].token]
                              /\ req' = [req EXCEPT ![r] = c]
        BY <2>1, <2>4, AskedSees
      <3>2. QED
        BY <2>4, <3>1
    <2>5. QED
      BY <2>2, <2>3, <2>4 DEF Tokens!ReadForRequest
  <1>2. lock = Nobody /\ \A q \in Requests : req[q].pc \notin Locking
    BY DEF Tokens!ReadForRequest, Tokens!LockFree, CodexInv, RequestIsAbreast, Tokens!CodexAssumption
  <1>3. /\ \A q \in Requests : req'[q] = (IF q = r THEN k ELSE req[q])
        /\ UNCHANGED <<row, issued, live, refused, unsaved, flow, signIn, ended>>
    BY <1>1 DEF CodexInv, CodexTyped, Tokens!ReadForRequest, Tokens!provider,
           Tokens!device
  <1>4. CodexTyped'
    BY <1>1 DEF CodexInv, CodexTyped, Tokens!ReadForRequest, Tokens!provider, Tokens!device
  <1>5. RowIsLive'
    BY DEF Tokens!ReadForRequest, Tokens!LockFree, Tokens!Answered, Tokens!NewRequest, Tokens!NoRow,
           Tokens!ShouldRefresh, Tokens!provider, Tokens!device, CodexInv, RowIsLive, IsBacked,
           Signed, Accounted, CodexTyped, Rows, Asked, AskedAt, Tokens!Flows, SignIns, SignInAt,
           SignInStates, AdminCalls, AdminAt, RequestIsAbreast, Locking, HolderIsCurrent,
           FlowIsInTurn
  <1>6. (\A r_1 \in Requests : RequestIsAbreast(r_1))'
    <2>1. ASSUME NEW q \in Requests
          PROVE  RequestIsAbreast(q)'
      <3>1. CASE q # r
        BY <1>1, <1>2, <1>3, <3>1
        DEF RequestIsAbreast, IsBacked, Signed, CodexInv, Tokens!CodexAssumption
      <3>2. CASE q = r
        <4>1. req'[q] = k /\ row.version \in Nat /\ row.token \in Nat /\ issued \in Nat
          BY <1>3, <3>2 DEF CodexInv, CodexTyped, Rows
        <4>2. CASE k.seen = row
          BY <1>1, <1>2, <1>3, <3>2, <4>1, <4>2
          DEF RequestIsAbreast, IsBacked, Signed, CodexInv, RowIsLive, Locking, Tokens!CodexAssumption
        <4>3. CASE k = Tokens!Answered
          BY <1>1, <1>2, <1>3, <3>2, <4>1, <4>3, AnsweredIs
          DEF RequestIsAbreast, IsBacked, Locking, Tokens!CodexAssumption
        <4>4. QED
          BY <1>1, <4>2, <4>3
      <3>3. QED
        BY <3>1, <3>2
    <2>2. QED
      BY <2>1
  <1>7. (\A r_1 \in Requests : HolderIsCurrent(r_1))'
    <2>1. ASSUME NEW q \in Requests, req'[q].pc \in Locking
          PROVE  HolderIsCurrent(q)'
      <3>1. q = r /\ req'[r] = k /\ k.pc = "refresh" /\ k.seen = row /\ row.status = "connected"
        BY <1>1, <1>2, <1>3, <2>1 DEF Locking
      <3>2. row.token \in Accounted /\ row.version \in Nat
        <4>1. row.version \in Nat
          BY DEF CodexInv, CodexTyped, Rows
        <4>2. QED
          BY <1>2, <3>1, <4>1 DEF CodexInv, RowIsLive, Locking
      <3>3. row.token \in 1 .. issued
        BY <3>2 DEF Accounted, CodexInv, CodexTyped
      <3>4. ASSUME NEW x \in Requests, req'[x].seen.login = row.login
            PROVE  req'[x].seen.version <= row.version
        BY <1>3, <3>1, <3>2, <3>4 DEF CodexInv, RequestIsAbreast
      <3>5. QED
        BY <1>3, <3>1, <3>2, <3>3, <3>4 DEF HolderIsCurrent, Accounted
    <2>2. QED
      BY <2>1 DEF HolderIsCurrent
  <1>8. (\A i_1 \in Tokens!Flows : FlowIsInTurn(i_1))'
    BY DEF Tokens!ReadForRequest, Tokens!LockFree, Tokens!Answered, Tokens!NewRequest, Tokens!NoRow,
           Tokens!ShouldRefresh, Tokens!provider, Tokens!device, CodexInv, FlowIsInTurn,
           Tokens!Flows
  <1>9. QED
    BY <1>4, <1>5, <1>6, <1>7, <1>8 DEF CodexInv

LEMMA CodexRefreshRefused ==
    ASSUME Tokens!CodexAssumption, CodexInv, NEW r \in Requests, Tokens!RefreshRefused(r)
    PROVE  CodexInv'
  <1>1. PICK k \in Asked : k = [pc |-> "reject", forced |-> req[r].forced, seen |-> req[r].seen, token |-> req[r].token]
                      /\ req' = [req EXCEPT ![r] = k]
    BY AskedMoves DEF CodexInv, CodexTyped, Tokens!RefreshRefused, AskedAt
  <1>2. CodexTyped'
    <2>1. req[r].seen.token \in 1 .. issued
      BY DEF CodexInv, HolderIsCurrent, Tokens!RefreshRefused, Locking
    <2>2. QED
      BY <1>1, <2>1 DEF CodexInv, CodexTyped, Tokens!RefreshRefused, Tokens!device
  <1>3. RowIsLive'
    BY DEF Tokens!RefreshRefused, Tokens!device, CodexInv, RowIsLive, IsBacked, Signed, Accounted,
           Tokens!Flows, Locking, Tokens!NoRow
  <1>4. (\A r_1 \in Requests : RequestIsAbreast(r_1))'
    BY DEF Tokens!RefreshRefused, Tokens!device, CodexInv, RequestIsAbreast, IsBacked, Signed,
           Locking, Tokens!Flows, Tokens!NoRow
  <1>5. (\A r_1 \in Requests : HolderIsCurrent(r_1))'
    BY DEF Tokens!RefreshRefused, Tokens!device, CodexInv, HolderIsCurrent, Locking, Tokens!NoRow,
           Accounted, Tokens!Flows, IsBacked, Signed
  <1>6. (\A i_1 \in Tokens!Flows : FlowIsInTurn(i_1))'
    BY DEF Tokens!RefreshRefused, Tokens!device, CodexInv, FlowIsInTurn, Tokens!Flows, Tokens!NoRow
  <1>7. QED
    BY <1>2, <1>3, <1>4, <1>5, <1>6 DEF CodexInv

LEMMA CodexRefreshFails ==
    ASSUME Tokens!CodexAssumption, CodexInv, NEW r \in Requests, Tokens!RefreshFails(r)
    PROVE  CodexInv'
  <1>1. PICK k \in Asked : k = Tokens!Answered /\ req' = [req EXCEPT ![r] = k]
                      /\ k.pc = "done" /\ k.seen = Tokens!NoRow
    BY AnsweredIs DEF Tokens!RefreshFails
  <1>2. CodexTyped'
    <2>1. req[r].seen.token \in 1 .. issued
      BY DEF CodexInv, HolderIsCurrent, Tokens!RefreshFails, Locking
    <2>2. /\ issued' = issued /\ live' \subseteq 1 .. issued' /\ refused' \subseteq 1 .. issued'
          /\ unsaved' \subseteq 1 .. issued'
      BY <2>1 DEF CodexInv, CodexTyped, Tokens!RefreshFails, Tokens!provider
    <2>3. QED
      BY <1>1, <2>2 DEF CodexInv, CodexTyped, Tokens!RefreshFails, Tokens!device
  <1>3. RowIsLive'
    BY DEF Tokens!RefreshFails, Tokens!Answered, Tokens!NewRequest, Tokens!NoRow, Tokens!provider,
           Tokens!device, CodexInv, RowIsLive, IsBacked, Signed, Accounted, Tokens!Flows, Locking
  <1>4. (\A r_1 \in Requests : RequestIsAbreast(r_1))'
    <2>1. ASSUME NEW q \in Requests
          PROVE  RequestIsAbreast(q)'
      <3>1. CASE q = r
        <4>1. req'[q] = k
          BY <1>1, <3>1 DEF CodexInv, CodexTyped
        <4>2. /\ issued' = issued /\ issued \in Nat /\ row' = row /\ row.version \in Nat
              /\ lock' = Nobody
          BY DEF CodexInv, CodexTyped, Tokens!RefreshFails, Tokens!provider, Rows
        <4>3. QED
          BY <1>1, <4>1, <4>2, AnsweredIs
          DEF RequestIsAbreast, IsBacked, Locking, Tokens!CodexAssumption
      <3>2. CASE q # r
        <4>1. req'[q] = req[q]
          BY <1>1, <3>2 DEF CodexInv, CodexTyped
        <4>2. lock = r /\ lock' = Nobody
          BY DEF CodexInv, RequestIsAbreast, Locking, Tokens!RefreshFails
        <4>3. QED
          BY <3>2, <4>1, <4>2
          DEF RequestIsAbreast, IsBacked, Signed, CodexInv, Tokens!RefreshFails, Tokens!provider, Tokens!device,
              Tokens!CodexAssumption
      <3>3. QED
        BY <3>1, <3>2
    <2>2. QED
      BY <2>1
  <1>5. (\A r_1 \in Requests : HolderIsCurrent(r_1))'
    BY DEF Tokens!RefreshFails, Tokens!Answered, Tokens!NewRequest, Tokens!NoRow, Tokens!provider,
           Tokens!device, CodexInv, HolderIsCurrent, Locking, Accounted, CodexTyped, Rows, Asked,
           AskedAt, Tokens!Flows, SignIns, SignInAt, SignInStates, AdminCalls, AdminAt,
           RowIsLive, IsBacked, Signed, RequestIsAbreast, FlowIsInTurn
  <1>6. (\A i_1 \in Tokens!Flows : FlowIsInTurn(i_1))'
    BY DEF Tokens!RefreshFails, Tokens!Answered, Tokens!NewRequest, Tokens!NoRow, Tokens!provider,
           Tokens!device, CodexInv, FlowIsInTurn, Tokens!Flows
  <1>7. QED
    BY <1>2, <1>3, <1>4, <1>5, <1>6 DEF CodexInv

LEMMA CodexStoreRefreshed ==
    ASSUME Tokens!CodexAssumption, CodexInv, NEW r \in Requests, Tokens!StoreRefreshed(r)
    PROVE  CodexInv'
  <1>1. /\ req[r] \in Asked /\ req[r].seen \in Rows /\ req[r].seen.login # 0 /\ req[r].token \in live
        /\ req[r].seen.version \in Nat /\ req[r].seen.login \in 0 .. MaxFlows
        /\ Signed(req[r].seen.login) /\ req[r].token \in 1 .. issued /\ lock = r
        /\ issued \in Nat
    <2>1. req[r] \in Asked /\ live \subseteq 1 .. issued /\ issued \in Nat
      BY DEF CodexInv, CodexTyped
    <2>2. req[r].seen.status = "connected" /\ req[r].token \in live
      BY DEF CodexInv, HolderIsCurrent, Tokens!StoreRefreshed, Locking
    <2>3. IsBacked(req[r].seen) /\ lock = r
      BY DEF CodexInv, RequestIsAbreast, Tokens!StoreRefreshed, Locking
    <2>4. QED
      BY <2>1, <2>2, <2>3 DEF Asked, Rows, IsBacked
  <1>2. /\ row' \in Rows /\ row'.status = "connected" /\ row'.version = req[r].seen.version + 1
        /\ row'.login = req[r].seen.login /\ row'.token = req[r].token
    BY <1>1 DEF Tokens!StoreRefreshed, Rows
  <1>3. PICK k \in Asked : /\ k.pc = "call" /\ k.seen = row' /\ k.token = 0
                          /\ req' = [req EXCEPT ![r] = k]
    <2>1. PICK c \in Asked : c = req[r]
      BY <1>1
    <2>2. [c EXCEPT !.pc = "call", !.seen = row', !.token = 0] \in Asked
      BY <1>2, <2>1 DEF Asked, AskedAt
    <2>3. req' = [req EXCEPT ![r] = [c EXCEPT !.pc = "call", !.seen = row', !.token = 0]]
      BY <2>1 DEF Tokens!StoreRefreshed
    <2>4. QED
      BY <2>2, <2>3 DEF Asked
  <1>4. /\ \A q \in Requests : req'[q] = (IF q = r THEN k ELSE req[q])
        /\ UNCHANGED <<issued, live, refused, unsaved, flow, signIn, ended>> /\ lock' = Nobody
    BY <1>3 DEF CodexInv, CodexTyped, Tokens!StoreRefreshed, Tokens!provider, Tokens!device
  <1>5. CodexTyped'
    BY <1>3, <1>2 DEF CodexInv, CodexTyped, Tokens!StoreRefreshed, Tokens!provider, Tokens!device
  <1>6. RowIsLive'
    BY DEF Tokens!StoreRefreshed, Tokens!provider, Tokens!device, CodexInv, RowIsLive, IsBacked,
           Signed, Accounted, CodexTyped, Rows, Asked, AskedAt, Tokens!Flows, SignIns, SignInAt,
           SignInStates, AdminCalls, AdminAt, RequestIsAbreast, Locking, HolderIsCurrent,
           Tokens!NoRow, FlowIsInTurn
  <1>7. (\A r_1 \in Requests : RequestIsAbreast(r_1))'
    <2>1. ASSUME NEW q \in Requests
          PROVE  RequestIsAbreast(q)'
      <3>1. CASE q = r
        BY <1>3, <1>1, <1>2, <1>4, <3>1
        DEF RequestIsAbreast, IsBacked, Signed, Locking, Tokens!CodexAssumption
      <3>2. CASE q # r
        <4>1. req'[q] = req[q] /\ req[q].seen.version \in Nat
          BY <1>4, <3>2 DEF CodexInv, CodexTyped, Asked, Rows
        <4>2. req[q].seen.login = req[r].seen.login => req[q].seen.version <= req[r].seen.version
          BY DEF CodexInv, HolderIsCurrent, Tokens!StoreRefreshed, Locking
        <4>3. QED
          BY <1>1, <1>2, <1>4, <3>2, <4>1, <4>2
          DEF RequestIsAbreast, IsBacked, Signed, CodexInv, Tokens!CodexAssumption
      <3>3. QED
        BY <3>1, <3>2
    <2>2. QED
      BY <2>1
  <1>8. (\A r_1 \in Requests : HolderIsCurrent(r_1))'
    BY DEF Tokens!StoreRefreshed, Tokens!provider, Tokens!device, CodexInv, HolderIsCurrent,
           Locking, Tokens!NoRow, Accounted, CodexTyped, Rows, Asked, AskedAt, Tokens!Flows,
           SignIns, SignInAt, SignInStates, AdminCalls, AdminAt, RowIsLive, IsBacked, Signed,
           RequestIsAbreast, FlowIsInTurn
  <1>9. (\A i_1 \in Tokens!Flows : FlowIsInTurn(i_1))'
    BY DEF Tokens!StoreRefreshed, Tokens!provider, Tokens!device, CodexInv, FlowIsInTurn,
           Tokens!Flows, Tokens!NoRow
  <1>10. QED
    BY <1>5, <1>6, <1>7, <1>8, <1>9 DEF CodexInv

LEMMA CodexStoreFails ==
    ASSUME Tokens!CodexAssumption, CodexInv, NEW r \in Requests, Tokens!StoreFails(r)
    PROVE  CodexInv'
  <1>1. PICK k \in Asked : k = Tokens!Answered /\ req' = [req EXCEPT ![r] = k]
                      /\ k.pc = "done" /\ k.seen = Tokens!NoRow
    BY AnsweredIs DEF Tokens!StoreFails
  <1>2. CodexTyped'
    <2>1. req[r].seen.token \in 1 .. issued
      BY DEF CodexInv, HolderIsCurrent, Tokens!StoreFails, Locking
    <2>2. QED
      BY <1>1, <2>1 DEF CodexInv, CodexTyped, Tokens!StoreFails, Tokens!device
  <1>3. RowIsLive'
    BY DEF Tokens!StoreFails, Tokens!Answered, Tokens!NewRequest, Tokens!NoRow, Tokens!device,
           CodexInv, RowIsLive, IsBacked, Signed, Accounted, CodexTyped, Rows, Asked, AskedAt,
           Tokens!Flows, SignIns, SignInAt, SignInStates, AdminCalls, AdminAt, RequestIsAbreast,
           Locking, HolderIsCurrent, FlowIsInTurn
  <1>4. (\A r_1 \in Requests : RequestIsAbreast(r_1))'
    <2>1. ASSUME NEW q \in Requests
          PROVE  RequestIsAbreast(q)'
      <3>1. CASE q = r
        <4>1. req'[q] = k
          BY <1>1, <3>1 DEF CodexInv, CodexTyped
        <4>2. /\ issued' = issued /\ issued \in Nat /\ row' = row /\ row.version \in Nat
              /\ lock' = Nobody
          BY DEF CodexInv, CodexTyped, Tokens!StoreFails, Tokens!provider, Rows
        <4>3. QED
          BY <1>1, <4>1, <4>2, AnsweredIs
          DEF RequestIsAbreast, IsBacked, Locking, Tokens!CodexAssumption
      <3>2. CASE q # r
        <4>1. req'[q] = req[q]
          BY <1>1, <3>2 DEF CodexInv, CodexTyped
        <4>2. lock = r /\ lock' = Nobody
          BY DEF CodexInv, RequestIsAbreast, Locking, Tokens!StoreFails
        <4>3. QED
          BY <3>2, <4>1, <4>2
          DEF RequestIsAbreast, IsBacked, Signed, CodexInv, Tokens!StoreFails, Tokens!provider, Tokens!device,
              Tokens!CodexAssumption
      <3>3. QED
        BY <3>1, <3>2
    <2>2. QED
      BY <2>1
  <1>5. (\A r_1 \in Requests : HolderIsCurrent(r_1))'
    BY DEF Tokens!StoreFails, Tokens!Answered, Tokens!NewRequest, Tokens!NoRow, Tokens!device,
           CodexInv, HolderIsCurrent, Locking, Accounted, CodexTyped, Rows, Asked, AskedAt,
           Tokens!Flows, SignIns, SignInAt, SignInStates, AdminCalls, AdminAt, RowIsLive,
           IsBacked, Signed, RequestIsAbreast, FlowIsInTurn
  <1>6. (\A i_1 \in Tokens!Flows : FlowIsInTurn(i_1))'
    BY DEF Tokens!StoreFails, Tokens!Answered, Tokens!NewRequest, Tokens!NoRow, Tokens!device,
           CodexInv, FlowIsInTurn, Tokens!Flows
  <1>7. QED
    BY <1>2, <1>3, <1>4, <1>5, <1>6 DEF CodexInv

LEMMA CodexMarkReauthenticationRequired ==
    ASSUME Tokens!CodexAssumption, CodexInv, NEW r \in Requests,
           Tokens!MarkReauthenticationRequired(r)
    PROVE  CodexInv'
  <1>1. PICK k \in Asked : k = Tokens!Answered /\ req' = [req EXCEPT ![r] = k]
                      /\ k.pc = "done" /\ k.seen = Tokens!NoRow
    BY AnsweredIs DEF Tokens!MarkReauthenticationRequired
  <1>2. /\ row' \in Rows /\ row'.login = row.login /\ row.version <= row'.version
        /\ row'.token = row.token
    <2>1. req[r].seen \in Rows /\ row \in Rows
      BY DEF CodexInv, CodexTyped, Asked
    <2>2. row.status # "none" => row.version = req[r].seen.version
      BY DEF CodexInv, HolderIsCurrent, Tokens!MarkReauthenticationRequired, Locking, Tokens!NoRow
    <2>3. CASE row' = row
      BY <2>1, <2>3 DEF Rows
    <2>4. CASE row' # row
      <3>1. PICK n \in Nat : n = req[r].seen.version /\ n = row.version
        BY <2>1, <2>2, <2>4 DEF Tokens!MarkReauthenticationRequired, Rows
      <3>2. PICK c \in Rows : c = [row EXCEPT !.status = "reauth-required"]
        BY <2>1 DEF Rows
      <3>3. c.login = row.login /\ c.token = row.token /\ c.version = n
        BY <2>1, <3>1, <3>2 DEF Rows
      <3>4. row' = [c EXCEPT !.version = n + 1]
        BY <2>4, <3>1, <3>2 DEF Tokens!MarkReauthenticationRequired
      <3>5. QED
        BY <3>1, <3>3, <3>4 DEF Rows
    <2>5. QED
      BY <2>3, <2>4
  <1>3. CodexTyped'
    BY <1>1, <1>2 DEF CodexInv, CodexTyped, Tokens!MarkReauthenticationRequired, Tokens!provider,
                   Tokens!device
  <1>4. RowIsLive'
    BY DEF Tokens!MarkReauthenticationRequired, Tokens!Answered, Tokens!NewRequest, Tokens!NoRow,
           Tokens!provider, Tokens!device, CodexInv, RowIsLive, IsBacked, Signed, Accounted,
           Tokens!Flows, Locking
  <1>5. (\A r_1 \in Requests : RequestIsAbreast(r_1))'
    <2>1. ASSUME NEW q \in Requests
          PROVE  RequestIsAbreast(q)'
      <3>1. CASE q = r
        <4>1. req'[q] = k
          BY <1>1, <3>1 DEF CodexInv, CodexTyped
        <4>2. /\ issued' = issued /\ issued \in Nat /\ row'.version \in Nat /\ lock' = Nobody
          BY <1>2 DEF CodexInv, CodexTyped, Tokens!MarkReauthenticationRequired, Tokens!provider, Rows
        <4>3. QED
          BY <1>1, <4>1, <4>2, AnsweredIs
          DEF RequestIsAbreast, IsBacked, Locking, Tokens!CodexAssumption
      <3>2. CASE q # r
        <4>1. req'[q] = req[q]
          BY <1>1, <3>2 DEF CodexInv, CodexTyped
        <4>2. lock = r /\ lock' = Nobody
          BY DEF CodexInv, RequestIsAbreast, Locking, Tokens!MarkReauthenticationRequired
        <4>3. req[q].seen.version \in Nat /\ row.version \in Nat /\ row'.version \in Nat
          BY <1>2 DEF CodexInv, CodexTyped, Rows, Asked
        <4>4. QED
          BY <1>2, <3>2, <4>1, <4>2, <4>3
          DEF RequestIsAbreast, IsBacked, Signed, CodexInv, Tokens!MarkReauthenticationRequired,
              Tokens!provider, Tokens!device, Tokens!CodexAssumption
      <3>3. QED
        BY <3>1, <3>2
    <2>2. QED
      BY <2>1
  <1>6. (\A r_1 \in Requests : HolderIsCurrent(r_1))'
    BY DEF Tokens!MarkReauthenticationRequired, Tokens!Answered, Tokens!NewRequest, Tokens!NoRow,
           Tokens!provider, Tokens!device, CodexInv, HolderIsCurrent, Locking, Accounted,
           CodexTyped, Rows, Asked, AskedAt, Tokens!Flows, SignIns, SignInAt, SignInStates,
           AdminCalls, AdminAt, RowIsLive, IsBacked, Signed, RequestIsAbreast, FlowIsInTurn
  <1>7. (\A i_1 \in Tokens!Flows : FlowIsInTurn(i_1))'
    BY DEF Tokens!MarkReauthenticationRequired, Tokens!Answered, Tokens!NewRequest, Tokens!NoRow,
           Tokens!provider, Tokens!device, CodexInv, FlowIsInTurn, Tokens!Flows
  <1>8. QED
    BY <1>3, <1>4, <1>5, <1>6, <1>7 DEF CodexInv

LEMMA CodexRefreshed ==
    ASSUME Tokens!CodexAssumption, CodexInv, NEW r \in Requests, NEW b \in BOOLEAN,
           Tokens!Refreshed(r, b)
    PROVE  CodexInv'
  <1>1. req[r] \in Asked /\ issued \in Nat /\ live \subseteq 1 .. issued
        /\ req[r].seen.token \in live
    BY DEF CodexInv, CodexTyped, Tokens!Refreshed
  <1>2. PICK k \in Asked : /\ k.pc = "store" /\ k.seen = req[r].seen /\ k.token \in live'
                          /\ req' = [req EXCEPT ![r] = k]
    <2>1. PICK n \in Nat : /\ n \in live'
                          /\ req' = [req EXCEPT ![r].pc = "store", ![r].token = n]
      BY <1>1 DEF Tokens!Refreshed
    <2>2. PICK c \in Asked : c = [req[r] EXCEPT !.pc = "store"]
      BY <1>1 DEF Asked, AskedAt
    <2>3. PICK e \in Asked : e = [c EXCEPT !.token = n]
      BY <2>1, <2>2 DEF Asked
    <2>4. e.pc = "store" /\ e.seen = req[r].seen /\ e.token = n
      BY <1>1, <2>2, <2>3 DEF Asked
    <2>5. req' = [req EXCEPT ![r] = e]
      BY <2>1, <2>2, <2>3 DEF CodexInv, CodexTyped
    <2>6. QED
      BY <2>1, <2>4, <2>5
  <1>3. /\ \A q \in Requests : req'[q] = (IF q = r THEN k ELSE req[q])
        /\ UNCHANGED <<row, lock, refused, unsaved, flow, signIn, ended>>
        /\ issued' \in {issued, issued + 1} /\ live' \subseteq 1 .. issued'
    BY <1>2, <1>1 DEF CodexInv, CodexTyped, Tokens!Refreshed, Tokens!device
  <1>4. CodexTyped'
    <2>1. issued' \in Nat /\ refused' \subseteq 1 .. issued' /\ unsaved' \subseteq 1 .. issued'
      BY <1>1, <1>3 DEF CodexInv, CodexTyped
    <2>2. QED
      BY <1>2, <1>3, <2>1 DEF CodexInv, CodexTyped, Tokens!Refreshed, Tokens!device
  <1>5. RowIsLive'
    BY DEF Tokens!Refreshed, Tokens!device, CodexInv, RowIsLive, IsBacked, Signed, Accounted,
           CodexTyped, Rows, Asked, AskedAt, Tokens!Flows, SignIns, SignInAt, SignInStates,
           AdminCalls, AdminAt, RequestIsAbreast, Locking, HolderIsCurrent, Tokens!NoRow,
           FlowIsInTurn
  <1>6. (\A r_1 \in Requests : RequestIsAbreast(r_1))'
    <2>1. ASSUME NEW q \in Requests
          PROVE  RequestIsAbreast(q)'
      <3>1. RequestIsAbreast(q) /\ req'[q].seen = req[q].seen /\ req[q].seen \in Rows
        BY <1>2, <1>3 DEF CodexInv, CodexTyped, Asked
      <3>2. IsBacked(req[q].seen)'
        BY <1>1, <1>3, <3>1 DEF RequestIsAbreast, IsBacked, Signed, Rows
      <3>3. req'[q].pc \in Locking <=> req[q].pc \in Locking
        BY <1>2, <1>3 DEF Locking, Tokens!Refreshed
      <3>4. QED
        BY <1>3, <3>1, <3>2, <3>3 DEF RequestIsAbreast, IsBacked
    <2>2. QED
      BY <2>1
  <1>7. (\A r_1 \in Requests : HolderIsCurrent(r_1))'
    <2>1. ASSUME NEW q \in Requests, req'[q].pc \in Locking
          PROVE  HolderIsCurrent(q)'
      <3>1. q = r /\ req[r].pc \in Locking
        BY <1>3, <2>1 DEF CodexInv, RequestIsAbreast, Tokens!Refreshed, Locking
      <3>2. HolderIsCurrent(r)
        BY DEF CodexInv
      <3>3. req'[r] = k /\ \A x \in Requests : req'[x].seen = req[x].seen
        BY <1>2, <1>3
      <3>4. req[r].seen.token \in 1 .. issued'
        <4>1. req[r].seen.token \in 1 .. issued
          BY <1>1
        <4>2. QED
          BY <1>1, <1>3, <4>1
      <3>5. QED
        BY <1>2, <1>3, <3>1, <3>2, <3>3, <3>4 DEF HolderIsCurrent
    <2>2. QED
      BY <2>1 DEF HolderIsCurrent
  <1>8. (\A i_1 \in Tokens!Flows : FlowIsInTurn(i_1))'
    BY DEF Tokens!Refreshed, Tokens!device, CodexInv, FlowIsInTurn, Tokens!Flows, Tokens!NoRow
  <1>9. QED
    BY <1>4, <1>5, <1>6, <1>7, <1>8 DEF CodexInv

LEMMA CodexRespond ==
    ASSUME Tokens!CodexAssumption, CodexInv, NEW r \in Requests, NEW b \in BOOLEAN,
           Tokens!Respond(r, b)
    PROVE  CodexInv'
  <1>1. PICK k \in Asked : /\ req' = [req EXCEPT ![r] = k] /\ k.pc \in {"done", "wait"}
                          /\ k.seen \in {req[r].seen, Tokens!NoRow}
    <2>1. CASE req' = [req EXCEPT ![r] = Tokens!Answered]
      BY <2>1, AnsweredIs
    <2>2. CASE req' = [req EXCEPT ![r].pc = "wait", ![r].forced = TRUE]
      <3>1. PICK c \in Asked : /\ c = [pc |-> "wait", forced |-> TRUE, seen |-> req[r].seen,
                                      token |-> req[r].token]
                              /\ req' = [req EXCEPT ![r] = c]
        BY <2>2, AskedAgain DEF CodexInv, CodexTyped, AskedAt
      <3>2. QED
        BY <3>1
    <2>3. QED
      BY <2>1, <2>2 DEF Tokens!Respond
  <1>2. CodexTyped'
    BY <1>1 DEF CodexInv, CodexTyped, Tokens!Respond, Tokens!provider, Tokens!device
  <1>3. RowIsLive'
    BY DEF Tokens!Respond, Tokens!Answered, Tokens!NewRequest, Tokens!NoRow, Tokens!provider,
           Tokens!device, CodexInv, RowIsLive, IsBacked, Signed, Accounted, CodexTyped, Rows,
           Asked, AskedAt, Tokens!Flows, SignIns, SignInAt, SignInStates, AdminCalls, AdminAt,
           RequestIsAbreast, Locking, HolderIsCurrent, FlowIsInTurn
  <1>4. (\A r_1 \in Requests : RequestIsAbreast(r_1))'
    BY DEF Tokens!Respond, Tokens!Answered, Tokens!NewRequest, Tokens!NoRow, Tokens!provider,
           Tokens!device, CodexInv, RequestIsAbreast, IsBacked, Signed, Locking, CodexTyped,
           Rows, Asked, AskedAt, Tokens!Flows, SignIns, SignInAt, SignInStates, AdminCalls,
           AdminAt
  <1>5. (\A r_1 \in Requests : HolderIsCurrent(r_1))'
    <2>1. ASSUME NEW q \in Requests, req'[q].pc \in Locking
          PROVE  HolderIsCurrent(q)'
      <3>1. /\ \A x \in Requests : req'[x] = (IF x = r THEN k ELSE req[x])
            /\ UNCHANGED <<row, lock, issued, live, refused, unsaved>>
        BY <1>1 DEF CodexInv, CodexTyped, Tokens!Respond, Tokens!provider, Tokens!device
      <3>2. q # r /\ HolderIsCurrent(q) /\ req[q].pc \in Locking /\ req'[q] = req[q]
        BY <1>1, <2>1, <3>1 DEF Locking, CodexInv
      <3>3. ASSUME NEW x \in Requests, req'[x].seen.login = req[q].seen.login
            PROVE  req'[x].seen.version <= req[q].seen.version
        <4>1. req[q].seen.login # 0
          BY <3>2 DEF HolderIsCurrent, CodexInv, RequestIsAbreast, IsBacked
        <4>2. QED
          BY <1>1, <3>1, <3>2, <3>3, <4>1, AnsweredIs DEF HolderIsCurrent
      <3>4. QED
        BY <3>1, <3>2, <3>3 DEF HolderIsCurrent, Accounted
    <2>2. QED
      BY <2>1 DEF HolderIsCurrent
  <1>6. (\A i_1 \in Tokens!Flows : FlowIsInTurn(i_1))'
    BY DEF Tokens!Respond, Tokens!Answered, Tokens!NewRequest, Tokens!NoRow, Tokens!provider,
           Tokens!device, CodexInv, FlowIsInTurn, Tokens!Flows
  <1>7. QED
    BY <1>2, <1>3, <1>4, <1>5, <1>6 DEF CodexInv

LEMMA CodexAccessExpires ==
    ASSUME Tokens!CodexAssumption, CodexInv, Tokens!AccessExpires
    PROVE  CodexInv'
  <1>1. CodexTyped'
    BY DEF Tokens!AccessExpires, Tokens!provider, Tokens!device, CodexInv, CodexTyped, Rows, Asked,
           AskedAt, Tokens!Flows, SignIns, SignInAt, SignInStates, AdminCalls, AdminAt,
           Tokens!NoRow
  <1>2. RowIsLive'
    BY DEF Tokens!AccessExpires, Tokens!provider, Tokens!device, CodexInv, RowIsLive, IsBacked,
           Signed, Accounted, Tokens!Flows, Locking, Tokens!NoRow
  <1>3. (\A r_1 \in Requests : RequestIsAbreast(r_1))'
    BY DEF Tokens!AccessExpires, Tokens!provider, Tokens!device, CodexInv, RequestIsAbreast,
           IsBacked, Signed, Locking, Tokens!Flows, Tokens!NoRow
  <1>4. (\A r_1 \in Requests : HolderIsCurrent(r_1))'
    BY DEF Tokens!AccessExpires, Tokens!provider, Tokens!device, CodexInv, HolderIsCurrent,
           Locking, Tokens!NoRow, Accounted, Tokens!Flows, IsBacked, Signed
  <1>5. (\A i_1 \in Tokens!Flows : FlowIsInTurn(i_1))'
    BY DEF Tokens!AccessExpires, Tokens!provider, Tokens!device, CodexInv, FlowIsInTurn,
           Tokens!Flows, Tokens!NoRow
  <1>6. QED
    BY <1>1, <1>2, <1>3, <1>4, <1>5 DEF CodexInv

LEMMA CodexPollAuthorized ==
    ASSUME Tokens!CodexAssumption, CodexInv, NEW i \in Tokens!Flows, Tokens!PollAuthorized(i)
    PROVE  CodexInv'
  <1>1. PICK k \in SignIns : k = [pc |-> "exchange", state |-> "exchanging", aborted |-> flow[i].aborted]
                      /\ flow' = [flow EXCEPT ![i] = k]
    BY SignInEnds DEF CodexInv, CodexTyped, Tokens!PollAuthorized, SignInAt, SignInStates
  <1>2. CodexTyped'
    BY <1>1 DEF CodexInv, CodexTyped, Tokens!PollAuthorized, Tokens!provider, Tokens!device, Tokens!sign_in_leaves
  <1>3. RowIsLive'
    BY DEF Tokens!PollAuthorized, Tokens!sign_in_leaves, Tokens!provider, CodexInv, RowIsLive,
           IsBacked, Signed, Accounted, CodexTyped, Rows, Asked, AskedAt, Tokens!Flows, SignIns,
           SignInAt, SignInStates, AdminCalls, AdminAt, Locking, Tokens!NoRow
  <1>4. (\A r_1 \in Requests : RequestIsAbreast(r_1))'
    BY DEF Tokens!PollAuthorized, Tokens!sign_in_leaves, Tokens!provider, CodexInv,
           RequestIsAbreast, IsBacked, Signed, Locking, CodexTyped, Rows, Asked, AskedAt,
           Tokens!Flows, SignIns, SignInAt, SignInStates, AdminCalls, AdminAt, Tokens!NoRow
  <1>5. (\A r_1 \in Requests : HolderIsCurrent(r_1))'
    BY DEF Tokens!PollAuthorized, Tokens!sign_in_leaves, Tokens!provider, CodexInv,
           HolderIsCurrent, Locking, Tokens!NoRow, Accounted, Tokens!Flows, IsBacked, Signed
  <1>6. (\A i_1 \in Tokens!Flows : FlowIsInTurn(i_1))'
    BY DEF Tokens!PollAuthorized, Tokens!sign_in_leaves, Tokens!provider, CodexInv, FlowIsInTurn,
           CodexTyped, Rows, Asked, AskedAt, Tokens!Flows, SignIns, SignInAt, SignInStates,
           AdminCalls, AdminAt, Tokens!NoRow
  <1>7. QED
    BY <1>2, <1>3, <1>4, <1>5, <1>6 DEF CodexInv

LEMMA CodexExchanged ==
    ASSUME Tokens!CodexAssumption, CodexInv, NEW i \in Tokens!Flows, Tokens!Exchanged(i)
    PROVE  CodexInv'
  <1>1. PICK k \in SignIns : k = [pc |-> "persist", state |-> flow[i].state, aborted |-> flow[i].aborted]
                      /\ flow' = [flow EXCEPT ![i] = k]
    BY SignInMoves DEF CodexInv, CodexTyped, Tokens!Exchanged, SignInAt
  <1>2. CodexTyped'
    BY <1>1 DEF CodexInv, CodexTyped, Tokens!Exchanged, Tokens!provider, Tokens!device, Tokens!sign_in_leaves
  <1>3. RowIsLive'
    BY DEF Tokens!Exchanged, Tokens!sign_in_leaves, Tokens!provider, CodexInv, RowIsLive, IsBacked,
           Signed, Accounted, Tokens!Flows, Locking, Tokens!NoRow
  <1>4. (\A r_1 \in Requests : RequestIsAbreast(r_1))'
    BY DEF Tokens!Exchanged, Tokens!sign_in_leaves, Tokens!provider, CodexInv, RequestIsAbreast,
           IsBacked, Signed, Locking, Tokens!Flows, Tokens!NoRow
  <1>5. (\A r_1 \in Requests : HolderIsCurrent(r_1))'
    BY DEF Tokens!Exchanged, Tokens!sign_in_leaves, Tokens!provider, CodexInv, HolderIsCurrent,
           Locking, Tokens!NoRow, Accounted, Tokens!Flows, IsBacked, Signed
  <1>6. (\A i_1 \in Tokens!Flows : FlowIsInTurn(i_1))'
    BY DEF Tokens!Exchanged, Tokens!sign_in_leaves, Tokens!provider, CodexInv, FlowIsInTurn,
           Tokens!Flows, Tokens!NoRow
  <1>7. QED
    BY <1>2, <1>3, <1>4, <1>5, <1>6 DEF CodexInv

LEMMA CodexReplace ==
    ASSUME Tokens!CodexAssumption, CodexInv, NEW i \in Tokens!Flows, Tokens!Replace(i)
    PROVE  CodexInv'
  <1>1. PICK k \in SignIns : k = [pc |-> "persisted", state |-> flow[i].state, aborted |-> flow[i].aborted]
                      /\ flow' = [flow EXCEPT ![i] = k]
    BY SignInMoves DEF CodexInv, CodexTyped, Tokens!Replace, SignInAt
  <1>2. CodexTyped'
    <2>1. row' \in Rows
      BY DEF CodexInv, CodexTyped, Tokens!Replace, Rows, Tokens!Flows
    <2>2. /\ issued' \in Nat /\ live' \subseteq 1 .. issued' /\ refused' \subseteq 1 .. issued'
          /\ unsaved' \subseteq 1 .. issued'
      BY DEF CodexInv, CodexTyped, Tokens!Replace
    <2>3. QED
      BY <1>1, <2>1, <2>2 DEF CodexInv, CodexTyped, Tokens!Replace
  <1>3. RowIsLive'
    BY DEF Tokens!Replace, Tokens!LockFree, CodexInv, RowIsLive, IsBacked, Signed, Accounted,
           CodexTyped, Rows, Asked, AskedAt, Tokens!Flows, SignIns, SignInAt, SignInStates,
           AdminCalls, AdminAt, Locking, Tokens!NoRow
  <1>4. (\A r_1 \in Requests : RequestIsAbreast(r_1))'
    BY DEF Tokens!Replace, Tokens!LockFree, CodexInv, RequestIsAbreast, IsBacked, Signed, Locking,
           CodexTyped, Rows, Asked, AskedAt, Tokens!Flows, SignIns, SignInAt, SignInStates,
           AdminCalls, AdminAt, Tokens!NoRow
  <1>5. (\A r_1 \in Requests : HolderIsCurrent(r_1))'
    <2>1. \A q \in Requests : req[q].pc \notin Locking
      BY DEF Tokens!Replace, Tokens!LockFree, CodexInv, RequestIsAbreast, Tokens!CodexAssumption
    <2>2. QED
      BY <2>1 DEF HolderIsCurrent, Tokens!Replace
  <1>6. (\A i_1 \in Tokens!Flows : FlowIsInTurn(i_1))'
    BY DEF Tokens!Replace, Tokens!LockFree, CodexInv, FlowIsInTurn, Tokens!Flows, Tokens!NoRow
  <1>7. QED
    BY <1>2, <1>3, <1>4, <1>5, <1>6 DEF CodexInv

LEMMA CodexConnected ==
    ASSUME Tokens!CodexAssumption, CodexInv, NEW i \in Tokens!Flows, Tokens!Connected(i)
    PROVE  CodexInv'
  <1>1. PICK k \in SignIns : k = [pc |-> "ended", state |-> "connected", aborted |-> flow[i].aborted]
                      /\ flow' = [flow EXCEPT ![i] = k]
    BY SignInEnds DEF CodexInv, CodexTyped, Tokens!Connected, Tokens!Ends, SignInAt, SignInStates
  <1>2. CodexTyped'
    BY <1>1 DEF CodexInv, CodexTyped, Tokens!Connected, Tokens!provider, Tokens!device, Tokens!sign_in_leaves
  <1>3. RowIsLive'
    BY DEF Tokens!Connected, Tokens!Ends, Tokens!sign_in_leaves, Tokens!provider, CodexInv,
           RowIsLive, IsBacked, Signed, Accounted, CodexTyped, Rows, Asked, AskedAt,
           Tokens!Flows, SignIns, SignInAt, SignInStates, AdminCalls, AdminAt, Locking,
           Tokens!NoRow
  <1>4. (\A r_1 \in Requests : RequestIsAbreast(r_1))'
    BY DEF Tokens!Connected, Tokens!Ends, Tokens!sign_in_leaves, Tokens!provider, CodexInv,
           RequestIsAbreast, IsBacked, Signed, Locking, CodexTyped, Rows, Asked, AskedAt,
           Tokens!Flows, SignIns, SignInAt, SignInStates, AdminCalls, AdminAt, Tokens!NoRow
  <1>5. (\A r_1 \in Requests : HolderIsCurrent(r_1))'
    BY DEF Tokens!Connected, Tokens!Ends, Tokens!sign_in_leaves, Tokens!provider, CodexInv,
           HolderIsCurrent, Locking, Tokens!NoRow, Accounted, Tokens!Flows, IsBacked, Signed
  <1>6. (\A i_1 \in Tokens!Flows : FlowIsInTurn(i_1))'
    BY DEF Tokens!Connected, Tokens!Ends, Tokens!sign_in_leaves, Tokens!provider, CodexInv,
           FlowIsInTurn, CodexTyped, Rows, Asked, AskedAt, Tokens!Flows, SignIns, SignInAt,
           SignInStates, AdminCalls, AdminAt, Tokens!NoRow
  <1>7. QED
    BY <1>2, <1>3, <1>4, <1>5, <1>6 DEF CodexInv

LEMMA CodexExpired ==
    ASSUME Tokens!CodexAssumption, CodexInv, NEW i \in Tokens!Flows, Tokens!Expired(i)
    PROVE  CodexInv'
  <1>1. PICK k \in SignIns : k = [pc |-> "ended", state |-> "expired", aborted |-> flow[i].aborted]
                      /\ flow' = [flow EXCEPT ![i] = k]
    BY SignInEnds DEF CodexInv, CodexTyped, Tokens!Expired, Tokens!Ends, SignInAt, SignInStates
  <1>2. CodexTyped'
    BY <1>1 DEF CodexInv, CodexTyped, Tokens!Expired, Tokens!provider, Tokens!device, Tokens!sign_in_leaves
  <1>3. RowIsLive'
    BY DEF Tokens!Expired, Tokens!Ends, Tokens!sign_in_leaves, Tokens!provider, CodexInv, RowIsLive,
           IsBacked, Signed, Accounted, CodexTyped, Rows, Asked, AskedAt, Tokens!Flows, SignIns,
           SignInAt, SignInStates, AdminCalls, AdminAt, Locking, Tokens!NoRow
  <1>4. (\A r_1 \in Requests : RequestIsAbreast(r_1))'
    BY DEF Tokens!Expired, Tokens!Ends, Tokens!sign_in_leaves, Tokens!provider, CodexInv,
           RequestIsAbreast, IsBacked, Signed, Locking, CodexTyped, Rows, Asked, AskedAt,
           Tokens!Flows, SignIns, SignInAt, SignInStates, AdminCalls, AdminAt, Tokens!NoRow
  <1>5. (\A r_1 \in Requests : HolderIsCurrent(r_1))'
    BY DEF Tokens!Expired, Tokens!Ends, Tokens!sign_in_leaves, Tokens!provider, CodexInv,
           HolderIsCurrent, Locking, Tokens!NoRow, Accounted, Tokens!Flows, IsBacked, Signed
  <1>6. (\A i_1 \in Tokens!Flows : FlowIsInTurn(i_1))'
    BY DEF Tokens!Expired, Tokens!Ends, Tokens!sign_in_leaves, Tokens!provider, CodexInv,
           FlowIsInTurn, CodexTyped, Rows, Asked, AskedAt, Tokens!Flows, SignIns, SignInAt,
           SignInStates, AdminCalls, AdminAt, Tokens!NoRow
  <1>7. QED
    BY <1>2, <1>3, <1>4, <1>5, <1>6 DEF CodexInv

LEMMA CodexFlowFails ==
    ASSUME Tokens!CodexAssumption, CodexInv, NEW i \in Tokens!Flows, Tokens!FlowFails(i)
    PROVE  CodexInv'
  <1>1. PICK k \in SignIns : flow' = [flow EXCEPT ![i] = k]
    <2>1. PICK e \in SignInStates : flow' = [flow EXCEPT ![i].pc = "ended", ![i].state = e]
      BY DEF Tokens!FlowFails, Tokens!Ends, SignInStates
    <2>2. flow \in [Tokens!Flows -> SignIns] /\ "ended" \in SignInAt
      BY DEF CodexInv, CodexTyped, SignInAt
    <2>3. QED
      BY <2>1, <2>2, SignInEnds
  <1>2. CodexTyped'
    BY <1>1 DEF CodexInv, CodexTyped, Tokens!FlowFails, Tokens!provider, Tokens!device, Tokens!sign_in_leaves
  <1>3. RowIsLive'
    BY DEF Tokens!FlowFails, Tokens!Ends, Tokens!sign_in_leaves, Tokens!provider, CodexInv,
           RowIsLive, IsBacked, Signed, Accounted, CodexTyped, Rows, Asked, AskedAt,
           Tokens!Flows, SignIns, SignInAt, SignInStates, AdminCalls, AdminAt, Locking,
           Tokens!NoRow
  <1>4. (\A r_1 \in Requests : RequestIsAbreast(r_1))'
    BY DEF Tokens!FlowFails, Tokens!Ends, Tokens!sign_in_leaves, Tokens!provider, CodexInv,
           RequestIsAbreast, IsBacked, Signed, Locking, CodexTyped, Rows, Asked, AskedAt,
           Tokens!Flows, SignIns, SignInAt, SignInStates, AdminCalls, AdminAt, Tokens!NoRow
  <1>5. (\A r_1 \in Requests : HolderIsCurrent(r_1))'
    BY DEF Tokens!FlowFails, Tokens!Ends, Tokens!sign_in_leaves, Tokens!provider, CodexInv,
           HolderIsCurrent, Locking, Tokens!NoRow, Accounted, Tokens!Flows, IsBacked, Signed
  <1>6. (\A i_1 \in Tokens!Flows : FlowIsInTurn(i_1))'
    BY DEF Tokens!FlowFails, Tokens!Ends, Tokens!sign_in_leaves, Tokens!provider, CodexInv,
           FlowIsInTurn, CodexTyped, Rows, Asked, AskedAt, Tokens!Flows, SignIns, SignInAt,
           SignInStates, AdminCalls, AdminAt, Tokens!NoRow
  <1>7. QED
    BY <1>2, <1>3, <1>4, <1>5, <1>6 DEF CodexInv

LEMMA CodexCancelCurrent ==
    ASSUME Tokens!CodexAssumption, CodexInv, NEW a \in Admins, Tokens!CancelCurrent(a)
    PROVE  CodexInv'
  <1>1. CodexTyped'
    <2>1. admin' \in [Admins -> AdminCalls]
      BY AdminMoves DEF CodexInv, CodexTyped, Tokens!CancelCurrent, AdminAt
    <2>2. flow' \in [Tokens!Flows -> SignIns]
      <3>1. CASE flow' = flow
        BY <3>1 DEF CodexInv, CodexTyped
      <3>2. CASE flow' # flow
        <4>1. signIn \in Tokens!Flows
          BY <3>2 DEF CodexInv, CodexTyped, Tokens!CancelCurrent, Tokens!Flows, Tokens!CodexAssumption
        <4>2. flow' = [flow EXCEPT ![signIn].state = "cancelled", ![signIn].aborted = TRUE]
          BY <3>2 DEF Tokens!CancelCurrent
        <4>3. PICK c \in SignIns : flow' = [flow EXCEPT ![signIn] = c]
          <5>1. flow \in [Tokens!Flows -> SignIns] /\ "cancelled" \in SignInStates
            BY DEF CodexInv, CodexTyped, SignInStates
          <5>2. QED
            BY <4>1, <4>2, <5>1, SignInAborts
        <4>4. QED
          BY <4>1, <4>3 DEF CodexInv, CodexTyped
      <3>3. QED
        BY <3>1, <3>2
    <2>3. QED
      BY <2>1, <2>2 DEF CodexInv, CodexTyped, Tokens!CancelCurrent, Tokens!provider
  <1>2. RowIsLive'
    BY DEF Tokens!CancelCurrent, Tokens!Terminal, Tokens!provider, CodexInv, RowIsLive, IsBacked,
           Signed, Accounted, CodexTyped, Rows, Asked, AskedAt, Tokens!Flows, SignIns, SignInAt,
           SignInStates, AdminCalls, AdminAt, Locking, Tokens!NoRow
  <1>3. (\A r_1 \in Requests : RequestIsAbreast(r_1))'
    BY DEF Tokens!CancelCurrent, Tokens!Terminal, Tokens!provider, CodexInv, RequestIsAbreast,
           IsBacked, Signed, Locking, CodexTyped, Rows, Asked, AskedAt, Tokens!Flows, SignIns,
           SignInAt, SignInStates, AdminCalls, AdminAt, Tokens!NoRow
  <1>4. (\A r_1 \in Requests : HolderIsCurrent(r_1))'
    BY DEF Tokens!CancelCurrent, Tokens!Terminal, Tokens!provider, CodexInv, HolderIsCurrent,
           Locking, Tokens!NoRow, Accounted, Tokens!Flows, IsBacked, Signed
  <1>5. (\A i_1 \in Tokens!Flows : FlowIsInTurn(i_1))'
    BY DEF Tokens!CancelCurrent, Tokens!Terminal, Tokens!provider, CodexInv, FlowIsInTurn,
           CodexTyped, Rows, Asked, AskedAt, Tokens!Flows, SignIns, SignInAt, SignInStates,
           AdminCalls, AdminAt, Tokens!NoRow
  <1>6. QED
    BY <1>1, <1>2, <1>3, <1>4, <1>5 DEF CodexInv

LEMMA CodexCancelled ==
    ASSUME Tokens!CodexAssumption, CodexInv, NEW a \in Admins, Tokens!Cancelled(a)
    PROVE  CodexInv'
  <1>1. CodexTyped'
    BY DEF Tokens!Cancelled, Tokens!RunEnded, Tokens!provider, CodexInv, CodexTyped, Rows, Asked,
           AskedAt, Tokens!Flows, SignIns, SignInAt, SignInStates, AdminCalls, AdminAt,
           Tokens!NoRow
  <1>2. RowIsLive'
    BY DEF Tokens!Cancelled, Tokens!RunEnded, Tokens!provider, CodexInv, RowIsLive, IsBacked,
           Signed, Accounted, Tokens!Flows, Locking, Tokens!NoRow
  <1>3. (\A r_1 \in Requests : RequestIsAbreast(r_1))'
    BY DEF Tokens!Cancelled, Tokens!RunEnded, Tokens!provider, CodexInv, RequestIsAbreast,
           IsBacked, Signed, Locking, Tokens!Flows, Tokens!NoRow
  <1>4. (\A r_1 \in Requests : HolderIsCurrent(r_1))'
    BY DEF Tokens!Cancelled, Tokens!RunEnded, Tokens!provider, CodexInv, HolderIsCurrent, Locking,
           Tokens!NoRow, Accounted, Tokens!Flows, IsBacked, Signed
  <1>5. (\A i_1 \in Tokens!Flows : FlowIsInTurn(i_1))'
    BY DEF Tokens!Cancelled, Tokens!RunEnded, Tokens!provider, CodexInv, FlowIsInTurn, Tokens!Flows,
           Tokens!NoRow
  <1>6. QED
    BY <1>1, <1>2, <1>3, <1>4, <1>5 DEF CodexInv

LEMMA CodexStartCurrent ==
    ASSUME Tokens!CodexAssumption, CodexInv, NEW a \in Admins, Tokens!StartCurrent(a)
    PROVE  CodexInv'
  <1>1. /\ signIn' \in 0 .. MaxFlows /\ ended' = ended /\ ended \in 0 .. signIn
        /\ signIn \in 0 .. MaxFlows /\ flow \in [Tokens!Flows -> SignIns]
        /\ \/ signIn' = signIn /\ flow' = flow
           \/ /\ signIn' = signIn + 1 /\ signIn' \in Tokens!Flows
              /\ flow' = [flow EXCEPT ![signIn + 1] =
                            [pc |-> "poll", state |-> "pending", aborted |-> FALSE]]
    <2>1. /\ signIn \in 0 .. MaxFlows /\ flow \in [Tokens!Flows -> SignIns] /\ ended \in 0 .. signIn
          /\ MaxFlows \in Nat
      BY DEF CodexInv, CodexTyped, Tokens!CodexAssumption
    <2>2. ended' = ended
          /\ \/ signIn' = signIn /\ flow' = flow
             \/ /\ signIn < MaxFlows /\ signIn' = signIn + 1
                /\ flow' = [flow EXCEPT ![signIn'] =
                              [pc |-> "poll", state |-> "pending", aborted |-> FALSE]]
      BY DEF Tokens!StartCurrent
    <2>3. signIn < MaxFlows /\ signIn' = signIn + 1 => signIn' \in Tokens!Flows /\ signIn' \in 0 .. MaxFlows
      BY <2>1 DEF Tokens!Flows
    <2>4. QED
      BY <2>1, <2>2, <2>3
  <1>2. \A i \in Tokens!Flows : Signed(i) => Signed(i)'
    <2>1. \A i \in Tokens!Flows : i > signIn => flow[i].pc = "none"
      BY DEF CodexInv, FlowIsInTurn
    <2>2. ASSUME NEW i \in Tokens!Flows, Signed(i)
          PROVE  flow'[i] = flow[i]
      <3>1. ~(i > signIn)
        BY <2>1, <2>2 DEF Signed
      <3>2. i # signIn + 1
        BY <1>1, <3>1 DEF Tokens!Flows
      <3>3. QED
        BY <1>1, <3>2
    <2>3. QED
      BY <2>2 DEF Signed
  <1>3. UNCHANGED <<row, lock, req, issued, live, refused, unsaved>>
    BY DEF Tokens!StartCurrent, Tokens!provider
  <1>4. CodexTyped'
    <2>1. admin' \in [Admins -> AdminCalls]
      BY AdminMoves DEF CodexInv, CodexTyped, Tokens!StartCurrent, AdminAt
    <2>2. [pc |-> "poll", state |-> "pending", aborted |-> FALSE] \in SignIns
      BY DEF SignIns, SignInAt, SignInStates
    <2>3. flow' \in [Tokens!Flows -> SignIns] /\ ended' \in 0 .. signIn'
      BY <1>1, <2>2
    <2>4. QED
      BY <1>1, <1>3, <2>1, <2>3 DEF CodexInv, CodexTyped, Tokens!StartCurrent
  <1>5. RowIsLive'
    <2>1. row.login # 0 => row.login \in Tokens!Flows
      BY DEF CodexInv, CodexTyped, Rows, Tokens!Flows, Tokens!CodexAssumption
    <2>2. IsBacked(row)'
      BY <1>2, <1>3, <2>1 DEF CodexInv, RowIsLive, IsBacked
    <2>3. QED
      BY <1>3, <2>2 DEF CodexInv, RowIsLive, Accounted
  <1>6. (\A r_1 \in Requests : RequestIsAbreast(r_1))'
    <2>1. ASSUME NEW q \in Requests
          PROVE  RequestIsAbreast(q)'
      <3>1. req[q].seen.login # 0 => req[q].seen.login \in Tokens!Flows
        BY DEF CodexInv, CodexTyped, Rows, Asked, Tokens!Flows, Tokens!CodexAssumption
      <3>2. RequestIsAbreast(q)
        BY DEF CodexInv
      <3>3. QED
        BY <1>2, <1>3, <3>1, <3>2 DEF RequestIsAbreast, IsBacked
    <2>2. QED
      BY <2>1
  <1>7. (\A r_1 \in Requests : HolderIsCurrent(r_1))'
    BY DEF Tokens!StartCurrent, Tokens!RunEnded, Tokens!provider, CodexInv, HolderIsCurrent,
           Locking, Tokens!NoRow, Accounted, Tokens!Flows, IsBacked, Signed
  <1>8. (\A i_1 \in Tokens!Flows : FlowIsInTurn(i_1))'
    <2>1. \A i \in Tokens!Flows : flow[i].pc \in {"none", "ended"}
      <3>1. signIn = 0 \/ flow[signIn].pc = "ended"
        BY DEF Tokens!StartCurrent, Tokens!RunEnded
      <3>2. \A i \in Tokens!Flows : i # 0 /\ (i # signIn => flow[i].pc \in {"none", "ended"})
        BY DEF CodexInv, FlowIsInTurn, Tokens!Flows, Tokens!CodexAssumption
      <3>3. QED
        BY <3>1, <3>2
    <2>2. ASSUME NEW i \in Tokens!Flows
          PROVE  FlowIsInTurn(i)'
      <3>1. FlowIsInTurn(i)
        BY DEF CodexInv
      <3>2. CASE signIn' = signIn /\ flow' = flow
        BY <1>1, <3>1, <3>2 DEF FlowIsInTurn
      <3>3. CASE signIn' = signIn + 1
        <4>1. CASE i = signIn'
          <5>1. flow'[i] = [pc |-> "poll", state |-> "pending", aborted |-> FALSE]
                /\ ~(i > signIn') /\ ~(i # signIn') /\ ~(i <= ended')
            <6>1. flow'[i] = [pc |-> "poll", state |-> "pending", aborted |-> FALSE]
              BY <1>1, <3>3, <4>1
            <6>2. i = signIn + 1 /\ signIn' = i /\ ended' \in 0 .. signIn /\ signIn \in Nat
              BY <1>1, <3>3, <4>1
            <6>3. QED
              BY <6>1, <6>2
          <5>2. QED
            BY <5>1 DEF FlowIsInTurn
        <4>2. CASE i # signIn'
          <5>1. flow'[i] = flow[i] /\ (i > signIn' => i > signIn) /\ (i <= ended' => i <= ended)
            <6>1. i \in Nat /\ i # signIn + 1 /\ signIn \in Nat /\ ended' = ended
                  /\ signIn' = signIn + 1
              BY <1>1, <3>3, <4>2 DEF Tokens!Flows, Tokens!CodexAssumption
            <6>2. flow'[i] = flow[i]
              BY <1>1, <6>1
            <6>3. QED
              BY <6>1, <6>2
          <5>2. QED
            BY <2>1, <3>1, <5>1 DEF FlowIsInTurn
        <4>3. QED
          BY <4>1, <4>2
      <3>4. QED
        BY <1>1, <3>2, <3>3
    <2>3. QED
      BY <2>2
  <1>9. QED
    BY <1>4, <1>5, <1>6, <1>7, <1>8 DEF CodexInv

LEMMA CodexDisconnect ==
    ASSUME Tokens!CodexAssumption, CodexInv, NEW a \in Admins, Tokens!Disconnect(a)
    PROVE  CodexInv'
  <1>1. CodexTyped'
    <2>1. admin' \in [Admins -> AdminCalls]
      BY AdminMoves DEF CodexInv, CodexTyped, Tokens!Disconnect, AdminAt
    <2>2. QED
      BY <2>1, AnsweredIs DEF CodexInv, CodexTyped, Tokens!Disconnect, Tokens!provider
  <1>2. RowIsLive'
    BY DEF Tokens!Disconnect, Tokens!NoRow, Tokens!provider, CodexInv, RowIsLive, IsBacked, Signed,
           Accounted, CodexTyped, Rows, Asked, AskedAt, Tokens!Flows, SignIns, SignInAt,
           SignInStates, AdminCalls, AdminAt, Locking
  <1>3. (\A r_1 \in Requests : RequestIsAbreast(r_1))'
    BY DEF Tokens!Disconnect, Tokens!NoRow, Tokens!provider, CodexInv, RequestIsAbreast, IsBacked,
           Signed, Locking, Tokens!Flows
  <1>4. (\A r_1 \in Requests : HolderIsCurrent(r_1))'
    BY DEF Tokens!Disconnect, Tokens!NoRow, Tokens!provider, CodexInv, HolderIsCurrent, Locking,
           Accounted, Tokens!Flows, IsBacked, Signed
  <1>5. (\A i_1 \in Tokens!Flows : FlowIsInTurn(i_1))'
    BY DEF Tokens!Disconnect, Tokens!NoRow, Tokens!provider, CodexInv, FlowIsInTurn, Tokens!Flows
  <1>6. QED
    BY <1>1, <1>2, <1>3, <1>4, <1>5 DEF CodexInv

LEMMA CodexCall ==
    ASSUME Tokens!CodexAssumption, CodexInv, NEW a \in Admins,
           NEW o \in {"start", "cancel", "disconnect"}, Tokens!Call(a, o)
    PROVE  CodexInv'
  <1>1. CodexTyped'
    BY DEF Tokens!Call, Tokens!provider, CodexInv, CodexTyped, Rows, Asked, AskedAt, Tokens!Flows,
           SignIns, SignInAt, SignInStates, AdminCalls, AdminAt, Tokens!NoRow
  <1>2. RowIsLive'
    BY DEF Tokens!Call, Tokens!provider, CodexInv, RowIsLive, IsBacked, Signed, Accounted,
           Tokens!Flows, Locking, Tokens!NoRow
  <1>3. (\A r_1 \in Requests : RequestIsAbreast(r_1))'
    BY DEF Tokens!Call, Tokens!provider, CodexInv, RequestIsAbreast, IsBacked, Signed, Locking,
           Tokens!Flows, Tokens!NoRow
  <1>4. (\A r_1 \in Requests : HolderIsCurrent(r_1))'
    BY DEF Tokens!Call, Tokens!provider, CodexInv, HolderIsCurrent, Locking, Tokens!NoRow,
           Accounted, Tokens!Flows, IsBacked, Signed
  <1>5. (\A i_1 \in Tokens!Flows : FlowIsInTurn(i_1))'
    BY DEF Tokens!Call, Tokens!provider, CodexInv, FlowIsInTurn, Tokens!Flows, Tokens!NoRow
  <1>6. QED
    BY <1>1, <1>2, <1>3, <1>4, <1>5 DEF CodexInv

LEMMA CodexStutter ==
    ASSUME Tokens!CodexAssumption, CodexInv, UNCHANGED Tokens!vars
    PROVE  CodexInv'
  <1>1. CodexTyped'
    BY DEF Tokens!vars, Tokens!provider, Tokens!device, CodexInv, CodexTyped, Tokens!Flows,
           Tokens!NoRow
  <1>2. RowIsLive'
    BY DEF Tokens!vars, Tokens!provider, Tokens!device, CodexInv, RowIsLive, IsBacked, Signed,
           Accounted, Tokens!Flows, Locking, Tokens!NoRow
  <1>3. (\A r_1 \in Requests : RequestIsAbreast(r_1))'
    BY DEF Tokens!vars, Tokens!provider, Tokens!device, CodexInv, RequestIsAbreast, IsBacked,
           Signed, Locking, Tokens!Flows, Tokens!NoRow
  <1>4. (\A r_1 \in Requests : HolderIsCurrent(r_1))'
    BY DEF Tokens!vars, Tokens!provider, Tokens!device, CodexInv, HolderIsCurrent, Locking,
           Tokens!NoRow, Accounted, Tokens!Flows, IsBacked, Signed
  <1>5. (\A i_1 \in Tokens!Flows : FlowIsInTurn(i_1))'
    BY DEF Tokens!vars, Tokens!provider, Tokens!device, CodexInv, FlowIsInTurn, Tokens!Flows,
           Tokens!NoRow
  <1>6. QED
    BY <1>1, <1>2, <1>3, <1>4, <1>5 DEF CodexInv

LEMMA CodexInit ==
    ASSUME Tokens!CodexAssumption, Tokens!Init
    PROVE  CodexInv
  <1>1. /\ row = Tokens!NoRow /\ lock = Nobody /\ \A r \in Requests : req[r] = Tokens!NewRequest
        /\ issued = 0 /\ live = {} /\ refused = {} /\ unsaved = {} /\ signIn = 0 /\ ended = 0
        /\ \A i \in Tokens!Flows : flow[i] = Tokens!NoFlow
    BY DEF Tokens!Init
  <1>2. CodexTyped
    <2>1. Tokens!NoFlow \in SignIns
      BY DEF Tokens!NoFlow, SignIns, SignInAt, SignInStates
    <2>2. [op |-> "none", pc |-> "idle"] \in AdminCalls
      BY DEF AdminCalls, AdminAt
    <2>3. /\ req \in [Requests -> Asked] /\ flow \in [Tokens!Flows -> SignIns]
          /\ admin \in [Admins -> AdminCalls] /\ turn = Nobody
      BY <2>1, <2>2, AnsweredIs DEF Tokens!Init
    <2>4. QED
      BY <1>1, <2>3, AnsweredIs DEF CodexTyped, Tokens!CodexAssumption
  <1>3. IsBacked(Tokens!NoRow)
    BY <1>1, AnsweredIs DEF IsBacked
  <1>4. RowIsLive
    BY <1>1, <1>3, AnsweredIs DEF RowIsLive
  <1>5. \A r \in Requests : RequestIsAbreast(r) /\ HolderIsCurrent(r)
    BY <1>1, <1>3, AnsweredIs
    DEF RequestIsAbreast, HolderIsCurrent, Locking, Tokens!CodexAssumption
  <1>6. \A i \in Tokens!Flows : FlowIsInTurn(i)
    BY <1>1 DEF FlowIsInTurn, Tokens!NoFlow
  <1>7. QED
    BY <1>2, <1>4, <1>5, <1>6 DEF CodexInv

LEMMA CodexStep ==
    ASSUME Tokens!CodexAssumption, CodexInv, [Tokens!Next]_(Tokens!vars)
    PROVE  CodexInv'
  <1>1. ASSUME NEW r \in Requests, Tokens!RequestStep(r)
        PROVE  CodexInv'
    <2>1. CASE \E b \in BOOLEAN : Tokens!Refreshed(r, b) \/ Tokens!Respond(r, b)
      BY <2>1, CodexRefreshed, CodexRespond
    <2>2. CASE ~\E b \in BOOLEAN : Tokens!Refreshed(r, b) \/ Tokens!Respond(r, b)
      <3>1. \/ Tokens!Ask(r) \/ Tokens!ReadForRequest(r) \/ Tokens!RefreshRefused(r)
            \/ Tokens!RefreshFails(r) \/ Tokens!StoreRefreshed(r) \/ Tokens!StoreFails(r)
            \/ Tokens!MarkReauthenticationRequired(r)
        BY <1>1, <2>2 DEF Tokens!RequestStep
      <3>2. QED
        BY <3>1, CodexAsk, CodexReadForRequest, CodexRefreshRefused, CodexRefreshFails,
           CodexStoreRefreshed, CodexStoreFails, CodexMarkReauthenticationRequired
    <2>3. QED
      BY <2>1, <2>2
  <1>2. ASSUME NEW i \in Tokens!Flows, Tokens!FlowStep(i)
        PROVE  CodexInv'
    BY <1>2, CodexPollAuthorized, CodexExchanged, CodexReplace, CodexConnected, CodexExpired,
       CodexFlowFails DEF Tokens!FlowStep
  <1>3. ASSUME NEW a \in Admins, Tokens!ControllerStep(a)
        PROVE  CodexInv'
    BY <1>3, CodexCancelCurrent, CodexCancelled, CodexStartCurrent, CodexDisconnect
    DEF Tokens!ControllerStep
  <1>4. ASSUME NEW a \in Admins, NEW o \in {"start", "cancel", "disconnect"}, Tokens!Call(a, o)
        PROVE  CodexInv'
    BY <1>4, CodexCall
  <1>5. QED
    BY <1>1, <1>2, <1>3, <1>4, CodexAccessExpires, CodexStutter DEF Tokens!Next

LEMMA CodexAlways ==
    ASSUME Tokens!CodexAssumption
    PROVE  Tokens!Spec => []CodexInv
  <1>1. Tokens!Init => CodexInv
    BY CodexInit
  <1>2. CodexInv /\ [Tokens!Next]_(Tokens!vars) => CodexInv'
    BY CodexStep
  <1>3. QED
    BY <1>1, <1>2, PTL DEF Tokens!Spec

\* A refresh token that the provider has taken back is never sent to it again, unless the
\* answer to its last refresh was lost or it was refused: every refresh runs under the
\* lock and reads the row again (readForRequest).
THEOREM NoCodexTokenIsReplayed ==
    ASSUME Tokens!CodexAssumption
    PROVE  Tokens!Spec => [](Tokens!TypeOK /\ Tokens!NoTokenIsReplayed)
  <1>1. ASSUME CodexInv
        PROVE  Tokens!TypeOK /\ Tokens!NoTokenIsReplayed
    <2>1. row.token \in 0 .. issued
      BY <1>1 DEF CodexInv, CodexTyped, RowIsLive, IsBacked, Rows
    <2>2. /\ \A r \in Requests : req[r].pc \in AskedAt
          /\ \A i \in Tokens!Flows : flow[i].pc \in SignInAt
          /\ row.status \in {"none", "connected", "reauth-required"}
          /\ row.login \in 0 .. MaxFlows /\ row.version \in Nat /\ row.fresh \in BOOLEAN
      BY <1>1 DEF CodexInv, CodexTyped, Rows, Asked, SignIns
    <2>3. Tokens!TypeOK
      BY <1>1, <2>1, <2>2 DEF CodexInv, CodexTyped, AskedAt, SignInAt, Tokens!TypeOK
    <2>4. Tokens!NoTokenIsReplayed
      BY <1>1 DEF CodexInv, HolderIsCurrent, Locking, Accounted, Tokens!NoTokenIsReplayed
    <2>5. QED
      BY <2>3, <2>4
  <1>2. QED
    BY <1>1, CodexAlways, PTL

\* A sign-in that is reported as cancelled has stored nothing (the controller's run,
\* where the storage overrules a later cancellation).
THEOREM CancelledCodexSignInsStoreNothing ==
    ASSUME Tokens!CodexAssumption
    PROVE  Tokens!Spec => []Tokens!CancelledStoredNothing
  <1>1. ASSUME CodexInv, NEW i \in Tokens!Flows, flow[i].pc = "ended", flow[i].state = "cancelled"
        PROVE  row.login # i
    <2>1. i # 0
      BY DEF Tokens!Flows
    <2>2. QED
      BY <1>1, <2>1 DEF CodexInv, RowIsLive, IsBacked, Signed
  <1>2. CodexInv => Tokens!CancelledStoredNothing
    BY <1>1 DEF Tokens!CancelledStoredNothing
  <1>3. QED
    BY <1>2, CodexAlways, PTL

\* Steps of requests that write the row, and of sign-ins that store theirs.
LEMMA CodexRowChanges ==
    ASSUME Tokens!CodexAssumption, CodexInv, Tokens!Next, row' # row
    PROVE  \/ \E r \in Requests : Tokens!StoreRefreshed(r) \/ Tokens!MarkReauthenticationRequired(r)
           \/ \E i \in Tokens!Flows : Tokens!Replace(i)
           \/ Tokens!AccessExpires \/ row' = Tokens!NoRow
  <1>1. ASSUME NEW r \in Requests, Tokens!RequestStep(r)
        PROVE  Tokens!StoreRefreshed(r) \/ Tokens!MarkReauthenticationRequired(r) \/ row' = row
    BY <1>1 DEF Tokens!RequestStep, Tokens!Ask, Tokens!ReadForRequest, Tokens!RefreshRefused,
       Tokens!RefreshFails, Tokens!StoreFails, Tokens!Refreshed, Tokens!Respond
  <1>2. ASSUME NEW i \in Tokens!Flows, Tokens!FlowStep(i)
        PROVE  Tokens!Replace(i) \/ row' = row
    BY <1>2 DEF Tokens!FlowStep, Tokens!PollAuthorized, Tokens!Exchanged, Tokens!Connected, Tokens!Expired,
       Tokens!FlowFails, Tokens!sign_in_leaves
  <1>3. ASSUME NEW a \in Admins, Tokens!ControllerStep(a)
        PROVE  row' \in {row, Tokens!NoRow}
    BY <1>3 DEF Tokens!ControllerStep, Tokens!CancelCurrent, Tokens!Cancelled, Tokens!StartCurrent,
       Tokens!Disconnect
  <1>4. ASSUME NEW a \in Admins, NEW o \in {"start", "cancel", "disconnect"}, Tokens!Call(a, o)
        PROVE  row' = row
    BY <1>4 DEF Tokens!Call
  <1>5. QED
    BY <1>1, <1>2, <1>3, <1>4 DEF Tokens!Next

\* What an earlier sign-in still has under way, a refresh or its refusal, never
\* overwrites the credentials of a later one (replace, replaceCredential and
\* markCredentialReauthenticationRequired).
THEOREM CodexSignInsAreKept ==
    ASSUME Tokens!CodexAssumption
    PROVE  Tokens!Spec => [][Tokens!SignInIsKept]_(Tokens!vars)
  <1>1. ASSUME CodexInv, Tokens!Next
        PROVE  Tokens!SignInIsKept
    <2> SUFFICES ASSUME row.status # "none", row'.status # "none", row' # row
                 PROVE  /\ row'.login >= row.login
                        /\ (row'.status = "reauth-required" /\ row.status = "connected")
                              => row.token \in refused
      BY DEF Tokens!SignInIsKept
    <2>1. row \in Rows /\ row.login \in Nat
      BY <1>1 DEF CodexInv, CodexTyped, Rows
    <2>2. ASSUME NEW r \in Requests, Tokens!StoreRefreshed(r)
          PROVE  row'.login = row.login /\ row'.status = "connected"
      <3>1. row.login = req[r].seen.login
        BY <1>1, <2>2, AnsweredIs
        DEF CodexInv, HolderIsCurrent, Locking, Tokens!StoreRefreshed
      <3>2. QED
        BY <2>2, <3>1 DEF Tokens!StoreRefreshed
    <2>3. ASSUME NEW r \in Requests, Tokens!MarkReauthenticationRequired(r)
          PROVE  row'.login = row.login /\ row.token \in refused
      <3>1. row.token \in refused
        BY <1>1, <2>3, AnsweredIs
        DEF CodexInv, HolderIsCurrent, Locking, Tokens!MarkReauthenticationRequired
      <3>2. row'.login = row.login
        BY <2>1, <2>3 DEF Tokens!MarkReauthenticationRequired, Rows
      <3>3. QED
        BY <3>1, <3>2
    <2>4. ASSUME NEW i \in Tokens!Flows, Tokens!Replace(i)
          PROVE  row'.login >= row.login /\ row'.status = "connected"
      <3>1. row'.login = i /\ row'.status = "connected"
        BY <2>4 DEF Tokens!Replace
      <3>2. signIn = i /\ i \in Nat
        BY <1>1, <2>4 DEF CodexInv, FlowIsInTurn, Tokens!Replace, Tokens!Flows
      <3>3. row.login \in Tokens!Flows /\ flow[row.login].pc # "none"
        BY <1>1, <2>1 DEF CodexInv, CodexTyped, RowIsLive, IsBacked, Signed, Rows, Tokens!Flows
      <3>4. ~(row.login > signIn)
        BY <1>1, <3>3 DEF CodexInv, FlowIsInTurn
      <3>5. QED
        BY <2>1, <3>1, <3>2, <3>4
    <2>5. ASSUME Tokens!AccessExpires
          PROVE  row'.login = row.login /\ row'.status = row.status
      BY <2>1, <2>5 DEF Tokens!AccessExpires, Rows
    <2>6. row' # Tokens!NoRow
      BY AnsweredIs
    <2>7. QED
      BY <1>1, <2>1, <2>2, <2>3, <2>4, <2>5, <2>6, CodexRowChanges
  <1>2. QED
    BY <1>1, CodexAlways, PTL DEF Tokens!Spec

\* Requests that were refused the same access token refresh it once: a forced refresh of
\* the same sign-in starts only from the version that was refused.
THEOREM CodexRefreshesOnce ==
    ASSUME Tokens!CodexAssumption
    PROVE  Tokens!Spec => [][Tokens!RefreshedOnce]_(Tokens!vars)
  <1>1. ASSUME CodexInv, Tokens!Next
        PROVE  Tokens!RefreshedOnce
    <2> SUFFICES ASSUME NEW q \in Requests, req[q].pc = "wait", req'[q].pc = "refresh", req[q].forced,
                        row.login = req[q].seen.login
                 PROVE  row.version = req[q].seen.version
      BY DEF Tokens!RefreshedOnce
    <2>1. req \in [Requests -> Asked]
      BY <1>1 DEF CodexInv, CodexTyped
    <2>2. ASSUME NEW r \in Requests, Tokens!RequestStep(r)
          PROVE  Tokens!ReadForRequest(q)
      <3>1. CASE r # q
        <4>1. req'[q] = req[q]
          BY <2>1, <2>2, <3>1
          DEF Tokens!RequestStep, Tokens!Ask, Tokens!ReadForRequest, Tokens!RefreshRefused,
              Tokens!RefreshFails, Tokens!StoreRefreshed, Tokens!StoreFails,
              Tokens!MarkReauthenticationRequired, Tokens!Refreshed, Tokens!Respond
        <4>2. QED
          BY <4>1
      <3>2. CASE r = q
        BY <2>2, <3>2
        DEF Tokens!RequestStep, Tokens!Ask, Tokens!RefreshRefused, Tokens!RefreshFails,
            Tokens!StoreRefreshed, Tokens!StoreFails, Tokens!MarkReauthenticationRequired,
            Tokens!Refreshed, Tokens!Respond
      <3>3. QED
        BY <3>1, <3>2
    <2>3. ASSUME NEW i \in Tokens!Flows, Tokens!FlowStep(i)
          PROVE  req' = req
      BY <2>3 DEF Tokens!FlowStep, Tokens!PollAuthorized, Tokens!Exchanged, Tokens!Replace, Tokens!Connected,
                  Tokens!Expired, Tokens!FlowFails, Tokens!sign_in_leaves
    <2>4. ASSUME NEW a \in Admins,
                 \/ Tokens!ControllerStep(a)
                 \/ \E o \in {"start", "cancel", "disconnect"} : Tokens!Call(a, o)
          PROVE  req' = req
      BY <2>4 DEF Tokens!ControllerStep, Tokens!CancelCurrent, Tokens!Cancelled, Tokens!StartCurrent,
                  Tokens!Disconnect, Tokens!Call
    <2>5. Tokens!ReadForRequest(q)
      BY <1>1, <2>2, <2>3, <2>4 DEF Tokens!Next, Tokens!AccessExpires
    <2>6. Tokens!ShouldRefresh(q)
      BY <2>1, <2>5, AnsweredIs DEF Tokens!ReadForRequest, Asked
    <2>7. row.version \in Nat /\ req[q].seen.version \in Nat
      BY <1>1 DEF CodexInv, CodexTyped, Rows, Asked
    <2>8. QED
      BY <1>1, <2>6, <2>7 DEF CodexInv, RequestIsAbreast, Tokens!ShouldRefresh
  <1>2. QED
    BY <1>1, CodexAlways, PTL DEF Tokens!Spec

\* A sign-in that was under way when an administrator disconnected does not bring the
\* connection back (cancelCurrent waits for the end of its run).
THEOREM DisconnectEndsCodexSignIns ==
    ASSUME Tokens!CodexAssumption
    PROVE  Tokens!Spec => [][Tokens!DisconnectEndsSignIns]_(Tokens!vars)
  <1>1. ASSUME CodexInv, Tokens!Next
        PROVE  Tokens!DisconnectEndsSignIns
    <2> SUFFICES ASSUME NEW i \in Tokens!Flows, flow'[i].pc = "persisted", flow[i].pc # "persisted"
                 PROVE  i > ended
      BY DEF Tokens!DisconnectEndsSignIns
    <2>1. flow \in [Tokens!Flows -> SignIns] /\ ended \in Nat /\ i \in Nat
      BY <1>1 DEF CodexInv, CodexTyped, Tokens!Flows, Tokens!CodexAssumption
    <2>2. ASSUME NEW r \in Requests, Tokens!RequestStep(r)
          PROVE  flow' = flow
      BY <2>2 DEF Tokens!RequestStep, Tokens!Ask, Tokens!ReadForRequest, Tokens!RefreshRefused,
         Tokens!RefreshFails, Tokens!StoreRefreshed, Tokens!StoreFails,
         Tokens!MarkReauthenticationRequired, Tokens!Refreshed, Tokens!Respond, Tokens!device
    <2>3. ASSUME NEW j \in Tokens!Flows, Tokens!FlowStep(j)
          PROVE  i > ended
      <3>1. i = j /\ flow[i].pc = "persist"
        BY <2>1, <2>3
        DEF Tokens!FlowStep, Tokens!PollAuthorized, Tokens!Exchanged, Tokens!Replace, Tokens!Connected,
            Tokens!Expired, Tokens!FlowFails, Tokens!Ends, SignIns
      <3>2. QED
        BY <1>1, <2>1, <3>1 DEF CodexInv, FlowIsInTurn
    <2>4. ASSUME NEW a \in Admins, Tokens!ControllerStep(a)
          PROVE  FALSE
      <3>1. CASE Tokens!CancelCurrent(a)
        BY <2>1, <3>1 DEF Tokens!CancelCurrent, SignIns
      <3>2. CASE ~Tokens!CancelCurrent(a)
        BY <2>1, <2>4, <3>2 DEF Tokens!ControllerStep, Tokens!Cancelled, Tokens!StartCurrent,
           Tokens!Disconnect
      <3>3. QED
        BY <3>1, <3>2
    <2>5. ASSUME NEW a \in Admins, NEW o \in {"start", "cancel", "disconnect"}, Tokens!Call(a, o)
          PROVE  flow' = flow
      BY <2>5 DEF Tokens!Call
    <2>6. Tokens!AccessExpires => flow' = flow
      BY DEF Tokens!AccessExpires, Tokens!device
    <2>7. QED
      BY <1>1, <2>2, <2>3, <2>4, <2>5, <2>6 DEF Tokens!Next
  <1>2. QED
    BY <1>1, CodexAlways, PTL DEF Tokens!Spec
-----------------------------------------------------------------------------
(* The settings of the organisation and its workspaces (OrganizationSettings): *)
(* for any number of administrators, workspaces, providers and saves.          *)

CONSTANTS Workspaces, Jobs, Custom, CodexProvider, NoProvider
VARIABLES org, ws, codexStatus, assigned, page, tx

Settings == INSTANCE OrganizationSettings WITH Codex <- CodexProvider, credential <- codexStatus

Routes == Settings!Providers \cup {NoProvider}
Organizations ==
    [version : 1 .. MaxVersion, connections : SUBSET Settings!Providers, route : Routes, url : {0, 1}]
WorkspaceRows == [version : Nat, feature : Routes]
Transactions ==
    [kind : {"none"}, next : {NoProvider}, workspace : {NoProvider}]
        \cup [kind : {"organization"}, next : Organizations, workspace : {NoProvider}]
        \cup [kind : {"workspace"}, next : Routes, workspace : Workspaces]

SettingsTyped ==
    /\ org \in Organizations /\ ws \in [Workspaces -> WorkspaceRows]
    /\ codexStatus \in {"none", "connected", "reauth-required"} /\ assigned \subseteq Jobs
    /\ tx \in [Admins -> Transactions]
    /\ page \in [Admins -> [org : Organizations, ws : [Workspaces -> WorkspaceRows]]]

\* The row of the organisation is locked by one save, or shared by saves of workspaces.
SavesAlone(a, b) == tx[a].kind = "organization" => a = b \/ tx[b].kind = "none"

\* A save of the organisation was checked against what is still there when it ends.
SaveIsDue(a) ==
    tx[a].kind = "organization" =>
        /\ tx[a].next.version = org.version + 1 /\ page[a].org = org
        /\ tx[a].next.route \in tx[a].next.connections \cup {NoProvider}
        /\ \A w \in Workspaces : ws[w].feature \in tx[a].next.connections \cup {NoProvider}
        /\ tx[a].next.route = CodexProvider => codexStatus # "none"
ChoiceExists(a) ==
    tx[a].kind = "workspace" => tx[a].next \in org.connections \cup {NoProvider}

\* A page shows settings of the past; the version tells whether they are the present ones.
PageIsPast(a) ==
    /\ page[a].org.version <= org.version
    /\ page[a].org.version = org.version => page[a].org = org

SettingsInv ==
    /\ SettingsTyped
    /\ \A a, b \in Admins : SavesAlone(a, b)
    /\ \A a \in Admins : SaveIsDue(a)
    /\ \A a \in Admins : ChoiceExists(a)
    /\ \A a \in Admins : PageIsPast(a)
    /\ Settings!ReferencesExist
    /\ Settings!RouteHasCredentials

LEMMA NoSaveIs ==
    Settings!NoTx.kind = "none" /\ Settings!NoTx \in Transactions
  BY DEF Settings!NoTx, Transactions

\* What a save may write is a row of the organisation, one version on.
LEMMA ChangesAreOrganizations ==
    ASSUME Settings!SettingsAssumption, SettingsTyped, org.version < MaxVersion,
           NEW s \in Settings!Changes
    PROVE  s \in Organizations
  <1>1. /\ org.version \in 1 .. MaxVersion /\ org.version + 1 \in 1 .. MaxVersion
        /\ org.connections \subseteq Settings!Providers /\ org.route \in Routes /\ org.url \in {0, 1}
        /\ DOMAIN org = {"version", "connections", "route", "url"}
    BY DEF SettingsTyped, Organizations, Settings!SettingsAssumption
  <1>2. DEFINE next == [org EXCEPT !.version = @ + 1]
  <1>3. next \in Organizations /\ next.connections = org.connections /\ next.url = org.url
    BY <1>1 DEF SettingsTyped, Organizations
  <1>4. \/ \E p \in Custom : s = [next EXCEPT !.connections = @ \cup {p}]
        \/ \E p \in Custom : s = [next EXCEPT !.connections = @ \ {p}]
        \/ \E p \in Routes : s = [next EXCEPT !.route = p]
        \/ s = [next EXCEPT !.url = 1 - @]
    BY <1>1 DEF Settings!Changes, Routes
  <1>5. Custom \subseteq Settings!Providers
    BY DEF Settings!Providers
  <1> HIDE DEF next
  <1>6. QED
    BY <1>1, <1>3, <1>4, <1>5 DEF Organizations

LEMMA SettingsReadPage ==
    ASSUME Settings!SettingsAssumption, SettingsInv, NEW a \in Admins, Settings!ReadPage(a)
    PROVE  SettingsInv'
  <1>1. SettingsTyped'
    BY DEF Settings!ReadPage, SettingsInv, SettingsTyped
  <1>2. (\A a_1, b_1 \in Admins : SavesAlone(a_1, b_1))'
    BY DEF Settings!ReadPage, SettingsInv, SavesAlone
  <1>3. (\A a_1 \in Admins : SaveIsDue(a_1))'
    BY DEF Settings!ReadPage, SettingsInv, SaveIsDue
  <1>4. (\A a_1 \in Admins : ChoiceExists(a_1))'
    BY DEF Settings!ReadPage, SettingsInv, ChoiceExists
  <1>5. (\A a_1 \in Admins : PageIsPast(a_1))'
    BY DEF Settings!ReadPage, SettingsInv, PageIsPast, SettingsTyped, Organizations
  <1>6. Settings!ReferencesExist'
    BY DEF Settings!ReadPage, SettingsInv, Settings!ReferencesExist, Settings!ReferencesHold
  <1>7. Settings!RouteHasCredentials'
    BY DEF Settings!ReadPage, SettingsInv, Settings!RouteHasCredentials
  <1>8. QED
    BY <1>1, <1>2, <1>3, <1>4, <1>5, <1>6, <1>7 DEF SettingsInv

LEMMA SettingsBeginOrganization ==
    ASSUME Settings!SettingsAssumption, SettingsInv, NEW a \in Admins,
           NEW s \in Settings!Changes, Settings!BeginOrganization(a, s)
    PROVE  SettingsInv'
  <1>1. SettingsTyped'
    <2>1. s \in Organizations
      BY ChangesAreOrganizations DEF SettingsInv, Settings!BeginOrganization
    <2>2. [kind |-> "organization", next |-> s, workspace |-> NoProvider] \in Transactions
      BY <2>1 DEF Transactions
    <2>3. QED
      BY <2>2 DEF SettingsInv, SettingsTyped, Settings!BeginOrganization, Settings!NoWorkspace
  <1>2. (\A a_1, b_1 \in Admins : SavesAlone(a_1, b_1))'
    BY DEF Settings!BeginOrganization, Settings!MayUpdate, Settings!Holds, SettingsInv,
           SavesAlone, SettingsTyped, Transactions
  <1>3. (\A a_1 \in Admins : SaveIsDue(a_1))'
    BY DEF Settings!BeginOrganization, Settings!ExpectedVersion, Settings!ReferencesHold,
           Settings!RouteAllowed, SettingsInv, SaveIsDue, PageIsPast,
           Settings!RouteHasCredentials
  <1>4. (\A a_1 \in Admins : ChoiceExists(a_1))'
    BY DEF Settings!BeginOrganization, SettingsInv, ChoiceExists
  <1>5. (\A a_1 \in Admins : PageIsPast(a_1))'
    BY DEF Settings!BeginOrganization, SettingsInv, PageIsPast
  <1>6. Settings!ReferencesExist'
    BY DEF Settings!BeginOrganization, Settings!ReferencesHold, SettingsInv,
           Settings!ReferencesExist
  <1>7. Settings!RouteHasCredentials'
    BY DEF Settings!BeginOrganization, SettingsInv, Settings!RouteHasCredentials
  <1>8. QED
    BY <1>1, <1>2, <1>3, <1>4, <1>5, <1>6, <1>7 DEF SettingsInv

LEMMA SettingsCommitOrganization ==
    ASSUME Settings!SettingsAssumption, SettingsInv, NEW a \in Admins,
           Settings!CommitOrganization(a)
    PROVE  SettingsInv'
  <1>1. SettingsTyped'
    <2>1. tx[a].next \in Organizations /\ Settings!NoTx \in Transactions
      BY NoSaveIs DEF SettingsInv, SettingsTyped, Transactions, Settings!CommitOrganization
    <2>2. PICK o \in Organizations : o = tx[a].next
      BY <2>1
    <2>3. [page[a] EXCEPT !.org = o] \in [org : Organizations, ws : [Workspaces -> WorkspaceRows]]
      BY DEF SettingsInv, SettingsTyped
    <2>4. org' = o /\ page' = [page EXCEPT ![a] = [page[a] EXCEPT !.org = o]]
      BY <2>2 DEF Settings!CommitOrganization
    <2>5. QED
      BY <2>1, <2>3, <2>4 DEF SettingsInv, SettingsTyped, Settings!CommitOrganization
  <1>2. (\A a_1, b_1 \in Admins : SavesAlone(a_1, b_1))'
    BY DEF Settings!CommitOrganization, SettingsInv, SavesAlone
  <1>3. (\A a_1 \in Admins : SaveIsDue(a_1))'
    BY DEF Settings!CommitOrganization, Settings!NoTx, SettingsInv, SaveIsDue, SettingsTyped,
           SavesAlone
  <1>4. (\A a_1 \in Admins : ChoiceExists(a_1))'
    BY DEF Settings!CommitOrganization, Settings!NoTx, SettingsInv, ChoiceExists, SavesAlone
  <1>5. (\A a_1 \in Admins : PageIsPast(a_1))'
    BY DEF Settings!CommitOrganization, SettingsInv, PageIsPast, SettingsTyped, Organizations,
           SaveIsDue
  <1>6. Settings!ReferencesExist'
    BY DEF Settings!CommitOrganization, SettingsInv, Settings!ReferencesExist,
           Settings!ReferencesHold, SaveIsDue
  <1>7. Settings!RouteHasCredentials'
    BY DEF Settings!CommitOrganization, SettingsInv, Settings!RouteHasCredentials, SaveIsDue
  <1>8. QED
    BY <1>1, <1>2, <1>3, <1>4, <1>5, <1>6, <1>7 DEF SettingsInv

LEMMA SettingsBeginWorkspace ==
    ASSUME Settings!SettingsAssumption, SettingsInv, NEW a \in Admins, NEW w \in Workspaces,
           NEW p \in Routes, Settings!BeginWorkspace(a, w, p)
    PROVE  SettingsInv'
  <1>1. SettingsTyped'
    BY DEF Settings!BeginWorkspace, SettingsInv, SettingsTyped, Transactions
  <1>2. (\A a_1, b_1 \in Admins : SavesAlone(a_1, b_1))'
    BY DEF Settings!BeginWorkspace, Settings!MayShare, Settings!Holds, SettingsInv, SavesAlone
  <1>3. (\A a_1 \in Admins : SaveIsDue(a_1))'
    BY DEF Settings!BeginWorkspace, SettingsInv, SaveIsDue
  <1>4. (\A a_1 \in Admins : ChoiceExists(a_1))'
    BY DEF Settings!BeginWorkspace, SettingsInv, ChoiceExists
  <1>5. (\A a_1 \in Admins : PageIsPast(a_1))'
    BY DEF Settings!BeginWorkspace, SettingsInv, PageIsPast
  <1>6. Settings!ReferencesExist'
    BY DEF Settings!BeginWorkspace, SettingsInv, Settings!ReferencesExist,
           Settings!ReferencesHold
  <1>7. Settings!RouteHasCredentials'
    BY DEF Settings!BeginWorkspace, SettingsInv, Settings!RouteHasCredentials
  <1>8. QED
    BY <1>1, <1>2, <1>3, <1>4, <1>5, <1>6, <1>7 DEF SettingsInv

LEMMA SettingsCommitWorkspace ==
    ASSUME Settings!SettingsAssumption, SettingsInv, NEW a \in Admins,
           Settings!CommitWorkspace(a)
    PROVE  SettingsInv'
  <1>1. SettingsTyped'
    <2>1. tx[a].next \in Routes /\ tx[a].workspace \in Workspaces /\ Settings!NoTx \in Transactions
      BY NoSaveIs DEF SettingsInv, SettingsTyped, Transactions, Settings!CommitWorkspace
    <2>2. PICK w \in Workspaces : w = tx[a].workspace
      BY <2>1
    <2>3. ws' \in [Workspaces -> WorkspaceRows]
      BY <2>1, <2>2 DEF SettingsInv, SettingsTyped, WorkspaceRows, Settings!CommitWorkspace
    <2>4. PICK r \in WorkspaceRows : r = ws'[w]
      BY <2>3
    <2>5. page' = [page EXCEPT ![a] = [page[a] EXCEPT !.ws[w] = r]]
      BY <2>2, <2>4 DEF Settings!CommitWorkspace
    <2>6. [page[a] EXCEPT !.ws[w] = r] \in [org : Organizations, ws : [Workspaces -> WorkspaceRows]]
      BY DEF SettingsInv, SettingsTyped
    <2>7. QED
      BY <2>1, <2>3, <2>5, <2>6 DEF SettingsInv, SettingsTyped, Settings!CommitWorkspace
  <1>2. (\A a_1, b_1 \in Admins : SavesAlone(a_1, b_1))'
    BY DEF Settings!CommitWorkspace, Settings!NoTx, SettingsInv, SavesAlone
  <1>3. (\A a_1 \in Admins : SaveIsDue(a_1))'
    BY DEF Settings!CommitWorkspace, Settings!NoTx, SettingsInv, SaveIsDue, SavesAlone
  <1>4. (\A a_1 \in Admins : ChoiceExists(a_1))'
    BY DEF Settings!CommitWorkspace, Settings!NoTx, SettingsInv, ChoiceExists
  <1>5. (\A a_1 \in Admins : PageIsPast(a_1))'
    BY DEF Settings!CommitWorkspace, SettingsInv, PageIsPast
  <1>6. Settings!ReferencesExist'
    BY DEF Settings!CommitWorkspace, SettingsInv, Settings!ReferencesExist,
           Settings!ReferencesHold, SettingsTyped, Transactions, ChoiceExists
  <1>7. Settings!RouteHasCredentials'
    BY DEF Settings!CommitWorkspace, SettingsInv, Settings!RouteHasCredentials
  <1>8. QED
    BY <1>1, <1>2, <1>3, <1>4, <1>5, <1>6, <1>7 DEF SettingsInv

LEMMA SettingsRollback ==
    ASSUME Settings!SettingsAssumption, SettingsInv, NEW a \in Admins, Settings!Rollback(a)
    PROVE  SettingsInv'
  <1>1. SettingsTyped'
    BY DEF Settings!Rollback, Settings!NoTx, SettingsInv, SettingsTyped, Transactions
  <1>2. (\A a_1, b_1 \in Admins : SavesAlone(a_1, b_1))'
    BY DEF Settings!Rollback, Settings!NoTx, SettingsInv, SavesAlone
  <1>3. (\A a_1 \in Admins : SaveIsDue(a_1))'
    BY DEF Settings!Rollback, Settings!NoTx, SettingsInv, SaveIsDue
  <1>4. (\A a_1 \in Admins : ChoiceExists(a_1))'
    BY DEF Settings!Rollback, Settings!NoTx, SettingsInv, ChoiceExists
  <1>5. (\A a_1 \in Admins : PageIsPast(a_1))'
    BY DEF Settings!Rollback, SettingsInv, PageIsPast
  <1>6. Settings!ReferencesExist'
    BY DEF Settings!Rollback, SettingsInv, Settings!ReferencesExist, Settings!ReferencesHold
  <1>7. Settings!RouteHasCredentials'
    BY DEF Settings!Rollback, SettingsInv, Settings!RouteHasCredentials
  <1>8. QED
    BY <1>1, <1>2, <1>3, <1>4, <1>5, <1>6, <1>7 DEF SettingsInv

LEMMA SettingsSignIn ==
    ASSUME Settings!SettingsAssumption, SettingsInv, Settings!SignIn
    PROVE  SettingsInv'
  <1>1. SettingsTyped'
    BY DEF Settings!SignIn, SettingsInv, SettingsTyped
  <1>2. (\A a_1, b_1 \in Admins : SavesAlone(a_1, b_1))'
    BY DEF Settings!SignIn, SettingsInv, SavesAlone
  <1>3. (\A a_1 \in Admins : SaveIsDue(a_1))'
    BY DEF Settings!SignIn, SettingsInv, SaveIsDue
  <1>4. (\A a_1 \in Admins : ChoiceExists(a_1))'
    BY DEF Settings!SignIn, SettingsInv, ChoiceExists
  <1>5. (\A a_1 \in Admins : PageIsPast(a_1))'
    BY DEF Settings!SignIn, SettingsInv, PageIsPast
  <1>6. Settings!ReferencesExist'
    BY DEF Settings!SignIn, SettingsInv, Settings!ReferencesExist, Settings!ReferencesHold
  <1>7. Settings!RouteHasCredentials'
    BY DEF Settings!SignIn, SettingsInv, Settings!RouteHasCredentials
  <1>8. QED
    BY <1>1, <1>2, <1>3, <1>4, <1>5, <1>6, <1>7 DEF SettingsInv

LEMMA SettingsRefreshRefused ==
    ASSUME Settings!SettingsAssumption, SettingsInv, Settings!RefreshRefused
    PROVE  SettingsInv'
  <1>1. SettingsTyped'
    BY DEF Settings!RefreshRefused, SettingsInv, SettingsTyped
  <1>2. (\A a_1, b_1 \in Admins : SavesAlone(a_1, b_1))'
    BY DEF Settings!RefreshRefused, SettingsInv, SavesAlone
  <1>3. (\A a_1 \in Admins : SaveIsDue(a_1))'
    BY DEF Settings!RefreshRefused, SettingsInv, SaveIsDue
  <1>4. (\A a_1 \in Admins : ChoiceExists(a_1))'
    BY DEF Settings!RefreshRefused, SettingsInv, ChoiceExists
  <1>5. (\A a_1 \in Admins : PageIsPast(a_1))'
    BY DEF Settings!RefreshRefused, SettingsInv, PageIsPast
  <1>6. Settings!ReferencesExist'
    BY DEF Settings!RefreshRefused, SettingsInv, Settings!ReferencesExist,
           Settings!ReferencesHold
  <1>7. Settings!RouteHasCredentials'
    BY DEF Settings!RefreshRefused, SettingsInv, Settings!RouteHasCredentials
  <1>8. QED
    BY <1>1, <1>2, <1>3, <1>4, <1>5, <1>6, <1>7 DEF SettingsInv

LEMMA SettingsDisconnect ==
    ASSUME Settings!SettingsAssumption, SettingsInv, Settings!Disconnect
    PROVE  SettingsInv'
  <1>1. SettingsTyped'
    BY DEF Settings!Disconnect, SettingsInv, SettingsTyped
  <1>2. (\A a_1, b_1 \in Admins : SavesAlone(a_1, b_1))'
    BY DEF Settings!Disconnect, SettingsInv, SavesAlone
  <1>3. (\A a_1 \in Admins : SaveIsDue(a_1))'
    BY DEF Settings!Disconnect, Settings!MayUpdate, Settings!Holds, SettingsInv, SaveIsDue
  <1>4. (\A a_1 \in Admins : ChoiceExists(a_1))'
    BY DEF Settings!Disconnect, SettingsInv, ChoiceExists
  <1>5. (\A a_1 \in Admins : PageIsPast(a_1))'
    BY DEF Settings!Disconnect, SettingsInv, PageIsPast
  <1>6. Settings!ReferencesExist'
    BY DEF Settings!Disconnect, SettingsInv, Settings!ReferencesExist, Settings!ReferencesHold
  <1>7. Settings!RouteHasCredentials'
    BY DEF Settings!Disconnect, SettingsInv, Settings!RouteHasCredentials
  <1>8. QED
    BY <1>1, <1>2, <1>3, <1>4, <1>5, <1>6, <1>7 DEF SettingsInv

LEMMA SettingsAssign ==
    ASSUME Settings!SettingsAssumption, SettingsInv, NEW j \in Jobs, Settings!Assign(j)
    PROVE  SettingsInv'
  <1>1. SettingsTyped'
    BY DEF Settings!Assign, SettingsInv, SettingsTyped
  <1>2. (\A a_1, b_1 \in Admins : SavesAlone(a_1, b_1))'
    BY DEF Settings!Assign, SettingsInv, SavesAlone
  <1>3. (\A a_1 \in Admins : SaveIsDue(a_1))'
    BY DEF Settings!Assign, SettingsInv, SaveIsDue
  <1>4. (\A a_1 \in Admins : ChoiceExists(a_1))'
    BY DEF Settings!Assign, SettingsInv, ChoiceExists
  <1>5. (\A a_1 \in Admins : PageIsPast(a_1))'
    BY DEF Settings!Assign, SettingsInv, PageIsPast
  <1>6. Settings!ReferencesExist'
    BY DEF Settings!Assign, SettingsInv, Settings!ReferencesExist, Settings!ReferencesHold
  <1>7. Settings!RouteHasCredentials'
    BY DEF Settings!Assign, SettingsInv, Settings!RouteHasCredentials
  <1>8. QED
    BY <1>1, <1>2, <1>3, <1>4, <1>5, <1>6, <1>7 DEF SettingsInv

LEMMA SettingsUnassign ==
    ASSUME Settings!SettingsAssumption, SettingsInv, NEW j \in Jobs, Settings!Unassign(j)
    PROVE  SettingsInv'
  <1>1. SettingsTyped'
    BY DEF Settings!Unassign, SettingsInv, SettingsTyped
  <1>2. (\A a_1, b_1 \in Admins : SavesAlone(a_1, b_1))'
    BY DEF Settings!Unassign, SettingsInv, SavesAlone
  <1>3. (\A a_1 \in Admins : SaveIsDue(a_1))'
    BY DEF Settings!Unassign, SettingsInv, SaveIsDue
  <1>4. (\A a_1 \in Admins : ChoiceExists(a_1))'
    BY DEF Settings!Unassign, SettingsInv, ChoiceExists
  <1>5. (\A a_1 \in Admins : PageIsPast(a_1))'
    BY DEF Settings!Unassign, SettingsInv, PageIsPast
  <1>6. Settings!ReferencesExist'
    BY DEF Settings!Unassign, SettingsInv, Settings!ReferencesExist, Settings!ReferencesHold
  <1>7. Settings!RouteHasCredentials'
    BY DEF Settings!Unassign, SettingsInv, Settings!RouteHasCredentials
  <1>8. QED
    BY <1>1, <1>2, <1>3, <1>4, <1>5, <1>6, <1>7 DEF SettingsInv

LEMMA SettingsStutter ==
    ASSUME Settings!SettingsAssumption, SettingsInv, UNCHANGED Settings!vars
    PROVE  SettingsInv'
  <1>1. SettingsTyped'
    BY DEF Settings!vars, SettingsInv, SettingsTyped
  <1>2. (\A a_1, b_1 \in Admins : SavesAlone(a_1, b_1))'
    BY DEF Settings!vars, SettingsInv, SavesAlone
  <1>3. (\A a_1 \in Admins : SaveIsDue(a_1))'
    BY DEF Settings!vars, SettingsInv, SaveIsDue
  <1>4. (\A a_1 \in Admins : ChoiceExists(a_1))'
    BY DEF Settings!vars, SettingsInv, ChoiceExists
  <1>5. (\A a_1 \in Admins : PageIsPast(a_1))'
    BY DEF Settings!vars, SettingsInv, PageIsPast
  <1>6. Settings!ReferencesExist'
    BY DEF Settings!vars, SettingsInv, Settings!ReferencesExist, Settings!ReferencesHold
  <1>7. Settings!RouteHasCredentials'
    BY DEF Settings!vars, SettingsInv, Settings!RouteHasCredentials
  <1>8. QED
    BY <1>1, <1>2, <1>3, <1>4, <1>5, <1>6, <1>7 DEF SettingsInv

LEMMA SettingsInit ==
    ASSUME Settings!SettingsAssumption, Settings!Init
    PROVE  SettingsInv
  <1>1. org \in Organizations
    BY DEF Settings!Init, Settings!SettingsAssumption, Organizations, Settings!Providers, Routes
  <1>2. ws \in [Workspaces -> WorkspaceRows]
    BY DEF Settings!Init, WorkspaceRows, Routes
  <1>3. SettingsTyped
    BY <1>1, <1>2, NoSaveIs DEF Settings!Init, SettingsTyped
  <1>4. /\ \A a, b \in Admins : SavesAlone(a, b)
        /\ \A a \in Admins : SaveIsDue(a)
        /\ \A a \in Admins : ChoiceExists(a)
    BY NoSaveIs DEF Settings!Init, SavesAlone, SaveIsDue, ChoiceExists
  <1>5. \A a \in Admins : PageIsPast(a)
    <2>1. org.version = 1 /\ \A a \in Admins : page[a].org = org
      BY DEF Settings!Init
    <2>2. QED
      BY <2>1 DEF PageIsPast
  <1>6. Settings!ReferencesExist /\ Settings!RouteHasCredentials
    BY DEF Settings!Init, Settings!SettingsAssumption, Settings!ReferencesExist,
           Settings!ReferencesHold, Settings!RouteHasCredentials
  <1>7. QED
    BY <1>3, <1>4, <1>5, <1>6 DEF SettingsInv

LEMMA SettingsStep ==
    ASSUME Settings!SettingsAssumption, SettingsInv, [Settings!Next]_(Settings!vars)
    PROVE  SettingsInv'
  <1>1. ASSUME NEW a \in Admins, Settings!AdminStep(a)
        PROVE  SettingsInv'
    BY <1>1, SettingsReadPage, SettingsCommitOrganization, SettingsCommitWorkspace, SettingsRollback,
       SettingsBeginOrganization, SettingsBeginWorkspace DEF Settings!AdminStep, Routes
  <1>2. ASSUME NEW j \in Jobs, Settings!Assign(j) \/ Settings!Unassign(j)
        PROVE  SettingsInv'
    BY <1>2, SettingsAssign, SettingsUnassign
  <1>3. QED
    BY <1>1, <1>2, SettingsSignIn, SettingsRefreshRefused, SettingsDisconnect, SettingsStutter
    DEF Settings!Next

LEMMA SettingsAlways ==
    ASSUME Settings!SettingsAssumption
    PROVE  Settings!Spec => []SettingsInv
  <1>1. Settings!Init => SettingsInv
    BY SettingsInit
  <1>2. SettingsInv /\ [Settings!Next]_(Settings!vars) => SettingsInv'
    BY SettingsStep
  <1>3. QED
    BY <1>1, <1>2, PTL DEF Settings!Spec

\* Whatever saves race, every provider that the organisation or a workspace uses has a
\* connection (validateWorkspaceProviderReferences under the lock of the organisation), and
\* the organisation does not route a feature to Codex without its credentials
\* (validateOpenAICodexRouteChange and the lock disconnect takes).
THEOREM SettingsReferToWhatExists ==
    ASSUME Settings!SettingsAssumption
    PROVE  Settings!Spec => [](/\ Settings!TypeOK
                               /\ Settings!ReferencesExist
                               /\ Settings!RouteHasCredentials)
  <1>1. ASSUME SettingsInv
        PROVE  Settings!TypeOK /\ Settings!ReferencesExist /\ Settings!RouteHasCredentials
    <2>1. /\ org.version \in 1 .. MaxVersion /\ org.connections \subseteq Settings!Providers
          /\ \A w \in Workspaces : ws[w].feature \in Settings!Providers \cup {NoProvider}
          /\ codexStatus \in {"none", "connected", "reauth-required"} /\ assigned \subseteq Jobs
      BY <1>1 DEF SettingsInv, SettingsTyped, Organizations, WorkspaceRows, Routes
    <2>2. ASSUME NEW a \in Admins, Settings!Holds(a, {"organization"}), NEW b \in Admins \ {a}
          PROVE  ~Settings!Holds(b, {"organization", "workspace"})
      BY <1>1, <2>2 DEF SettingsInv, SavesAlone, Settings!Holds
    <2>3. Settings!TypeOK
      BY <2>1, <2>2 DEF Settings!TypeOK
    <2>4. QED
      BY <1>1, <2>3 DEF SettingsInv
  <1>2. QED
    BY <1>1, SettingsAlways, PTL

\* Nobody saves over settings of the organisation that its page does not show: the version
\* a page was built from tells whether it is still the present one.
THEOREM SettingsAreSavedAsShown ==
    ASSUME Settings!SettingsAssumption
    PROVE  Settings!Spec => [][Settings!SavesWhatWasShown]_(Settings!vars)
  <1>1. SettingsInv => Settings!SavesWhatWasShown
    BY DEF SettingsInv, SaveIsDue, Settings!SavesWhatWasShown
  <1>2. QED
    BY <1>1, SettingsAlways, PTL DEF Settings!Spec
-----------------------------------------------------------------------------
(* Accounts: for any number of people, workspaces, sessions, links, requests   *)
(* and OAuth configurations.                                                   *)

CONSTANTS People, Admin, First, Sessions, Links, Configurations, MaxPasswords, None
VARIABLES workspace, member, user, credential, chosen, passwords, session, link, used,
          settings, identity, request

Accounts == INSTANCE Accounts WITH Users <- People

Memberships ==
    {Accounts!NoMember} \cup [role : {"admin", "member"}, access : {"enabled", "disabled"}]
UserRows == [state : {"none", "pending", "active"}, default : Workspaces \cup {None}]
Seats == [user : People, workspace : Workspaces]
Modes ==
    [mode : {"local", "oauth"}, active : Configurations \cup {None},
     staged : Configurations \cup {None}, recovery : BOOLEAN, version : 1 .. MaxVersion]
Principals ==
    [op : {"principal"}, session : Sessions \cup {None}, user : People, workspace : Workspaces,
     role : {"none", "admin", "member"}, version : 1 .. MaxVersion]
Logins == [op : {"login"}, user : People, workspace : Workspaces]
Switches == [op : {"switch"}, session : Sessions, user : People, workspace : Workspaces]
Setups == [op : {"setup"}, link : Links]
Changes == [op : {"change"}, session : Sessions, user : People, read : Nat]

CatalogTyped ==
    /\ workspace \in [Workspaces -> {"none", "active", "archived"}]
    /\ member \in [People -> [Workspaces -> Memberships]]
    /\ user \in [People -> UserRows]
SecretsTyped ==
    /\ credential \in [People -> Nat] /\ chosen \in [People -> Nat] /\ passwords \in 1 .. MaxPasswords
    /\ \A u \in People : credential[u] <= passwords
SessionsTyped ==
    /\ session \in [Sessions -> Seats \cup {Accounts!NoSession}]
    /\ link \in [Links -> Seats \cup {Accounts!NoLink}] /\ used \in [Links -> {0, 1}]
OAuthTyped ==
    /\ settings \in Modes /\ identity \in [Configurations -> SUBSET People]
    /\ settings.mode = "oauth" <=> settings.active # None
RequestsTyped ==
    request \in [Requests -> {Accounts!NoRequest} \cup Principals \cup Logins \cup Switches
                                \cup Setups \cup Changes]

\* The global administrator is active and administers every workspace there is.
AdminIsIn ==
    /\ user[Admin].state = "active"
    /\ \A w \in Workspaces : workspace[w] # "none" => member[Admin][w] = Accounts!AdminMember

\* A link that can be used has not been used, and is the only one of its user.
LinksAreFresh ==
    /\ \A k \in Links : link[k] # Accounts!NoLink => used[k] = 0
    /\ \A k, l \in Links :
          link[k] # Accounts!NoLink /\ link[l] # Accounts!NoLink /\ link[k].user = link[l].user => k = l

\* Without OAuth an active user has a password, the one that was set last.
PasswordsAreSet ==
    Configurations = {} =>
        \A u \in People : /\ user[u].state = "active" => credential[u] # 0
                         /\ credential[u] = chosen[u]

AccountsInv ==
    /\ CatalogTyped /\ SecretsTyped /\ SessionsTyped /\ OAuthTyped /\ RequestsTyped
    /\ AdminIsIn /\ LinksAreFresh /\ PasswordsAreSet
    /\ Accounts!DefaultIsReachable /\ Accounts!OAuthCanBeLeft

LEMMA NothingIs ==
    /\ Accounts!NoMember = [role |-> "none", access |-> "none"]
    /\ Accounts!AdminMember = [role |-> "admin", access |-> "enabled"]
    /\ Accounts!NoSession = [user |-> None, workspace |-> None]
    /\ Accounts!NoLink = [user |-> None, workspace |-> None]
    /\ Accounts!NoRequest.op = "none"
    /\ Accounts!AdminMember \in Memberships
  BY DEF Accounts!NoMember, Accounts!AdminMember, Accounts!NoSession, Accounts!NoLink,
         Accounts!NoRequest, Memberships

LEMMA RequestsAre ==
    ASSUME AccountsInv, NEW r \in Requests
    PROVE  /\ request[r].op = "principal" => request[r] \in Principals
           /\ request[r].op = "setup" => request[r].link \in Links
           /\ request[r].op = "change" => request[r].user \in People
  BY NothingIs DEF AccountsInv, RequestsTyped, Principals, Logins, Switches, Setups, Changes

\* A change of the authentication settings moves their version on and keeps the rest.
LEMMA BumpedIs ==
    ASSUME Accounts!AccountsAssumption, AccountsInv, settings.version < MaxVersion
    PROVE  /\ Accounts!Bumped \in Modes
           /\ Accounts!Bumped.mode = settings.mode /\ Accounts!Bumped.active = settings.active
           /\ Accounts!Bumped.staged = settings.staged
  <1>1. settings \in Modes
    BY DEF AccountsInv, OAuthTyped
  <1>2. settings.version + 1 \in 1 .. MaxVersion
    BY <1>1 DEF Modes, Accounts!AccountsAssumption
  <1>3. PICK n \in 1 .. MaxVersion : n = settings.version + 1
    BY <1>2
  <1>4. Accounts!Bumped = [settings EXCEPT !.version = n]
    BY <1>3 DEF Accounts!Bumped
  <1>5. QED
    BY <1>1, <1>4 DEF Modes

LEMMA ToLocalIs ==
    ASSUME Accounts!AccountsAssumption, AccountsInv, settings.version < MaxVersion
    PROVE  /\ Accounts!ToLocal \in Modes
           /\ Accounts!ToLocal.mode = "local" /\ Accounts!ToLocal.active = None
  <1>1. PICK b \in Modes : b = Accounts!Bumped
    BY BumpedIs
  <1>2. settings.active \in Configurations \cup {None}
    BY DEF AccountsInv, OAuthTyped, Modes
  <1>3. PICK c \in Configurations \cup {None} : c = settings.active
    BY <1>2
  <1>4. Accounts!ToLocal = [b EXCEPT !.mode = "local", !.active = None, !.staged = c]
    BY <1>1, <1>3 DEF Accounts!ToLocal
  <1>5. QED
    BY <1>1, <1>3, <1>4 DEF Modes

\* Who loses a default workspace keeps the rest of the row.
LEMMA UndefaultedIs ==
    ASSUME AccountsInv, NEW us, NEW w, NEW u \in People
    PROVE  Accounts!Undefaulted(us, w)[u].state = user[u].state
  BY DEF AccountsInv, CatalogTyped, UserRows, Accounts!Undefaulted

LEMMA AccountsRejected ==
    ASSUME Accounts!AccountsAssumption, AccountsInv, NEW r \in Requests, Accounts!Rejected(r)
    PROVE  AccountsInv'
  <1>1. CatalogTyped'
    BY DEF Accounts!Rejected, Accounts!Idle, Accounts!Done, Accounts!NoRequest,
           Accounts!catalog, Accounts!secrets, Accounts!links, Accounts!oauth, AccountsInv,
           CatalogTyped, Memberships, Accounts!NoMember, UserRows, Accounts!NoSession,
           Accounts!NoLink, Accounts!AdminMember, Accounts!Enabled
  <1>2. SecretsTyped'
    BY DEF Accounts!Rejected, Accounts!Idle, Accounts!Done, Accounts!NoRequest,
           Accounts!catalog, Accounts!secrets, Accounts!links, Accounts!oauth, AccountsInv,
           SecretsTyped, Accounts!NoMember, Accounts!NoSession, Accounts!NoLink,
           Accounts!AdminMember, Accounts!Enabled
  <1>3. SessionsTyped'
    BY DEF Accounts!Rejected, Accounts!Idle, Accounts!Done, Accounts!NoRequest,
           Accounts!catalog, Accounts!secrets, Accounts!links, Accounts!oauth, AccountsInv,
           SessionsTyped, Seats, Accounts!NoSession, Accounts!NoLink, Accounts!NoMember,
           RequestsTyped, Principals, Logins, Switches, Setups, Changes, Accounts!AdminMember,
           Accounts!Enabled
  <1>4. OAuthTyped'
    BY DEF Accounts!Rejected, Accounts!Idle, Accounts!Done, Accounts!NoRequest,
           Accounts!catalog, Accounts!secrets, Accounts!links, Accounts!oauth, AccountsInv,
           OAuthTyped, Modes, Accounts!NoMember, Accounts!NoSession, Accounts!NoLink,
           Accounts!AdminMember, Accounts!Enabled
  <1>5. RequestsTyped'
    BY DEF Accounts!Rejected, Accounts!Idle, Accounts!Done, Accounts!NoRequest,
           Accounts!catalog, Accounts!secrets, Accounts!links, Accounts!oauth, AccountsInv,
           RequestsTyped, Principals, Logins, Switches, Setups, Changes, Accounts!NoMember,
           Accounts!NoSession, Accounts!NoLink, Accounts!AdminMember, Accounts!Enabled
  <1>6. AdminIsIn'
    BY DEF Accounts!Rejected, Accounts!Idle, Accounts!Done, Accounts!NoRequest,
           Accounts!catalog, Accounts!secrets, Accounts!links, Accounts!oauth, AccountsInv,
           AdminIsIn, Accounts!AdminMember, CatalogTyped, Memberships, Accounts!NoMember,
           UserRows, Accounts!NoSession, Accounts!NoLink, Accounts!Enabled
  <1>7. LinksAreFresh'
    BY DEF Accounts!Rejected, Accounts!Idle, Accounts!Done, Accounts!NoRequest,
           Accounts!catalog, Accounts!secrets, Accounts!links, Accounts!oauth, AccountsInv,
           LinksAreFresh, Accounts!NoLink, Accounts!NoMember, SessionsTyped, Seats,
           Accounts!NoSession, Accounts!AdminMember, Accounts!Enabled
  <1>8. PasswordsAreSet'
    BY DEF Accounts!Rejected, Accounts!Idle, Accounts!Done, Accounts!NoRequest,
           Accounts!catalog, Accounts!secrets, Accounts!links, Accounts!oauth, AccountsInv,
           PasswordsAreSet, CatalogTyped, Memberships, Accounts!NoMember, UserRows,
           SecretsTyped, Accounts!NoSession, Accounts!NoLink, Accounts!AdminMember,
           Accounts!Enabled
  <1>9. Accounts!DefaultIsReachable'
    BY DEF Accounts!Rejected, Accounts!Idle, Accounts!Done, Accounts!NoRequest,
           Accounts!catalog, Accounts!secrets, Accounts!links, Accounts!oauth, AccountsInv,
           Accounts!DefaultIsReachable, Accounts!Enabled, CatalogTyped, Memberships,
           Accounts!NoMember, UserRows, Accounts!NoSession, Accounts!NoLink,
           Accounts!AdminMember
  <1>10. Accounts!OAuthCanBeLeft'
    BY DEF Accounts!Rejected, Accounts!Idle, Accounts!Done, Accounts!NoRequest,
           Accounts!catalog, Accounts!secrets, Accounts!links, Accounts!oauth, AccountsInv,
           Accounts!OAuthCanBeLeft, Accounts!NoMember, Accounts!NoSession, Accounts!NoLink,
           OAuthTyped, Modes, Accounts!AdminMember, Accounts!Enabled
  <1>11. QED
    BY <1>1, <1>2, <1>3, <1>4, <1>5, <1>6, <1>7, <1>8, <1>9, <1>10 DEF AccountsInv

LEMMA AccountsSwitchUpdates ==
    ASSUME Accounts!AccountsAssumption, AccountsInv, NEW r \in Requests,
           Accounts!SwitchUpdates(r)
    PROVE  AccountsInv'
  <1>1. CatalogTyped'
    BY DEF Accounts!SwitchUpdates, Accounts!Done, Accounts!NoRequest, Accounts!catalog,
           Accounts!secrets, Accounts!links, Accounts!oauth, AccountsInv, CatalogTyped,
           Memberships, Accounts!NoMember, UserRows, Accounts!NoSession, Accounts!NoLink,
           Accounts!AdminMember, Accounts!Enabled
  <1>2. SecretsTyped'
    BY DEF Accounts!SwitchUpdates, Accounts!Done, Accounts!NoRequest, Accounts!catalog,
           Accounts!secrets, Accounts!links, Accounts!oauth, AccountsInv, SecretsTyped,
           Accounts!NoMember, Accounts!NoSession, Accounts!NoLink, Accounts!AdminMember,
           Accounts!Enabled
  <1>3. SessionsTyped'
    BY DEF Accounts!SwitchUpdates, Accounts!Done, Accounts!NoRequest, Accounts!catalog,
           Accounts!secrets, Accounts!links, Accounts!oauth, AccountsInv, SessionsTyped, Seats,
           Accounts!NoSession, Accounts!NoLink, Accounts!NoMember, RequestsTyped, Principals,
           Logins, Switches, Setups, Changes, Accounts!AdminMember, Accounts!Enabled
  <1>4. OAuthTyped'
    BY DEF Accounts!SwitchUpdates, Accounts!Done, Accounts!NoRequest, Accounts!catalog,
           Accounts!secrets, Accounts!links, Accounts!oauth, AccountsInv, OAuthTyped, Modes,
           Accounts!NoMember, Accounts!NoSession, Accounts!NoLink, Accounts!AdminMember,
           Accounts!Enabled
  <1>5. RequestsTyped'
    BY DEF Accounts!SwitchUpdates, Accounts!Done, Accounts!NoRequest, Accounts!catalog,
           Accounts!secrets, Accounts!links, Accounts!oauth, AccountsInv, RequestsTyped,
           Principals, Logins, Switches, Setups, Changes, Accounts!NoMember, Accounts!NoSession,
           Accounts!NoLink, Accounts!AdminMember, Accounts!Enabled
  <1>6. AdminIsIn'
    BY DEF Accounts!SwitchUpdates, Accounts!Done, Accounts!NoRequest, Accounts!catalog,
           Accounts!secrets, Accounts!links, Accounts!oauth, AccountsInv, AdminIsIn,
           Accounts!AdminMember, CatalogTyped, Memberships, Accounts!NoMember, UserRows,
           Accounts!NoSession, Accounts!NoLink, Accounts!Enabled
  <1>7. LinksAreFresh'
    BY DEF Accounts!SwitchUpdates, Accounts!Done, Accounts!NoRequest, Accounts!catalog,
           Accounts!secrets, Accounts!links, Accounts!oauth, AccountsInv, LinksAreFresh,
           Accounts!NoLink, Accounts!NoMember, SessionsTyped, Seats, Accounts!NoSession,
           Accounts!AdminMember, Accounts!Enabled
  <1>8. PasswordsAreSet'
    BY DEF Accounts!SwitchUpdates, Accounts!Done, Accounts!NoRequest, Accounts!catalog,
           Accounts!secrets, Accounts!links, Accounts!oauth, AccountsInv, PasswordsAreSet,
           CatalogTyped, Memberships, Accounts!NoMember, UserRows, SecretsTyped,
           Accounts!NoSession, Accounts!NoLink, Accounts!AdminMember, Accounts!Enabled
  <1>9. Accounts!DefaultIsReachable'
    BY DEF Accounts!SwitchUpdates, Accounts!Done, Accounts!NoRequest, Accounts!catalog,
           Accounts!secrets, Accounts!links, Accounts!oauth, AccountsInv,
           Accounts!DefaultIsReachable, Accounts!Enabled, CatalogTyped, Memberships,
           Accounts!NoMember, UserRows, Accounts!NoSession, Accounts!NoLink,
           Accounts!AdminMember
  <1>10. Accounts!OAuthCanBeLeft'
    BY DEF Accounts!SwitchUpdates, Accounts!Done, Accounts!NoRequest, Accounts!catalog,
           Accounts!secrets, Accounts!links, Accounts!oauth, AccountsInv,
           Accounts!OAuthCanBeLeft, Accounts!NoMember, Accounts!NoSession, Accounts!NoLink,
           OAuthTyped, Modes, Accounts!AdminMember, Accounts!Enabled
  <1>11. QED
    BY <1>1, <1>2, <1>3, <1>4, <1>5, <1>6, <1>7, <1>8, <1>9, <1>10 DEF AccountsInv

LEMMA AccountsRevokeSession ==
    ASSUME Accounts!AccountsAssumption, AccountsInv, NEW r \in Requests,
           Accounts!RevokeSession(r)
    PROVE  AccountsInv'
  <1>1. CatalogTyped'
    BY DEF Accounts!RevokeSession, Accounts!WithPrincipal, Accounts!NoSession, Accounts!Done,
           Accounts!NoRequest, Accounts!catalog, Accounts!secrets, Accounts!links,
           Accounts!oauth, AccountsInv, CatalogTyped, Memberships, Accounts!NoMember, UserRows,
           Accounts!NoLink, Accounts!AdminMember, Accounts!Enabled
  <1>2. SecretsTyped'
    BY DEF Accounts!RevokeSession, Accounts!WithPrincipal, Accounts!NoSession, Accounts!Done,
           Accounts!NoRequest, Accounts!catalog, Accounts!secrets, Accounts!links,
           Accounts!oauth, AccountsInv, SecretsTyped, Accounts!NoMember, Accounts!NoLink,
           Accounts!AdminMember, Accounts!Enabled
  <1>3. SessionsTyped'
    BY DEF Accounts!RevokeSession, Accounts!WithPrincipal, Accounts!NoSession, Accounts!Done,
           Accounts!NoRequest, Accounts!catalog, Accounts!secrets, Accounts!links,
           Accounts!oauth, AccountsInv, SessionsTyped, Seats, Accounts!NoLink,
           Accounts!NoMember, RequestsTyped, Principals, Logins, Switches, Setups, Changes,
           Accounts!AdminMember, Accounts!Enabled
  <1>4. OAuthTyped'
    BY DEF Accounts!RevokeSession, Accounts!WithPrincipal, Accounts!NoSession, Accounts!Done,
           Accounts!NoRequest, Accounts!catalog, Accounts!secrets, Accounts!links,
           Accounts!oauth, AccountsInv, OAuthTyped, Modes, Accounts!NoMember, Accounts!NoLink,
           Accounts!AdminMember, Accounts!Enabled
  <1>5. RequestsTyped'
    BY DEF Accounts!RevokeSession, Accounts!WithPrincipal, Accounts!NoSession, Accounts!Done,
           Accounts!NoRequest, Accounts!catalog, Accounts!secrets, Accounts!links,
           Accounts!oauth, AccountsInv, RequestsTyped, Principals, Logins, Switches, Setups,
           Changes, Accounts!NoMember, Accounts!NoLink, Accounts!AdminMember, Accounts!Enabled
  <1>6. AdminIsIn'
    BY DEF Accounts!RevokeSession, Accounts!WithPrincipal, Accounts!NoSession, Accounts!Done,
           Accounts!NoRequest, Accounts!catalog, Accounts!secrets, Accounts!links,
           Accounts!oauth, AccountsInv, AdminIsIn, Accounts!AdminMember, CatalogTyped,
           Memberships, Accounts!NoMember, UserRows, Accounts!NoLink, Accounts!Enabled
  <1>7. LinksAreFresh'
    BY DEF Accounts!RevokeSession, Accounts!WithPrincipal, Accounts!NoSession, Accounts!Done,
           Accounts!NoRequest, Accounts!catalog, Accounts!secrets, Accounts!links,
           Accounts!oauth, AccountsInv, LinksAreFresh, Accounts!NoLink, Accounts!NoMember,
           SessionsTyped, Seats, Accounts!AdminMember, Accounts!Enabled
  <1>8. PasswordsAreSet'
    BY DEF Accounts!RevokeSession, Accounts!WithPrincipal, Accounts!NoSession, Accounts!Done,
           Accounts!NoRequest, Accounts!catalog, Accounts!secrets, Accounts!links,
           Accounts!oauth, AccountsInv, PasswordsAreSet, CatalogTyped, Memberships,
           Accounts!NoMember, UserRows, SecretsTyped, Accounts!NoLink, Accounts!AdminMember,
           Accounts!Enabled
  <1>9. Accounts!DefaultIsReachable'
    BY DEF Accounts!RevokeSession, Accounts!WithPrincipal, Accounts!NoSession, Accounts!Done,
           Accounts!NoRequest, Accounts!catalog, Accounts!secrets, Accounts!links,
           Accounts!oauth, AccountsInv, Accounts!DefaultIsReachable, Accounts!Enabled,
           CatalogTyped, Memberships, Accounts!NoMember, UserRows, Accounts!NoLink,
           Accounts!AdminMember
  <1>10. Accounts!OAuthCanBeLeft'
    BY DEF Accounts!RevokeSession, Accounts!WithPrincipal, Accounts!NoSession, Accounts!Done,
           Accounts!NoRequest, Accounts!catalog, Accounts!secrets, Accounts!links,
           Accounts!oauth, AccountsInv, Accounts!OAuthCanBeLeft, Accounts!NoMember,
           Accounts!NoLink, OAuthTyped, Modes, Accounts!AdminMember, Accounts!Enabled
  <1>11. QED
    BY <1>1, <1>2, <1>3, <1>4, <1>5, <1>6, <1>7, <1>8, <1>9, <1>10 DEF AccountsInv

LEMMA AccountsChangeReads ==
    ASSUME Accounts!AccountsAssumption, AccountsInv, NEW r \in Requests, Accounts!ChangeReads(r)
    PROVE  AccountsInv'
  <1>1. CatalogTyped'
    BY DEF Accounts!ChangeReads, Accounts!WithPrincipal, Accounts!catalog, Accounts!secrets,
           Accounts!links, Accounts!oauth, AccountsInv, CatalogTyped, Memberships,
           Accounts!NoMember, UserRows, Accounts!NoSession, Accounts!NoLink, Accounts!NoRequest,
           Accounts!AdminMember, Accounts!Enabled
  <1>2. SecretsTyped'
    BY DEF Accounts!ChangeReads, Accounts!WithPrincipal, Accounts!catalog, Accounts!secrets,
           Accounts!links, Accounts!oauth, AccountsInv, SecretsTyped, Accounts!NoMember,
           Accounts!NoSession, Accounts!NoLink, Accounts!NoRequest, Accounts!AdminMember,
           Accounts!Enabled
  <1>3. SessionsTyped'
    BY DEF Accounts!ChangeReads, Accounts!WithPrincipal, Accounts!catalog, Accounts!secrets,
           Accounts!links, Accounts!oauth, AccountsInv, SessionsTyped, Seats,
           Accounts!NoSession, Accounts!NoLink, Accounts!NoMember, RequestsTyped,
           Accounts!NoRequest, Principals, Logins, Switches, Setups, Changes,
           Accounts!AdminMember, Accounts!Enabled
  <1>4. OAuthTyped'
    BY DEF Accounts!ChangeReads, Accounts!WithPrincipal, Accounts!catalog, Accounts!secrets,
           Accounts!links, Accounts!oauth, AccountsInv, OAuthTyped, Modes, Accounts!NoMember,
           Accounts!NoSession, Accounts!NoLink, Accounts!NoRequest, Accounts!AdminMember,
           Accounts!Enabled
  <1>5. RequestsTyped'
    <2>1. request[r].session \in Sessions /\ request[r].user \in People
      BY RequestsAre DEF Principals, Accounts!ChangeReads, Accounts!WithPrincipal
    <2>2. credential[request[r].user] \in Nat
      BY <2>1 DEF AccountsInv, SecretsTyped
    <2>3. PICK q \in Changes : q = [op |-> "change", session |-> request[r].session,
                                    user |-> request[r].user, read |-> credential[request[r].user]]
      BY <2>1, <2>2 DEF Changes
    <2>4. request' = [request EXCEPT ![r] = q]
      BY <2>3 DEF Accounts!ChangeReads
    <2>5. QED
      BY <2>4 DEF AccountsInv, RequestsTyped, Accounts!NoRequest
  <1>6. AdminIsIn'
    BY DEF Accounts!ChangeReads, Accounts!WithPrincipal, Accounts!catalog, Accounts!secrets,
           Accounts!links, Accounts!oauth, AccountsInv, AdminIsIn, Accounts!AdminMember,
           CatalogTyped, Memberships, Accounts!NoMember, UserRows, Accounts!NoSession,
           Accounts!NoLink, Accounts!NoRequest, Accounts!Enabled
  <1>7. LinksAreFresh'
    BY DEF Accounts!ChangeReads, Accounts!WithPrincipal, Accounts!catalog, Accounts!secrets,
           Accounts!links, Accounts!oauth, AccountsInv, LinksAreFresh, Accounts!NoLink,
           Accounts!NoMember, SessionsTyped, Seats, Accounts!NoSession, Accounts!NoRequest,
           Accounts!AdminMember, Accounts!Enabled
  <1>8. PasswordsAreSet'
    BY DEF Accounts!ChangeReads, Accounts!WithPrincipal, Accounts!catalog, Accounts!secrets,
           Accounts!links, Accounts!oauth, AccountsInv, PasswordsAreSet, CatalogTyped,
           Memberships, Accounts!NoMember, UserRows, SecretsTyped, Accounts!NoSession,
           Accounts!NoLink, Accounts!NoRequest, Accounts!AdminMember, Accounts!Enabled
  <1>9. Accounts!DefaultIsReachable'
    BY DEF Accounts!ChangeReads, Accounts!WithPrincipal, Accounts!catalog, Accounts!secrets,
           Accounts!links, Accounts!oauth, AccountsInv, Accounts!DefaultIsReachable,
           Accounts!Enabled, CatalogTyped, Memberships, Accounts!NoMember, UserRows,
           Accounts!NoSession, Accounts!NoLink, Accounts!NoRequest, Accounts!AdminMember
  <1>10. Accounts!OAuthCanBeLeft'
    BY DEF Accounts!ChangeReads, Accounts!WithPrincipal, Accounts!catalog, Accounts!secrets,
           Accounts!links, Accounts!oauth, AccountsInv, Accounts!OAuthCanBeLeft,
           Accounts!NoMember, Accounts!NoSession, Accounts!NoLink, OAuthTyped, Modes,
           Accounts!NoRequest, Accounts!AdminMember, Accounts!Enabled
  <1>11. QED
    BY <1>1, <1>2, <1>3, <1>4, <1>5, <1>6, <1>7, <1>8, <1>9, <1>10 DEF AccountsInv

LEMMA AccountsChangeUpdates ==
    ASSUME Accounts!AccountsAssumption, AccountsInv, NEW r \in Requests,
           Accounts!ChangeUpdates(r)
    PROVE  AccountsInv'
  <1>1. CatalogTyped'
    BY DEF Accounts!ChangeUpdates, Accounts!NoSession, Accounts!Done, Accounts!NoRequest,
           Accounts!catalog, Accounts!links, Accounts!oauth, AccountsInv, CatalogTyped,
           Memberships, Accounts!NoMember, UserRows, Accounts!NoLink, Accounts!AdminMember,
           Accounts!Enabled
  <1>2. SecretsTyped'
    <2>1. request[r].user \in People
      BY RequestsAre DEF Accounts!ChangeUpdates
    <2>2. QED
      BY <2>1 DEF AccountsInv, SecretsTyped, Accounts!ChangeUpdates, Accounts!AccountsAssumption
  <1>3. SessionsTyped'
    BY DEF Accounts!ChangeUpdates, Accounts!NoSession, Accounts!Done, Accounts!NoRequest,
           Accounts!catalog, Accounts!links, Accounts!oauth, AccountsInv, SessionsTyped, Seats,
           Accounts!NoLink, Accounts!NoMember, RequestsTyped, Principals, Logins, Switches,
           Setups, Changes, Accounts!AdminMember, Accounts!Enabled
  <1>4. OAuthTyped'
    BY DEF Accounts!ChangeUpdates, Accounts!NoSession, Accounts!Done, Accounts!NoRequest,
           Accounts!catalog, Accounts!links, Accounts!oauth, AccountsInv, OAuthTyped, Modes,
           Accounts!NoMember, Accounts!NoLink, Accounts!AdminMember, Accounts!Enabled
  <1>5. RequestsTyped'
    BY DEF Accounts!ChangeUpdates, Accounts!NoSession, Accounts!Done, Accounts!NoRequest,
           Accounts!catalog, Accounts!links, Accounts!oauth, AccountsInv, RequestsTyped,
           Principals, Logins, Switches, Setups, Changes, Accounts!NoMember, Accounts!NoLink,
           Accounts!AdminMember, Accounts!Enabled
  <1>6. AdminIsIn'
    BY DEF Accounts!ChangeUpdates, Accounts!NoSession, Accounts!Done, Accounts!NoRequest,
           Accounts!catalog, Accounts!links, Accounts!oauth, AccountsInv, AdminIsIn,
           Accounts!AdminMember, CatalogTyped, Memberships, Accounts!NoMember, UserRows,
           Accounts!NoLink, Accounts!Enabled
  <1>7. LinksAreFresh'
    BY DEF Accounts!ChangeUpdates, Accounts!NoSession, Accounts!Done, Accounts!NoRequest,
           Accounts!catalog, Accounts!links, Accounts!oauth, AccountsInv, LinksAreFresh,
           Accounts!NoLink, Accounts!NoMember, SessionsTyped, Seats, Accounts!AdminMember,
           Accounts!Enabled
  <1>8. PasswordsAreSet'
    BY DEF Accounts!ChangeUpdates, Accounts!NoSession, Accounts!Done, Accounts!NoRequest,
           Accounts!catalog, Accounts!links, Accounts!oauth, AccountsInv, PasswordsAreSet,
           CatalogTyped, Memberships, Accounts!NoMember, UserRows, SecretsTyped,
           Accounts!NoLink, Accounts!AdminMember, Accounts!Enabled
  <1>9. Accounts!DefaultIsReachable'
    BY DEF Accounts!ChangeUpdates, Accounts!NoSession, Accounts!Done, Accounts!NoRequest,
           Accounts!catalog, Accounts!links, Accounts!oauth, AccountsInv,
           Accounts!DefaultIsReachable, Accounts!Enabled, CatalogTyped, Memberships,
           Accounts!NoMember, UserRows, Accounts!NoLink, Accounts!AdminMember
  <1>10. Accounts!OAuthCanBeLeft'
    BY DEF Accounts!ChangeUpdates, Accounts!NoSession, Accounts!Done, Accounts!NoRequest,
           Accounts!catalog, Accounts!links, Accounts!oauth, AccountsInv,
           Accounts!OAuthCanBeLeft, Accounts!NoMember, Accounts!NoLink, OAuthTyped, Modes,
           Accounts!AdminMember, Accounts!Enabled
  <1>11. QED
    BY <1>1, <1>2, <1>3, <1>4, <1>5, <1>6, <1>7, <1>8, <1>9, <1>10 DEF AccountsInv

LEMMA AccountsActivate ==
    ASSUME Accounts!AccountsAssumption, AccountsInv, NEW r \in Requests, Accounts!Activate(r)
    PROVE  AccountsInv'
  <1>1. CatalogTyped'
    BY DEF Accounts!Activate, Accounts!Current, Accounts!Global, Accounts!WithPrincipal,
           Accounts!LinkedAdministrator, Accounts!Enabled, Accounts!Bumped, Accounts!NoSession,
           Accounts!Done, Accounts!NoRequest, Accounts!catalog, Accounts!secrets,
           Accounts!links, AccountsInv, CatalogTyped, Memberships, Accounts!NoMember, UserRows,
           Accounts!NoLink, Accounts!AdminMember
  <1>2. SecretsTyped'
    BY DEF Accounts!Activate, Accounts!Current, Accounts!Global, Accounts!WithPrincipal,
           Accounts!LinkedAdministrator, Accounts!Enabled, Accounts!Bumped, Accounts!NoSession,
           Accounts!Done, Accounts!NoRequest, Accounts!catalog, Accounts!secrets,
           Accounts!links, AccountsInv, SecretsTyped, Accounts!NoMember, Accounts!NoLink,
           Accounts!AdminMember
  <1>3. SessionsTyped'
    BY DEF Accounts!Activate, Accounts!Current, Accounts!Global, Accounts!WithPrincipal,
           Accounts!LinkedAdministrator, Accounts!Enabled, Accounts!Bumped, Accounts!NoSession,
           Accounts!Done, Accounts!NoRequest, Accounts!catalog, Accounts!secrets,
           Accounts!links, AccountsInv, SessionsTyped, Seats, Accounts!NoLink,
           Accounts!NoMember, RequestsTyped, Principals, Logins, Switches, Setups, Changes,
           Accounts!AdminMember
  <1>4. OAuthTyped'
    <2>1. PICK b \in Modes : b = Accounts!Bumped
      BY BumpedIs DEF Accounts!Activate, Accounts!Current
    <2>2. PICK c \in Configurations : c = settings.staged
      BY DEF AccountsInv, OAuthTyped, Modes, Accounts!Activate
    <2>3. /\ [b EXCEPT !.mode = "oauth", !.active = c, !.staged = None] \in Modes
          /\ [b EXCEPT !.mode = "oauth", !.active = c, !.staged = None].mode = "oauth"
          /\ [b EXCEPT !.mode = "oauth", !.active = c, !.staged = None].active = c
      BY DEF Modes
    <2>4. settings' = [b EXCEPT !.mode = "oauth", !.active = c, !.staged = None] /\ identity' = identity
      BY <2>1, <2>2, <2>3 DEF Accounts!Activate
    <2>5. c # None
      BY <2>2 DEF Accounts!AccountsAssumption
    <2>6. QED
      BY <2>3, <2>4, <2>5 DEF AccountsInv, OAuthTyped
  <1>5. RequestsTyped'
    BY DEF Accounts!Activate, Accounts!Current, Accounts!Global, Accounts!WithPrincipal,
           Accounts!LinkedAdministrator, Accounts!Enabled, Accounts!Bumped, Accounts!NoSession,
           Accounts!Done, Accounts!NoRequest, Accounts!catalog, Accounts!secrets,
           Accounts!links, AccountsInv, RequestsTyped, Principals, Logins, Switches, Setups,
           Changes, Accounts!NoMember, Accounts!NoLink, Accounts!AdminMember
  <1>6. AdminIsIn'
    BY DEF Accounts!Activate, Accounts!Current, Accounts!Global, Accounts!WithPrincipal,
           Accounts!LinkedAdministrator, Accounts!Enabled, Accounts!Bumped, Accounts!NoSession,
           Accounts!Done, Accounts!NoRequest, Accounts!catalog, Accounts!secrets,
           Accounts!links, AccountsInv, AdminIsIn, Accounts!AdminMember, CatalogTyped,
           Memberships, Accounts!NoMember, UserRows, Accounts!NoLink
  <1>7. LinksAreFresh'
    BY DEF Accounts!Activate, Accounts!Current, Accounts!Global, Accounts!WithPrincipal,
           Accounts!LinkedAdministrator, Accounts!Enabled, Accounts!Bumped, Accounts!NoSession,
           Accounts!Done, Accounts!NoRequest, Accounts!catalog, Accounts!secrets,
           Accounts!links, AccountsInv, LinksAreFresh, Accounts!NoLink, Accounts!NoMember,
           SessionsTyped, Seats, Accounts!AdminMember
  <1>8. PasswordsAreSet'
    BY DEF Accounts!Activate, Accounts!Current, Accounts!Global, Accounts!WithPrincipal,
           Accounts!LinkedAdministrator, Accounts!Enabled, Accounts!Bumped, Accounts!NoSession,
           Accounts!Done, Accounts!NoRequest, Accounts!catalog, Accounts!secrets,
           Accounts!links, AccountsInv, PasswordsAreSet, CatalogTyped, Memberships,
           Accounts!NoMember, UserRows, SecretsTyped, Accounts!NoLink, Accounts!AdminMember
  <1>9. Accounts!DefaultIsReachable'
    BY DEF Accounts!Activate, Accounts!Current, Accounts!Global, Accounts!WithPrincipal,
           Accounts!LinkedAdministrator, Accounts!Enabled, Accounts!Bumped, Accounts!NoSession,
           Accounts!Done, Accounts!NoRequest, Accounts!catalog, Accounts!secrets,
           Accounts!links, AccountsInv, Accounts!DefaultIsReachable, CatalogTyped, Memberships,
           Accounts!NoMember, UserRows, Accounts!NoLink, Accounts!AdminMember
  <1>10. Accounts!OAuthCanBeLeft'
    BY DEF Accounts!Activate, Accounts!Current, Accounts!Global, Accounts!WithPrincipal,
           Accounts!LinkedAdministrator, Accounts!Enabled, Accounts!Bumped, Accounts!NoSession,
           Accounts!Done, Accounts!NoRequest, Accounts!catalog, Accounts!secrets,
           Accounts!links, AccountsInv, Accounts!OAuthCanBeLeft, Accounts!NoMember,
           Accounts!NoLink, OAuthTyped, Modes, Accounts!AdminMember
  <1>11. QED
    BY <1>1, <1>2, <1>3, <1>4, <1>5, <1>6, <1>7, <1>8, <1>9, <1>10 DEF AccountsInv

LEMMA AccountsDisable ==
    ASSUME Accounts!AccountsAssumption, AccountsInv, NEW r \in Requests, Accounts!Disable(r)
    PROVE  AccountsInv'
  <1>1. CatalogTyped'
    BY DEF Accounts!Disable, Accounts!Current, Accounts!Global, Accounts!WithPrincipal,
           Accounts!ToLocal, Accounts!Bumped, Accounts!NoSession, Accounts!Done,
           Accounts!NoRequest, Accounts!catalog, Accounts!secrets, Accounts!links, AccountsInv,
           CatalogTyped, Memberships, Accounts!NoMember, UserRows, Accounts!NoLink,
           Accounts!AdminMember, Accounts!Enabled
  <1>2. SecretsTyped'
    BY DEF Accounts!Disable, Accounts!Current, Accounts!Global, Accounts!WithPrincipal,
           Accounts!ToLocal, Accounts!Bumped, Accounts!NoSession, Accounts!Done,
           Accounts!NoRequest, Accounts!catalog, Accounts!secrets, Accounts!links, AccountsInv,
           SecretsTyped, Accounts!NoMember, Accounts!NoLink, Accounts!AdminMember,
           Accounts!Enabled
  <1>3. SessionsTyped'
    BY DEF Accounts!Disable, Accounts!Current, Accounts!Global, Accounts!WithPrincipal,
           Accounts!ToLocal, Accounts!Bumped, Accounts!NoSession, Accounts!Done,
           Accounts!NoRequest, Accounts!catalog, Accounts!secrets, Accounts!links, AccountsInv,
           SessionsTyped, Seats, Accounts!NoLink, Accounts!NoMember, RequestsTyped, Principals,
           Logins, Switches, Setups, Changes, Accounts!AdminMember, Accounts!Enabled
  <1>4. OAuthTyped'
    <2>1. settings' = Accounts!ToLocal /\ identity' = identity
      BY DEF Accounts!Disable
    <2>2. /\ Accounts!ToLocal \in Modes
          /\ Accounts!ToLocal.mode = "local" /\ Accounts!ToLocal.active = None
      BY ToLocalIs DEF Accounts!Disable, Accounts!Current
    <2>3. QED
      BY <2>1, <2>2 DEF AccountsInv, OAuthTyped
  <1>5. RequestsTyped'
    BY DEF Accounts!Disable, Accounts!Current, Accounts!Global, Accounts!WithPrincipal,
           Accounts!ToLocal, Accounts!Bumped, Accounts!NoSession, Accounts!Done,
           Accounts!NoRequest, Accounts!catalog, Accounts!secrets, Accounts!links, AccountsInv,
           RequestsTyped, Principals, Logins, Switches, Setups, Changes, Accounts!NoMember,
           Accounts!NoLink, Accounts!AdminMember, Accounts!Enabled
  <1>6. AdminIsIn'
    BY DEF Accounts!Disable, Accounts!Current, Accounts!Global, Accounts!WithPrincipal,
           Accounts!ToLocal, Accounts!Bumped, Accounts!NoSession, Accounts!Done,
           Accounts!NoRequest, Accounts!catalog, Accounts!secrets, Accounts!links, AccountsInv,
           AdminIsIn, Accounts!AdminMember, CatalogTyped, Memberships, Accounts!NoMember,
           UserRows, Accounts!NoLink, Accounts!Enabled
  <1>7. LinksAreFresh'
    BY DEF Accounts!Disable, Accounts!Current, Accounts!Global, Accounts!WithPrincipal,
           Accounts!ToLocal, Accounts!Bumped, Accounts!NoSession, Accounts!Done,
           Accounts!NoRequest, Accounts!catalog, Accounts!secrets, Accounts!links, AccountsInv,
           LinksAreFresh, Accounts!NoLink, Accounts!NoMember, SessionsTyped, Seats,
           Accounts!AdminMember, Accounts!Enabled
  <1>8. PasswordsAreSet'
    BY DEF Accounts!Disable, Accounts!Current, Accounts!Global, Accounts!WithPrincipal,
           Accounts!ToLocal, Accounts!Bumped, Accounts!NoSession, Accounts!Done,
           Accounts!NoRequest, Accounts!catalog, Accounts!secrets, Accounts!links, AccountsInv,
           PasswordsAreSet, CatalogTyped, Memberships, Accounts!NoMember, UserRows,
           SecretsTyped, Accounts!NoLink, Accounts!AdminMember, Accounts!Enabled
  <1>9. Accounts!DefaultIsReachable'
    BY DEF Accounts!Disable, Accounts!Current, Accounts!Global, Accounts!WithPrincipal,
           Accounts!ToLocal, Accounts!Bumped, Accounts!NoSession, Accounts!Done,
           Accounts!NoRequest, Accounts!catalog, Accounts!secrets, Accounts!links, AccountsInv,
           Accounts!DefaultIsReachable, Accounts!Enabled, CatalogTyped, Memberships,
           Accounts!NoMember, UserRows, Accounts!NoLink, Accounts!AdminMember
  <1>10. Accounts!OAuthCanBeLeft'
    BY DEF Accounts!Disable, Accounts!Current, Accounts!Global, Accounts!WithPrincipal,
           Accounts!ToLocal, Accounts!Bumped, Accounts!NoSession, Accounts!Done,
           Accounts!NoRequest, Accounts!catalog, Accounts!secrets, Accounts!links, AccountsInv,
           Accounts!OAuthCanBeLeft, Accounts!NoMember, Accounts!NoLink, OAuthTyped, Modes,
           Accounts!AdminMember, Accounts!Enabled
  <1>11. QED
    BY <1>1, <1>2, <1>3, <1>4, <1>5, <1>6, <1>7, <1>8, <1>9, <1>10 DEF AccountsInv

LEMMA AccountsLoginInserts ==
    ASSUME Accounts!AccountsAssumption, AccountsInv, NEW r \in Requests, NEW s \in Sessions,
           Accounts!LoginInserts(r, s)
    PROVE  AccountsInv'
  <1>1. CatalogTyped'
    BY DEF Accounts!LoginInserts, Accounts!NoSession, Accounts!Done, Accounts!NoRequest,
           Accounts!catalog, Accounts!secrets, Accounts!links, Accounts!oauth, AccountsInv,
           CatalogTyped, Memberships, Accounts!NoMember, UserRows, Accounts!NoLink,
           Accounts!AdminMember, Accounts!Enabled
  <1>2. SecretsTyped'
    BY DEF Accounts!LoginInserts, Accounts!NoSession, Accounts!Done, Accounts!NoRequest,
           Accounts!catalog, Accounts!secrets, Accounts!links, Accounts!oauth, AccountsInv,
           SecretsTyped, Accounts!NoMember, Accounts!NoLink, Accounts!AdminMember,
           Accounts!Enabled
  <1>3. SessionsTyped'
    BY DEF Accounts!LoginInserts, Accounts!NoSession, Accounts!Done, Accounts!NoRequest,
           Accounts!catalog, Accounts!secrets, Accounts!links, Accounts!oauth, AccountsInv,
           SessionsTyped, Seats, Accounts!NoLink, Accounts!NoMember, RequestsTyped, Principals,
           Logins, Switches, Setups, Changes, Accounts!AdminMember, Accounts!Enabled
  <1>4. OAuthTyped'
    BY DEF Accounts!LoginInserts, Accounts!NoSession, Accounts!Done, Accounts!NoRequest,
           Accounts!catalog, Accounts!secrets, Accounts!links, Accounts!oauth, AccountsInv,
           OAuthTyped, Modes, Accounts!NoMember, Accounts!NoLink, Accounts!AdminMember,
           Accounts!Enabled
  <1>5. RequestsTyped'
    BY DEF Accounts!LoginInserts, Accounts!NoSession, Accounts!Done, Accounts!NoRequest,
           Accounts!catalog, Accounts!secrets, Accounts!links, Accounts!oauth, AccountsInv,
           RequestsTyped, Principals, Logins, Switches, Setups, Changes, Accounts!NoMember,
           Accounts!NoLink, Accounts!AdminMember, Accounts!Enabled
  <1>6. AdminIsIn'
    BY DEF Accounts!LoginInserts, Accounts!NoSession, Accounts!Done, Accounts!NoRequest,
           Accounts!catalog, Accounts!secrets, Accounts!links, Accounts!oauth, AccountsInv,
           AdminIsIn, Accounts!AdminMember, CatalogTyped, Memberships, Accounts!NoMember,
           UserRows, Accounts!NoLink, Accounts!Enabled
  <1>7. LinksAreFresh'
    BY DEF Accounts!LoginInserts, Accounts!NoSession, Accounts!Done, Accounts!NoRequest,
           Accounts!catalog, Accounts!secrets, Accounts!links, Accounts!oauth, AccountsInv,
           LinksAreFresh, Accounts!NoLink, Accounts!NoMember, SessionsTyped, Seats,
           Accounts!AdminMember, Accounts!Enabled
  <1>8. PasswordsAreSet'
    BY DEF Accounts!LoginInserts, Accounts!NoSession, Accounts!Done, Accounts!NoRequest,
           Accounts!catalog, Accounts!secrets, Accounts!links, Accounts!oauth, AccountsInv,
           PasswordsAreSet, CatalogTyped, Memberships, Accounts!NoMember, UserRows,
           SecretsTyped, Accounts!NoLink, Accounts!AdminMember, Accounts!Enabled
  <1>9. Accounts!DefaultIsReachable'
    BY DEF Accounts!LoginInserts, Accounts!NoSession, Accounts!Done, Accounts!NoRequest,
           Accounts!catalog, Accounts!secrets, Accounts!links, Accounts!oauth, AccountsInv,
           Accounts!DefaultIsReachable, Accounts!Enabled, CatalogTyped, Memberships,
           Accounts!NoMember, UserRows, Accounts!NoLink, Accounts!AdminMember
  <1>10. Accounts!OAuthCanBeLeft'
    BY DEF Accounts!LoginInserts, Accounts!NoSession, Accounts!Done, Accounts!NoRequest,
           Accounts!catalog, Accounts!secrets, Accounts!links, Accounts!oauth, AccountsInv,
           Accounts!OAuthCanBeLeft, Accounts!NoMember, Accounts!NoLink, OAuthTyped, Modes,
           Accounts!AdminMember, Accounts!Enabled
  <1>11. QED
    BY <1>1, <1>2, <1>3, <1>4, <1>5, <1>6, <1>7, <1>8, <1>9, <1>10 DEF AccountsInv

LEMMA AccountsReadSession ==
    ASSUME Accounts!AccountsAssumption, AccountsInv, NEW r \in Requests, NEW s \in Sessions,
           Accounts!ReadSession(r, s)
    PROVE  AccountsInv'
  <1>1. CatalogTyped'
    BY DEF Accounts!ReadSession, Accounts!Idle, Accounts!NoSession, Accounts!Enabled,
           Accounts!Principal, Accounts!catalog, Accounts!secrets, Accounts!links,
           Accounts!oauth, AccountsInv, CatalogTyped, Memberships, Accounts!NoMember, UserRows,
           Accounts!NoLink, Accounts!NoRequest, Accounts!AdminMember
  <1>2. SecretsTyped'
    BY DEF Accounts!ReadSession, Accounts!Idle, Accounts!NoSession, Accounts!Enabled,
           Accounts!Principal, Accounts!catalog, Accounts!secrets, Accounts!links,
           Accounts!oauth, AccountsInv, SecretsTyped, Accounts!NoMember, Accounts!NoLink,
           Accounts!NoRequest, Accounts!AdminMember
  <1>3. SessionsTyped'
    BY DEF Accounts!ReadSession, Accounts!Idle, Accounts!NoSession, Accounts!Enabled,
           Accounts!Principal, Accounts!catalog, Accounts!secrets, Accounts!links,
           Accounts!oauth, AccountsInv, SessionsTyped, Seats, Accounts!NoLink,
           Accounts!NoMember, RequestsTyped, Accounts!NoRequest, Principals, Logins, Switches,
           Setups, Changes, Accounts!AdminMember
  <1>4. OAuthTyped'
    BY DEF Accounts!ReadSession, Accounts!Idle, Accounts!NoSession, Accounts!Enabled,
           Accounts!Principal, Accounts!catalog, Accounts!secrets, Accounts!links,
           Accounts!oauth, AccountsInv, OAuthTyped, Modes, Accounts!NoMember, Accounts!NoLink,
           Accounts!NoRequest, Accounts!AdminMember
  <1>5. RequestsTyped'
    <2>1. session[s].user \in People /\ session[s].workspace \in Workspaces
      BY NothingIs DEF AccountsInv, SessionsTyped, Seats, Accounts!ReadSession
    <2>2. /\ member[session[s].user][session[s].workspace].role \in {"none", "admin", "member"}
          /\ settings.version \in 1 .. MaxVersion
      <3>1. \A x \in People, y \in Workspaces : member[x][y].role \in {"none", "admin", "member"}
        BY NothingIs DEF AccountsInv, CatalogTyped, Memberships
      <3>2. settings.version \in 1 .. MaxVersion
        BY DEF AccountsInv, OAuthTyped, Modes
      <3>3. QED
        BY <2>1, <3>1, <3>2
    <2>3. PICK q \in Principals : q = Accounts!Principal(s, session[s].user, session[s].workspace)
      BY <2>1, <2>2 DEF Principals, Accounts!Principal
    <2>4. request' = [request EXCEPT ![r] = q]
      BY <2>3 DEF Accounts!ReadSession
    <2>5. QED
      BY <2>4 DEF AccountsInv, RequestsTyped, Accounts!NoRequest
  <1>6. AdminIsIn'
    BY DEF Accounts!ReadSession, Accounts!Idle, Accounts!NoSession, Accounts!Enabled,
           Accounts!Principal, Accounts!catalog, Accounts!secrets, Accounts!links,
           Accounts!oauth, AccountsInv, AdminIsIn, Accounts!AdminMember, CatalogTyped,
           Memberships, Accounts!NoMember, UserRows, Accounts!NoLink, Accounts!NoRequest
  <1>7. LinksAreFresh'
    BY DEF Accounts!ReadSession, Accounts!Idle, Accounts!NoSession, Accounts!Enabled,
           Accounts!Principal, Accounts!catalog, Accounts!secrets, Accounts!links,
           Accounts!oauth, AccountsInv, LinksAreFresh, Accounts!NoLink, Accounts!NoMember,
           SessionsTyped, Seats, Accounts!NoRequest, Accounts!AdminMember
  <1>8. PasswordsAreSet'
    BY DEF Accounts!ReadSession, Accounts!Idle, Accounts!NoSession, Accounts!Enabled,
           Accounts!Principal, Accounts!catalog, Accounts!secrets, Accounts!links,
           Accounts!oauth, AccountsInv, PasswordsAreSet, CatalogTyped, Memberships,
           Accounts!NoMember, UserRows, SecretsTyped, Accounts!NoLink, Accounts!NoRequest,
           Accounts!AdminMember
  <1>9. Accounts!DefaultIsReachable'
    BY DEF Accounts!ReadSession, Accounts!Idle, Accounts!NoSession, Accounts!Enabled,
           Accounts!Principal, Accounts!catalog, Accounts!secrets, Accounts!links,
           Accounts!oauth, AccountsInv, Accounts!DefaultIsReachable, CatalogTyped, Memberships,
           Accounts!NoMember, UserRows, Accounts!NoLink, Accounts!NoRequest,
           Accounts!AdminMember
  <1>10. Accounts!OAuthCanBeLeft'
    BY DEF Accounts!ReadSession, Accounts!Idle, Accounts!NoSession, Accounts!Enabled,
           Accounts!Principal, Accounts!catalog, Accounts!secrets, Accounts!links,
           Accounts!oauth, AccountsInv, Accounts!OAuthCanBeLeft, Accounts!NoMember,
           Accounts!NoLink, OAuthTyped, Modes, Accounts!NoRequest, Accounts!AdminMember
  <1>11. QED
    BY <1>1, <1>2, <1>3, <1>4, <1>5, <1>6, <1>7, <1>8, <1>9, <1>10 DEF AccountsInv

LEMMA AccountsSetupCompletes ==
    ASSUME Accounts!AccountsAssumption, AccountsInv, NEW r \in Requests, NEW s \in Sessions,
           Accounts!SetupCompletes(r, s)
    PROVE  AccountsInv'
  <1>1. CatalogTyped'
    BY DEF Accounts!SetupCompletes, Accounts!NoLink, Accounts!Enabled, Accounts!Stored,
           Accounts!Unlinked, Accounts!NoSession, Accounts!Preferred, Accounts!Done,
           Accounts!NoRequest, Accounts!catalog, Accounts!oauth, AccountsInv, CatalogTyped,
           Memberships, Accounts!NoMember, UserRows, Accounts!AdminMember
  <1>2. SecretsTyped'
    <2> DEFINE k == request[r].link
               u == link[k].user
    <2>1. k \in Links /\ u \in People
      BY RequestsAre, NothingIs DEF AccountsInv, SessionsTyped, Seats, Accounts!SetupCompletes
    <2>2. /\ passwords' = passwords + 1 /\ passwords < MaxPasswords
          /\ credential' \in {credential, [credential EXCEPT ![u] = passwords + 1]}
          /\ chosen' = [chosen EXCEPT ![u] = passwords + 1]
      BY DEF Accounts!SetupCompletes, Accounts!Stored
    <2> HIDE DEF k, u
    <2>3. QED
      BY <2>1, <2>2 DEF AccountsInv, SecretsTyped, Accounts!AccountsAssumption
  <1>3. SessionsTyped'
    <2> DEFINE k == request[r].link
               u == link[k].user
    <2>1. k \in Links /\ u \in People
      BY RequestsAre, NothingIs DEF AccountsInv, SessionsTyped, Seats, Accounts!SetupCompletes
    <2>2. PICK w \in Workspaces :
            \E kept \in [Sessions -> Seats \cup {Accounts!NoSession}] :
                session' = [kept EXCEPT ![s] = [user |-> u, workspace |-> w]]
      <3> DEFINE kept == [t \in Sessions |-> IF user[u].state = "active" /\ session[t].user = u
                                             THEN Accounts!NoSession ELSE session[t]]
      <3>1. kept \in [Sessions -> Seats \cup {Accounts!NoSession}]
        BY DEF AccountsInv, SessionsTyped
      <3>2. \E w \in Workspaces : session' = [kept EXCEPT ![s] = [user |-> u, workspace |-> w]]
        BY DEF Accounts!SetupCompletes
      <3> HIDE DEF kept, k, u
      <3>3. QED
        BY <3>1, <3>2
    <2>3. link' = Accounts!Unlinked(u) /\ used' = [used EXCEPT ![k] = @ + 1] /\ used[k] = 0
      BY <2>1 DEF Accounts!SetupCompletes, AccountsInv, LinksAreFresh
    <2> HIDE DEF k, u
    <2>4. session' \in [Sessions -> Seats \cup {Accounts!NoSession}]
      BY <2>1, <2>2 DEF Seats
    <2>5. link' \in [Links -> Seats \cup {Accounts!NoLink}]
      BY <2>3 DEF AccountsInv, SessionsTyped, Accounts!Unlinked
    <2>6. used' \in [Links -> {0, 1}]
      BY <2>1, <2>3 DEF AccountsInv, SessionsTyped
    <2>7. QED
      BY <2>4, <2>5, <2>6 DEF SessionsTyped, Accounts!NoSession, Accounts!NoLink
  <1>4. OAuthTyped'
    BY DEF Accounts!SetupCompletes, Accounts!NoLink, Accounts!Enabled, Accounts!Stored,
           Accounts!Unlinked, Accounts!NoSession, Accounts!Preferred, Accounts!Done,
           Accounts!NoRequest, Accounts!catalog, Accounts!oauth, AccountsInv, OAuthTyped, Modes,
           Accounts!NoMember, Accounts!AdminMember
  <1>5. RequestsTyped'
    BY DEF Accounts!SetupCompletes, Accounts!NoLink, Accounts!Enabled, Accounts!Stored,
           Accounts!Unlinked, Accounts!NoSession, Accounts!Preferred, Accounts!Done,
           Accounts!NoRequest, Accounts!catalog, Accounts!oauth, AccountsInv, RequestsTyped,
           Principals, Logins, Switches, Setups, Changes, Accounts!NoMember,
           Accounts!AdminMember
  <1>6. AdminIsIn'
    <2> DEFINE k == request[r].link
               u == link[k].user
    <2>1. k \in Links /\ u \in People
      BY RequestsAre, NothingIs DEF AccountsInv, SessionsTyped, Seats, Accounts!SetupCompletes
    <2>2. user' = [user EXCEPT ![u].state = "active"] /\ workspace' = workspace /\ member' = member
      BY DEF Accounts!SetupCompletes, Accounts!catalog
    <2> HIDE DEF k, u
    <2>3. user'[Admin].state = "active"
      BY <2>1, <2>2 DEF AccountsInv, AdminIsIn, CatalogTyped, UserRows, Accounts!AccountsAssumption
    <2>4. QED
      BY <2>2, <2>3 DEF AccountsInv, AdminIsIn, Accounts!AdminMember
  <1>7. LinksAreFresh'
    BY DEF Accounts!SetupCompletes, Accounts!NoLink, Accounts!Enabled, Accounts!Stored,
           Accounts!Unlinked, Accounts!NoSession, Accounts!Preferred, Accounts!Done,
           Accounts!NoRequest, Accounts!catalog, Accounts!oauth, AccountsInv, LinksAreFresh,
           Accounts!NoMember, SessionsTyped, Seats, Accounts!AdminMember
  <1>8. PasswordsAreSet'
    <2> DEFINE k == request[r].link
               u == link[k].user
    <2>1. k \in Links /\ u \in People
      BY RequestsAre, NothingIs DEF AccountsInv, SessionsTyped, Seats, Accounts!SetupCompletes
    <2>2. /\ user' = [user EXCEPT ![u].state = "active"]
          /\ credential' = IF user[u].state = "active" /\ credential[u] = 0 THEN credential
                           ELSE [credential EXCEPT ![u] = passwords + 1]
          /\ chosen' = [chosen EXCEPT ![u] = passwords + 1]
      BY DEF Accounts!SetupCompletes, Accounts!Stored
    <2> HIDE DEF k, u
    <2> SUFFICES ASSUME Configurations = {}, NEW x \in People
                 PROVE  /\ user'[x].state = "active" => credential'[x] # 0
                        /\ credential'[x] = chosen'[x]
      BY DEF PasswordsAreSet
    <2>3. /\ user[x].state = "active" => credential[x] # 0
          /\ user[u].state = "active" => credential[u] # 0
          /\ credential[x] = chosen[x]
      BY <2>1 DEF AccountsInv, PasswordsAreSet
    <2>4. credential' = [credential EXCEPT ![u] = passwords + 1] /\ passwords \in Nat
      BY <2>2, <2>3 DEF AccountsInv, SecretsTyped, Accounts!AccountsAssumption
    <2>5. user \in [People -> UserRows] /\ credential \in [People -> Nat] /\ chosen \in [People -> Nat]
      BY DEF AccountsInv, CatalogTyped, SecretsTyped
    <2>6. CASE x = u
      BY <2>1, <2>2, <2>4, <2>5, <2>6
    <2>7. CASE x # u
      BY <2>2, <2>3, <2>4, <2>5, <2>7
    <2>8. QED
      BY <2>6, <2>7
  <1>9. Accounts!DefaultIsReachable'
    <2> DEFINE k == request[r].link
               u == link[k].user
    <2>1. k \in Links /\ u \in People
      BY RequestsAre, NothingIs DEF AccountsInv, SessionsTyped, Seats, Accounts!SetupCompletes
    <2>2. user' = [user EXCEPT ![u].state = "active"] /\ workspace' = workspace /\ member' = member
      BY DEF Accounts!SetupCompletes, Accounts!catalog
    <2> HIDE DEF k, u
    <2>3. \A x \in People : user'[x].default = user[x].default
      BY <2>1, <2>2 DEF AccountsInv, CatalogTyped, UserRows
    <2>4. QED
      BY <2>2, <2>3 DEF AccountsInv, Accounts!DefaultIsReachable, Accounts!Enabled
  <1>10. Accounts!OAuthCanBeLeft'
    BY DEF Accounts!SetupCompletes, Accounts!NoLink, Accounts!Enabled, Accounts!Stored,
           Accounts!Unlinked, Accounts!NoSession, Accounts!Preferred, Accounts!Done,
           Accounts!NoRequest, Accounts!catalog, Accounts!oauth, AccountsInv,
           Accounts!OAuthCanBeLeft, Accounts!NoMember, OAuthTyped, Modes, Accounts!AdminMember
  <1>11. QED
    BY <1>1, <1>2, <1>3, <1>4, <1>5, <1>6, <1>7, <1>8, <1>9, <1>10 DEF AccountsInv

LEMMA AccountsLoginReads ==
    ASSUME Accounts!AccountsAssumption, AccountsInv, NEW r \in Requests, NEW u \in People,
           Accounts!LoginReads(r, u)
    PROVE  AccountsInv'
  <1>1. CatalogTyped'
    BY DEF Accounts!LoginReads, Accounts!Idle, Accounts!Preferred, Accounts!Enabled,
           Accounts!catalog, Accounts!secrets, Accounts!links, Accounts!oauth, AccountsInv,
           CatalogTyped, Memberships, Accounts!NoMember, UserRows, Accounts!NoSession,
           Accounts!NoLink, Accounts!NoRequest, Accounts!AdminMember
  <1>2. SecretsTyped'
    BY DEF Accounts!LoginReads, Accounts!Idle, Accounts!Preferred, Accounts!Enabled,
           Accounts!catalog, Accounts!secrets, Accounts!links, Accounts!oauth, AccountsInv,
           SecretsTyped, Accounts!NoMember, Accounts!NoSession, Accounts!NoLink,
           Accounts!NoRequest, Accounts!AdminMember
  <1>3. SessionsTyped'
    BY DEF Accounts!LoginReads, Accounts!Idle, Accounts!Preferred, Accounts!Enabled,
           Accounts!catalog, Accounts!secrets, Accounts!links, Accounts!oauth, AccountsInv,
           SessionsTyped, Seats, Accounts!NoSession, Accounts!NoLink, Accounts!NoMember,
           RequestsTyped, Accounts!NoRequest, Principals, Logins, Switches, Setups, Changes,
           Accounts!AdminMember
  <1>4. OAuthTyped'
    BY DEF Accounts!LoginReads, Accounts!Idle, Accounts!Preferred, Accounts!Enabled,
           Accounts!catalog, Accounts!secrets, Accounts!links, Accounts!oauth, AccountsInv,
           OAuthTyped, Modes, Accounts!NoMember, Accounts!NoSession, Accounts!NoLink,
           Accounts!NoRequest, Accounts!AdminMember
  <1>5. RequestsTyped'
    BY DEF Accounts!LoginReads, Accounts!Idle, Accounts!Preferred, Accounts!Enabled,
           Accounts!catalog, Accounts!secrets, Accounts!links, Accounts!oauth, AccountsInv,
           RequestsTyped, Accounts!NoRequest, Principals, Logins, Switches, Setups, Changes,
           Accounts!NoMember, Accounts!NoSession, Accounts!NoLink, Accounts!AdminMember
  <1>6. AdminIsIn'
    BY DEF Accounts!LoginReads, Accounts!Idle, Accounts!Preferred, Accounts!Enabled,
           Accounts!catalog, Accounts!secrets, Accounts!links, Accounts!oauth, AccountsInv,
           AdminIsIn, Accounts!AdminMember, CatalogTyped, Memberships, Accounts!NoMember,
           UserRows, Accounts!NoSession, Accounts!NoLink, Accounts!NoRequest
  <1>7. LinksAreFresh'
    BY DEF Accounts!LoginReads, Accounts!Idle, Accounts!Preferred, Accounts!Enabled,
           Accounts!catalog, Accounts!secrets, Accounts!links, Accounts!oauth, AccountsInv,
           LinksAreFresh, Accounts!NoLink, Accounts!NoMember, SessionsTyped, Seats,
           Accounts!NoSession, Accounts!NoRequest, Accounts!AdminMember
  <1>8. PasswordsAreSet'
    BY DEF Accounts!LoginReads, Accounts!Idle, Accounts!Preferred, Accounts!Enabled,
           Accounts!catalog, Accounts!secrets, Accounts!links, Accounts!oauth, AccountsInv,
           PasswordsAreSet, CatalogTyped, Memberships, Accounts!NoMember, UserRows,
           SecretsTyped, Accounts!NoSession, Accounts!NoLink, Accounts!NoRequest,
           Accounts!AdminMember
  <1>9. Accounts!DefaultIsReachable'
    BY DEF Accounts!LoginReads, Accounts!Idle, Accounts!Preferred, Accounts!Enabled,
           Accounts!catalog, Accounts!secrets, Accounts!links, Accounts!oauth, AccountsInv,
           Accounts!DefaultIsReachable, CatalogTyped, Memberships, Accounts!NoMember, UserRows,
           Accounts!NoSession, Accounts!NoLink, Accounts!NoRequest, Accounts!AdminMember
  <1>10. Accounts!OAuthCanBeLeft'
    BY DEF Accounts!LoginReads, Accounts!Idle, Accounts!Preferred, Accounts!Enabled,
           Accounts!catalog, Accounts!secrets, Accounts!links, Accounts!oauth, AccountsInv,
           Accounts!OAuthCanBeLeft, Accounts!NoMember, Accounts!NoSession, Accounts!NoLink,
           OAuthTyped, Modes, Accounts!NoRequest, Accounts!AdminMember
  <1>11. QED
    BY <1>1, <1>2, <1>3, <1>4, <1>5, <1>6, <1>7, <1>8, <1>9, <1>10 DEF AccountsInv

LEMMA AccountsCreateUser ==
    ASSUME Accounts!AccountsAssumption, AccountsInv, NEW r \in Requests, NEW u \in People,
           Accounts!CreateUser(r, u)
    PROVE  AccountsInv'
  <1>1. CatalogTyped'
    BY DEF Accounts!CreateUser, Accounts!Global, Accounts!WithPrincipal, Accounts!Done,
           Accounts!NoRequest, Accounts!catalog, Accounts!secrets, Accounts!links,
           Accounts!oauth, AccountsInv, CatalogTyped, Memberships, Accounts!NoMember, UserRows,
           Accounts!NoSession, Accounts!NoLink, Accounts!AdminMember, Accounts!Enabled
  <1>2. SecretsTyped'
    BY DEF Accounts!CreateUser, Accounts!Global, Accounts!WithPrincipal, Accounts!Done,
           Accounts!NoRequest, Accounts!catalog, Accounts!secrets, Accounts!links,
           Accounts!oauth, AccountsInv, SecretsTyped, Accounts!NoMember, Accounts!NoSession,
           Accounts!NoLink, Accounts!AdminMember, Accounts!Enabled
  <1>3. SessionsTyped'
    BY DEF Accounts!CreateUser, Accounts!Global, Accounts!WithPrincipal, Accounts!Done,
           Accounts!NoRequest, Accounts!catalog, Accounts!secrets, Accounts!links,
           Accounts!oauth, AccountsInv, SessionsTyped, Seats, Accounts!NoSession,
           Accounts!NoLink, Accounts!NoMember, RequestsTyped, Principals, Logins, Switches,
           Setups, Changes, Accounts!AdminMember, Accounts!Enabled
  <1>4. OAuthTyped'
    BY DEF Accounts!CreateUser, Accounts!Global, Accounts!WithPrincipal, Accounts!Done,
           Accounts!NoRequest, Accounts!catalog, Accounts!secrets, Accounts!links,
           Accounts!oauth, AccountsInv, OAuthTyped, Modes, Accounts!NoMember,
           Accounts!NoSession, Accounts!NoLink, Accounts!AdminMember, Accounts!Enabled
  <1>5. RequestsTyped'
    BY DEF Accounts!CreateUser, Accounts!Global, Accounts!WithPrincipal, Accounts!Done,
           Accounts!NoRequest, Accounts!catalog, Accounts!secrets, Accounts!links,
           Accounts!oauth, AccountsInv, RequestsTyped, Principals, Logins, Switches, Setups,
           Changes, Accounts!NoMember, Accounts!NoSession, Accounts!NoLink,
           Accounts!AdminMember, Accounts!Enabled
  <1>6. AdminIsIn'
    BY DEF Accounts!CreateUser, Accounts!Global, Accounts!WithPrincipal, Accounts!Done,
           Accounts!NoRequest, Accounts!catalog, Accounts!secrets, Accounts!links,
           Accounts!oauth, AccountsInv, AdminIsIn, Accounts!AdminMember, CatalogTyped,
           Memberships, Accounts!NoMember, UserRows, Accounts!NoSession, Accounts!NoLink,
           Accounts!Enabled
  <1>7. LinksAreFresh'
    BY DEF Accounts!CreateUser, Accounts!Global, Accounts!WithPrincipal, Accounts!Done,
           Accounts!NoRequest, Accounts!catalog, Accounts!secrets, Accounts!links,
           Accounts!oauth, AccountsInv, LinksAreFresh, Accounts!NoLink, Accounts!NoMember,
           SessionsTyped, Seats, Accounts!NoSession, Accounts!AdminMember, Accounts!Enabled
  <1>8. PasswordsAreSet'
    BY DEF Accounts!CreateUser, Accounts!Global, Accounts!WithPrincipal, Accounts!Done,
           Accounts!NoRequest, Accounts!catalog, Accounts!secrets, Accounts!links,
           Accounts!oauth, AccountsInv, PasswordsAreSet, CatalogTyped, Memberships,
           Accounts!NoMember, UserRows, SecretsTyped, Accounts!NoSession, Accounts!NoLink,
           Accounts!AdminMember, Accounts!Enabled
  <1>9. Accounts!DefaultIsReachable'
    BY DEF Accounts!CreateUser, Accounts!Global, Accounts!WithPrincipal, Accounts!Done,
           Accounts!NoRequest, Accounts!catalog, Accounts!secrets, Accounts!links,
           Accounts!oauth, AccountsInv, Accounts!DefaultIsReachable, Accounts!Enabled,
           CatalogTyped, Memberships, Accounts!NoMember, UserRows, Accounts!NoSession,
           Accounts!NoLink, Accounts!AdminMember
  <1>10. Accounts!OAuthCanBeLeft'
    BY DEF Accounts!CreateUser, Accounts!Global, Accounts!WithPrincipal, Accounts!Done,
           Accounts!NoRequest, Accounts!catalog, Accounts!secrets, Accounts!links,
           Accounts!oauth, AccountsInv, Accounts!OAuthCanBeLeft, Accounts!NoMember,
           Accounts!NoSession, Accounts!NoLink, OAuthTyped, Modes, Accounts!AdminMember,
           Accounts!Enabled
  <1>11. QED
    BY <1>1, <1>2, <1>3, <1>4, <1>5, <1>6, <1>7, <1>8, <1>9, <1>10 DEF AccountsInv

LEMMA AccountsCreateWorkspace ==
    ASSUME Accounts!AccountsAssumption, AccountsInv, NEW r \in Requests, NEW w \in Workspaces,
           Accounts!CreateWorkspace(r, w)
    PROVE  AccountsInv'
  <1>1. CatalogTyped'
    BY DEF Accounts!CreateWorkspace, Accounts!Global, Accounts!WithPrincipal, Accounts!Founded,
           Accounts!AdminMember, Accounts!Done, Accounts!NoRequest, Accounts!secrets,
           Accounts!links, Accounts!oauth, AccountsInv, CatalogTyped, Memberships,
           Accounts!NoMember, UserRows, Accounts!NoSession, Accounts!NoLink, Accounts!Enabled
  <1>2. SecretsTyped'
    BY DEF Accounts!CreateWorkspace, Accounts!Global, Accounts!WithPrincipal, Accounts!Founded,
           Accounts!AdminMember, Accounts!Done, Accounts!NoRequest, Accounts!secrets,
           Accounts!links, Accounts!oauth, AccountsInv, SecretsTyped, Accounts!NoMember,
           Accounts!NoSession, Accounts!NoLink, Accounts!Enabled
  <1>3. SessionsTyped'
    BY DEF Accounts!CreateWorkspace, Accounts!Global, Accounts!WithPrincipal, Accounts!Founded,
           Accounts!AdminMember, Accounts!Done, Accounts!NoRequest, Accounts!secrets,
           Accounts!links, Accounts!oauth, AccountsInv, SessionsTyped, Seats,
           Accounts!NoSession, Accounts!NoLink, Accounts!NoMember, RequestsTyped, Principals,
           Logins, Switches, Setups, Changes, Accounts!Enabled
  <1>4. OAuthTyped'
    BY DEF Accounts!CreateWorkspace, Accounts!Global, Accounts!WithPrincipal, Accounts!Founded,
           Accounts!AdminMember, Accounts!Done, Accounts!NoRequest, Accounts!secrets,
           Accounts!links, Accounts!oauth, AccountsInv, OAuthTyped, Modes, Accounts!NoMember,
           Accounts!NoSession, Accounts!NoLink, Accounts!Enabled
  <1>5. RequestsTyped'
    BY DEF Accounts!CreateWorkspace, Accounts!Global, Accounts!WithPrincipal, Accounts!Founded,
           Accounts!AdminMember, Accounts!Done, Accounts!NoRequest, Accounts!secrets,
           Accounts!links, Accounts!oauth, AccountsInv, RequestsTyped, Principals, Logins,
           Switches, Setups, Changes, Accounts!NoMember, Accounts!NoSession, Accounts!NoLink,
           Accounts!Enabled
  <1>6. AdminIsIn'
    <2>1. /\ member' = [member EXCEPT ![Admin][w] = Accounts!AdminMember]
          /\ workspace' = [workspace EXCEPT ![w] = "active"] /\ user' = user
      BY DEF Accounts!CreateWorkspace, Accounts!Founded
    <2>2. \A x \in Workspaces : member'[Admin][x] \in {member[Admin][x], Accounts!AdminMember}
      BY <2>1 DEF AccountsInv, CatalogTyped, Accounts!AccountsAssumption
    <2>3. member'[Admin][w] = Accounts!AdminMember
      BY <2>1 DEF AccountsInv, CatalogTyped, Accounts!AccountsAssumption
    <2>4. \A x \in Workspaces : x # w => workspace'[x] = workspace[x]
      BY <2>1 DEF AccountsInv, CatalogTyped
    <2>5. \A x \in Workspaces : workspace'[x] # "none" => member'[Admin][x] = Accounts!AdminMember
      BY <2>2, <2>3, <2>4 DEF AccountsInv, AdminIsIn
    <2>6. user'[Admin].state = "active"
      BY <2>1 DEF AccountsInv, AdminIsIn
    <2>7. QED
      BY <2>5, <2>6 DEF AdminIsIn, Accounts!AdminMember
  <1>7. LinksAreFresh'
    BY DEF Accounts!CreateWorkspace, Accounts!Global, Accounts!WithPrincipal, Accounts!Founded,
           Accounts!AdminMember, Accounts!Done, Accounts!NoRequest, Accounts!secrets,
           Accounts!links, Accounts!oauth, AccountsInv, LinksAreFresh, Accounts!NoLink,
           Accounts!NoMember, SessionsTyped, Seats, Accounts!NoSession, Accounts!Enabled
  <1>8. PasswordsAreSet'
    BY DEF Accounts!CreateWorkspace, Accounts!Global, Accounts!WithPrincipal, Accounts!Founded,
           Accounts!AdminMember, Accounts!Done, Accounts!NoRequest, Accounts!secrets,
           Accounts!links, Accounts!oauth, AccountsInv, PasswordsAreSet, CatalogTyped,
           Memberships, Accounts!NoMember, UserRows, SecretsTyped, Accounts!NoSession,
           Accounts!NoLink, Accounts!Enabled
  <1>9. Accounts!DefaultIsReachable'
    BY DEF Accounts!CreateWorkspace, Accounts!Global, Accounts!WithPrincipal, Accounts!Founded,
           Accounts!AdminMember, Accounts!Done, Accounts!NoRequest, Accounts!secrets,
           Accounts!links, Accounts!oauth, AccountsInv, Accounts!DefaultIsReachable,
           Accounts!Enabled, CatalogTyped, Memberships, Accounts!NoMember, UserRows,
           Accounts!NoSession, Accounts!NoLink
  <1>10. Accounts!OAuthCanBeLeft'
    BY DEF Accounts!CreateWorkspace, Accounts!Global, Accounts!WithPrincipal, Accounts!Founded,
           Accounts!AdminMember, Accounts!Done, Accounts!NoRequest, Accounts!secrets,
           Accounts!links, Accounts!oauth, AccountsInv, Accounts!OAuthCanBeLeft,
           Accounts!NoMember, Accounts!NoSession, Accounts!NoLink, OAuthTyped, Modes,
           Accounts!Enabled
  <1>11. QED
    BY <1>1, <1>2, <1>3, <1>4, <1>5, <1>6, <1>7, <1>8, <1>9, <1>10 DEF AccountsInv

LEMMA AccountsArchiveWorkspace ==
    ASSUME Accounts!AccountsAssumption, AccountsInv, NEW r \in Requests, NEW w \in Workspaces,
           Accounts!ArchiveWorkspace(r, w)
    PROVE  AccountsInv'
  <1>1. CatalogTyped'
    BY DEF Accounts!ArchiveWorkspace, Accounts!Global, Accounts!WithPrincipal,
           Accounts!Archivable, Accounts!Revoked, Accounts!NoSession, Accounts!Undefaulted,
           Accounts!Done, Accounts!NoRequest, Accounts!secrets, Accounts!links, Accounts!oauth,
           AccountsInv, CatalogTyped, Memberships, Accounts!NoMember, UserRows, Accounts!NoLink,
           Accounts!AdminMember, Accounts!Enabled
  <1>2. SecretsTyped'
    BY DEF Accounts!ArchiveWorkspace, Accounts!Global, Accounts!WithPrincipal,
           Accounts!Archivable, Accounts!Revoked, Accounts!NoSession, Accounts!Undefaulted,
           Accounts!Done, Accounts!NoRequest, Accounts!secrets, Accounts!links, Accounts!oauth,
           AccountsInv, SecretsTyped, Accounts!NoMember, Accounts!NoLink, Accounts!AdminMember,
           Accounts!Enabled
  <1>3. SessionsTyped'
    BY DEF Accounts!ArchiveWorkspace, Accounts!Global, Accounts!WithPrincipal,
           Accounts!Archivable, Accounts!Revoked, Accounts!NoSession, Accounts!Undefaulted,
           Accounts!Done, Accounts!NoRequest, Accounts!secrets, Accounts!links, Accounts!oauth,
           AccountsInv, SessionsTyped, Seats, Accounts!NoLink, Accounts!NoMember, RequestsTyped,
           Principals, Logins, Switches, Setups, Changes, Accounts!AdminMember, Accounts!Enabled
  <1>4. OAuthTyped'
    BY DEF Accounts!ArchiveWorkspace, Accounts!Global, Accounts!WithPrincipal,
           Accounts!Archivable, Accounts!Revoked, Accounts!NoSession, Accounts!Undefaulted,
           Accounts!Done, Accounts!NoRequest, Accounts!secrets, Accounts!links, Accounts!oauth,
           AccountsInv, OAuthTyped, Modes, Accounts!NoMember, Accounts!NoLink,
           Accounts!AdminMember, Accounts!Enabled
  <1>5. RequestsTyped'
    BY DEF Accounts!ArchiveWorkspace, Accounts!Global, Accounts!WithPrincipal,
           Accounts!Archivable, Accounts!Revoked, Accounts!NoSession, Accounts!Undefaulted,
           Accounts!Done, Accounts!NoRequest, Accounts!secrets, Accounts!links, Accounts!oauth,
           AccountsInv, RequestsTyped, Principals, Logins, Switches, Setups, Changes,
           Accounts!NoMember, Accounts!NoLink, Accounts!AdminMember, Accounts!Enabled
  <1>6. AdminIsIn'
    <2>1. user'[Admin].state = user[Admin].state
      BY UndefaultedIs DEF Accounts!AccountsAssumption, Accounts!ArchiveWorkspace
    <2>2. /\ workspace' = [workspace EXCEPT ![w] = "archived"] /\ workspace[w] = "active"
          /\ member' = member
      BY DEF Accounts!ArchiveWorkspace, Accounts!Archivable, Accounts!catalog
    <2>3. QED
      BY <2>1, <2>2 DEF AccountsInv, CatalogTyped, AdminIsIn, Accounts!AdminMember
  <1>7. LinksAreFresh'
    BY DEF Accounts!ArchiveWorkspace, Accounts!Global, Accounts!WithPrincipal,
           Accounts!Archivable, Accounts!Revoked, Accounts!NoSession, Accounts!Undefaulted,
           Accounts!Done, Accounts!NoRequest, Accounts!secrets, Accounts!links, Accounts!oauth,
           AccountsInv, LinksAreFresh, Accounts!NoLink, Accounts!NoMember, SessionsTyped, Seats,
           Accounts!AdminMember, Accounts!Enabled
  <1>8. PasswordsAreSet'
    BY DEF Accounts!ArchiveWorkspace, Accounts!Global, Accounts!WithPrincipal,
           Accounts!Archivable, Accounts!Revoked, Accounts!NoSession, Accounts!Undefaulted,
           Accounts!Done, Accounts!NoRequest, Accounts!secrets, Accounts!links, Accounts!oauth,
           AccountsInv, PasswordsAreSet, CatalogTyped, Memberships, Accounts!NoMember, UserRows,
           SecretsTyped, Accounts!NoLink, Accounts!AdminMember, Accounts!Enabled
  <1>9. Accounts!DefaultIsReachable'
    BY DEF Accounts!ArchiveWorkspace, Accounts!Global, Accounts!WithPrincipal,
           Accounts!Archivable, Accounts!Revoked, Accounts!NoSession, Accounts!Undefaulted,
           Accounts!Done, Accounts!NoRequest, Accounts!secrets, Accounts!links, Accounts!oauth,
           AccountsInv, Accounts!DefaultIsReachable, Accounts!Enabled, CatalogTyped,
           Memberships, Accounts!NoMember, UserRows, Accounts!NoLink, Accounts!AdminMember
  <1>10. Accounts!OAuthCanBeLeft'
    BY DEF Accounts!ArchiveWorkspace, Accounts!Global, Accounts!WithPrincipal,
           Accounts!Archivable, Accounts!Revoked, Accounts!NoSession, Accounts!Undefaulted,
           Accounts!Done, Accounts!NoRequest, Accounts!secrets, Accounts!links, Accounts!oauth,
           AccountsInv, Accounts!OAuthCanBeLeft, Accounts!NoMember, Accounts!NoLink, OAuthTyped,
           Modes, Accounts!AdminMember, Accounts!Enabled
  <1>11. QED
    BY <1>1, <1>2, <1>3, <1>4, <1>5, <1>6, <1>7, <1>8, <1>9, <1>10 DEF AccountsInv

LEMMA AccountsSetDefault ==
    ASSUME Accounts!AccountsAssumption, AccountsInv, NEW r \in Requests, NEW w \in Workspaces,
           Accounts!SetDefault(r, w)
    PROVE  AccountsInv'
  <1>1. CatalogTyped'
    BY DEF Accounts!SetDefault, Accounts!WithPrincipal, Accounts!Enabled, Accounts!Done,
           Accounts!NoRequest, Accounts!catalog, Accounts!secrets, Accounts!links,
           Accounts!oauth, AccountsInv, CatalogTyped, Memberships, Accounts!NoMember, UserRows,
           Accounts!NoSession, Accounts!NoLink, RequestsTyped, Principals, Logins, Switches,
           Setups, Changes, Accounts!AdminMember
  <1>2. SecretsTyped'
    BY DEF Accounts!SetDefault, Accounts!WithPrincipal, Accounts!Enabled, Accounts!Done,
           Accounts!NoRequest, Accounts!catalog, Accounts!secrets, Accounts!links,
           Accounts!oauth, AccountsInv, SecretsTyped, Accounts!NoMember, Accounts!NoSession,
           Accounts!NoLink, Accounts!AdminMember
  <1>3. SessionsTyped'
    BY DEF Accounts!SetDefault, Accounts!WithPrincipal, Accounts!Enabled, Accounts!Done,
           Accounts!NoRequest, Accounts!catalog, Accounts!secrets, Accounts!links,
           Accounts!oauth, AccountsInv, SessionsTyped, Seats, Accounts!NoSession,
           Accounts!NoLink, Accounts!NoMember, RequestsTyped, Principals, Logins, Switches,
           Setups, Changes, Accounts!AdminMember
  <1>4. OAuthTyped'
    BY DEF Accounts!SetDefault, Accounts!WithPrincipal, Accounts!Enabled, Accounts!Done,
           Accounts!NoRequest, Accounts!catalog, Accounts!secrets, Accounts!links,
           Accounts!oauth, AccountsInv, OAuthTyped, Modes, Accounts!NoMember,
           Accounts!NoSession, Accounts!NoLink, Accounts!AdminMember
  <1>5. RequestsTyped'
    BY DEF Accounts!SetDefault, Accounts!WithPrincipal, Accounts!Enabled, Accounts!Done,
           Accounts!NoRequest, Accounts!catalog, Accounts!secrets, Accounts!links,
           Accounts!oauth, AccountsInv, RequestsTyped, Principals, Logins, Switches, Setups,
           Changes, Accounts!NoMember, Accounts!NoSession, Accounts!NoLink, Accounts!AdminMember
  <1>6. AdminIsIn'
    BY DEF Accounts!SetDefault, Accounts!WithPrincipal, Accounts!Enabled, Accounts!Done,
           Accounts!NoRequest, Accounts!catalog, Accounts!secrets, Accounts!links,
           Accounts!oauth, AccountsInv, AdminIsIn, Accounts!AdminMember, CatalogTyped,
           Memberships, Accounts!NoMember, UserRows, Accounts!NoSession, Accounts!NoLink
  <1>7. LinksAreFresh'
    BY DEF Accounts!SetDefault, Accounts!WithPrincipal, Accounts!Enabled, Accounts!Done,
           Accounts!NoRequest, Accounts!catalog, Accounts!secrets, Accounts!links,
           Accounts!oauth, AccountsInv, LinksAreFresh, Accounts!NoLink, Accounts!NoMember,
           SessionsTyped, Seats, Accounts!NoSession, Accounts!AdminMember
  <1>8. PasswordsAreSet'
    BY DEF Accounts!SetDefault, Accounts!WithPrincipal, Accounts!Enabled, Accounts!Done,
           Accounts!NoRequest, Accounts!catalog, Accounts!secrets, Accounts!links,
           Accounts!oauth, AccountsInv, PasswordsAreSet, CatalogTyped, Memberships,
           Accounts!NoMember, UserRows, SecretsTyped, Accounts!NoSession, Accounts!NoLink,
           Accounts!AdminMember
  <1>9. Accounts!DefaultIsReachable'
    BY DEF Accounts!SetDefault, Accounts!WithPrincipal, Accounts!Enabled, Accounts!Done,
           Accounts!NoRequest, Accounts!catalog, Accounts!secrets, Accounts!links,
           Accounts!oauth, AccountsInv, Accounts!DefaultIsReachable, CatalogTyped, Memberships,
           Accounts!NoMember, UserRows, Accounts!NoSession, Accounts!NoLink,
           Accounts!AdminMember
  <1>10. Accounts!OAuthCanBeLeft'
    BY DEF Accounts!SetDefault, Accounts!WithPrincipal, Accounts!Enabled, Accounts!Done,
           Accounts!NoRequest, Accounts!catalog, Accounts!secrets, Accounts!links,
           Accounts!oauth, AccountsInv, Accounts!OAuthCanBeLeft, Accounts!NoMember,
           Accounts!NoSession, Accounts!NoLink, OAuthTyped, Modes, Accounts!AdminMember
  <1>11. QED
    BY <1>1, <1>2, <1>3, <1>4, <1>5, <1>6, <1>7, <1>8, <1>9, <1>10 DEF AccountsInv

LEMMA AccountsSwitchChecks ==
    ASSUME Accounts!AccountsAssumption, AccountsInv, NEW r \in Requests, NEW w \in Workspaces,
           Accounts!SwitchChecks(r, w)
    PROVE  AccountsInv'
  <1>1. CatalogTyped'
    BY DEF Accounts!SwitchChecks, Accounts!WithPrincipal, Accounts!Enabled, Accounts!catalog,
           Accounts!secrets, Accounts!links, Accounts!oauth, AccountsInv, CatalogTyped,
           Memberships, Accounts!NoMember, UserRows, Accounts!NoSession, Accounts!NoLink,
           Accounts!NoRequest, Accounts!AdminMember
  <1>2. SecretsTyped'
    BY DEF Accounts!SwitchChecks, Accounts!WithPrincipal, Accounts!Enabled, Accounts!catalog,
           Accounts!secrets, Accounts!links, Accounts!oauth, AccountsInv, SecretsTyped,
           Accounts!NoMember, Accounts!NoSession, Accounts!NoLink, Accounts!NoRequest,
           Accounts!AdminMember
  <1>3. SessionsTyped'
    BY DEF Accounts!SwitchChecks, Accounts!WithPrincipal, Accounts!Enabled, Accounts!catalog,
           Accounts!secrets, Accounts!links, Accounts!oauth, AccountsInv, SessionsTyped, Seats,
           Accounts!NoSession, Accounts!NoLink, Accounts!NoMember, RequestsTyped,
           Accounts!NoRequest, Principals, Logins, Switches, Setups, Changes,
           Accounts!AdminMember
  <1>4. OAuthTyped'
    BY DEF Accounts!SwitchChecks, Accounts!WithPrincipal, Accounts!Enabled, Accounts!catalog,
           Accounts!secrets, Accounts!links, Accounts!oauth, AccountsInv, OAuthTyped, Modes,
           Accounts!NoMember, Accounts!NoSession, Accounts!NoLink, Accounts!NoRequest,
           Accounts!AdminMember
  <1>5. RequestsTyped'
    BY DEF Accounts!SwitchChecks, Accounts!WithPrincipal, Accounts!Enabled, Accounts!catalog,
           Accounts!secrets, Accounts!links, Accounts!oauth, AccountsInv, RequestsTyped,
           Accounts!NoRequest, Principals, Logins, Switches, Setups, Changes, Accounts!NoMember,
           Accounts!NoSession, Accounts!NoLink, Accounts!AdminMember
  <1>6. AdminIsIn'
    BY DEF Accounts!SwitchChecks, Accounts!WithPrincipal, Accounts!Enabled, Accounts!catalog,
           Accounts!secrets, Accounts!links, Accounts!oauth, AccountsInv, AdminIsIn,
           Accounts!AdminMember, CatalogTyped, Memberships, Accounts!NoMember, UserRows,
           Accounts!NoSession, Accounts!NoLink, Accounts!NoRequest
  <1>7. LinksAreFresh'
    BY DEF Accounts!SwitchChecks, Accounts!WithPrincipal, Accounts!Enabled, Accounts!catalog,
           Accounts!secrets, Accounts!links, Accounts!oauth, AccountsInv, LinksAreFresh,
           Accounts!NoLink, Accounts!NoMember, SessionsTyped, Seats, Accounts!NoSession,
           Accounts!NoRequest, Accounts!AdminMember
  <1>8. PasswordsAreSet'
    BY DEF Accounts!SwitchChecks, Accounts!WithPrincipal, Accounts!Enabled, Accounts!catalog,
           Accounts!secrets, Accounts!links, Accounts!oauth, AccountsInv, PasswordsAreSet,
           CatalogTyped, Memberships, Accounts!NoMember, UserRows, SecretsTyped,
           Accounts!NoSession, Accounts!NoLink, Accounts!NoRequest, Accounts!AdminMember
  <1>9. Accounts!DefaultIsReachable'
    BY DEF Accounts!SwitchChecks, Accounts!WithPrincipal, Accounts!Enabled, Accounts!catalog,
           Accounts!secrets, Accounts!links, Accounts!oauth, AccountsInv,
           Accounts!DefaultIsReachable, CatalogTyped, Memberships, Accounts!NoMember, UserRows,
           Accounts!NoSession, Accounts!NoLink, Accounts!NoRequest, Accounts!AdminMember
  <1>10. Accounts!OAuthCanBeLeft'
    BY DEF Accounts!SwitchChecks, Accounts!WithPrincipal, Accounts!Enabled, Accounts!catalog,
           Accounts!secrets, Accounts!links, Accounts!oauth, AccountsInv,
           Accounts!OAuthCanBeLeft, Accounts!NoMember, Accounts!NoSession, Accounts!NoLink,
           OAuthTyped, Modes, Accounts!NoRequest, Accounts!AdminMember
  <1>11. QED
    BY <1>1, <1>2, <1>3, <1>4, <1>5, <1>6, <1>7, <1>8, <1>9, <1>10 DEF AccountsInv

LEMMA AccountsReadToken ==
    ASSUME Accounts!AccountsAssumption, AccountsInv, NEW r \in Requests, NEW u \in People,
           NEW w \in Workspaces, Accounts!ReadToken(r, u, w)
    PROVE  AccountsInv'
  <1>1. CatalogTyped'
    BY DEF Accounts!ReadToken, Accounts!Idle, Accounts!Enabled, Accounts!Principal,
           Accounts!catalog, Accounts!secrets, Accounts!links, Accounts!oauth, AccountsInv,
           CatalogTyped, Memberships, Accounts!NoMember, UserRows, Accounts!NoSession,
           Accounts!NoLink, Accounts!NoRequest, Accounts!AdminMember
  <1>2. SecretsTyped'
    BY DEF Accounts!ReadToken, Accounts!Idle, Accounts!Enabled, Accounts!Principal,
           Accounts!catalog, Accounts!secrets, Accounts!links, Accounts!oauth, AccountsInv,
           SecretsTyped, Accounts!NoMember, Accounts!NoSession, Accounts!NoLink,
           Accounts!NoRequest, Accounts!AdminMember
  <1>3. SessionsTyped'
    BY DEF Accounts!ReadToken, Accounts!Idle, Accounts!Enabled, Accounts!Principal,
           Accounts!catalog, Accounts!secrets, Accounts!links, Accounts!oauth, AccountsInv,
           SessionsTyped, Seats, Accounts!NoSession, Accounts!NoLink, Accounts!NoMember,
           RequestsTyped, Accounts!NoRequest, Principals, Logins, Switches, Setups, Changes,
           Accounts!AdminMember
  <1>4. OAuthTyped'
    BY DEF Accounts!ReadToken, Accounts!Idle, Accounts!Enabled, Accounts!Principal,
           Accounts!catalog, Accounts!secrets, Accounts!links, Accounts!oauth, AccountsInv,
           OAuthTyped, Modes, Accounts!NoMember, Accounts!NoSession, Accounts!NoLink,
           Accounts!NoRequest, Accounts!AdminMember
  <1>5. RequestsTyped'
    <2>1. u \in People /\ w \in Workspaces
      OBVIOUS
    <2>2. /\ member[u][w].role \in {"none", "admin", "member"}
          /\ settings.version \in 1 .. MaxVersion
      <3>1. \A x \in People, y \in Workspaces : member[x][y].role \in {"none", "admin", "member"}
        BY NothingIs DEF AccountsInv, CatalogTyped, Memberships
      <3>2. settings.version \in 1 .. MaxVersion
        BY DEF AccountsInv, OAuthTyped, Modes
      <3>3. QED
        BY <2>1, <3>1, <3>2
    <2>3. PICK q \in Principals : q = Accounts!Principal(None, u, w)
      BY <2>1, <2>2 DEF Principals, Accounts!Principal
    <2>4. request' = [request EXCEPT ![r] = q]
      BY <2>3 DEF Accounts!ReadToken
    <2>5. QED
      BY <2>4 DEF AccountsInv, RequestsTyped, Accounts!NoRequest
  <1>6. AdminIsIn'
    BY DEF Accounts!ReadToken, Accounts!Idle, Accounts!Enabled, Accounts!Principal,
           Accounts!catalog, Accounts!secrets, Accounts!links, Accounts!oauth, AccountsInv,
           AdminIsIn, Accounts!AdminMember, CatalogTyped, Memberships, Accounts!NoMember,
           UserRows, Accounts!NoSession, Accounts!NoLink, Accounts!NoRequest
  <1>7. LinksAreFresh'
    BY DEF Accounts!ReadToken, Accounts!Idle, Accounts!Enabled, Accounts!Principal,
           Accounts!catalog, Accounts!secrets, Accounts!links, Accounts!oauth, AccountsInv,
           LinksAreFresh, Accounts!NoLink, Accounts!NoMember, SessionsTyped, Seats,
           Accounts!NoSession, Accounts!NoRequest, Accounts!AdminMember
  <1>8. PasswordsAreSet'
    BY DEF Accounts!ReadToken, Accounts!Idle, Accounts!Enabled, Accounts!Principal,
           Accounts!catalog, Accounts!secrets, Accounts!links, Accounts!oauth, AccountsInv,
           PasswordsAreSet, CatalogTyped, Memberships, Accounts!NoMember, UserRows,
           SecretsTyped, Accounts!NoSession, Accounts!NoLink, Accounts!NoRequest,
           Accounts!AdminMember
  <1>9. Accounts!DefaultIsReachable'
    BY DEF Accounts!ReadToken, Accounts!Idle, Accounts!Enabled, Accounts!Principal,
           Accounts!catalog, Accounts!secrets, Accounts!links, Accounts!oauth, AccountsInv,
           Accounts!DefaultIsReachable, CatalogTyped, Memberships, Accounts!NoMember, UserRows,
           Accounts!NoSession, Accounts!NoLink, Accounts!NoRequest, Accounts!AdminMember
  <1>10. Accounts!OAuthCanBeLeft'
    BY DEF Accounts!ReadToken, Accounts!Idle, Accounts!Enabled, Accounts!Principal,
           Accounts!catalog, Accounts!secrets, Accounts!links, Accounts!oauth, AccountsInv,
           Accounts!OAuthCanBeLeft, Accounts!NoMember, Accounts!NoSession, Accounts!NoLink,
           OAuthTyped, Modes, Accounts!NoRequest, Accounts!AdminMember
  <1>11. QED
    BY <1>1, <1>2, <1>3, <1>4, <1>5, <1>6, <1>7, <1>8, <1>9, <1>10 DEF AccountsInv

LEMMA AccountsRemoveMember ==
    ASSUME Accounts!AccountsAssumption, AccountsInv, NEW r \in Requests, NEW w \in Workspaces,
           NEW u \in People, Accounts!RemoveMember(r, w, u)
    PROVE  AccountsInv'
  <1>1. CatalogTyped'
    BY DEF Accounts!RemoveMember, Accounts!Administers, Accounts!WithPrincipal,
           Accounts!NoMember, Accounts!AdminMember, Accounts!AnotherAdministrator,
           Accounts!Revoked, Accounts!NoSession, Accounts!Undefaulted, Accounts!NoLink,
           Accounts!Done, Accounts!NoRequest, Accounts!secrets, Accounts!oauth, AccountsInv,
           CatalogTyped, Memberships, UserRows, Accounts!Enabled
  <1>2. SecretsTyped'
    BY DEF Accounts!RemoveMember, Accounts!Administers, Accounts!WithPrincipal,
           Accounts!NoMember, Accounts!AdminMember, Accounts!AnotherAdministrator,
           Accounts!Revoked, Accounts!NoSession, Accounts!Undefaulted, Accounts!NoLink,
           Accounts!Done, Accounts!NoRequest, Accounts!secrets, Accounts!oauth, AccountsInv,
           SecretsTyped, Accounts!Enabled
  <1>3. SessionsTyped'
    BY DEF Accounts!RemoveMember, Accounts!Administers, Accounts!WithPrincipal,
           Accounts!NoMember, Accounts!AdminMember, Accounts!AnotherAdministrator,
           Accounts!Revoked, Accounts!NoSession, Accounts!Undefaulted, Accounts!NoLink,
           Accounts!Done, Accounts!NoRequest, Accounts!secrets, Accounts!oauth, AccountsInv,
           SessionsTyped, Seats, RequestsTyped, Principals, Logins, Switches, Setups, Changes,
           Accounts!Enabled
  <1>4. OAuthTyped'
    BY DEF Accounts!RemoveMember, Accounts!Administers, Accounts!WithPrincipal,
           Accounts!NoMember, Accounts!AdminMember, Accounts!AnotherAdministrator,
           Accounts!Revoked, Accounts!NoSession, Accounts!Undefaulted, Accounts!NoLink,
           Accounts!Done, Accounts!NoRequest, Accounts!secrets, Accounts!oauth, AccountsInv,
           OAuthTyped, Modes, Accounts!Enabled
  <1>5. RequestsTyped'
    BY DEF Accounts!RemoveMember, Accounts!Administers, Accounts!WithPrincipal,
           Accounts!NoMember, Accounts!AdminMember, Accounts!AnotherAdministrator,
           Accounts!Revoked, Accounts!NoSession, Accounts!Undefaulted, Accounts!NoLink,
           Accounts!Done, Accounts!NoRequest, Accounts!secrets, Accounts!oauth, AccountsInv,
           RequestsTyped, Principals, Logins, Switches, Setups, Changes, Accounts!Enabled
  <1>6. AdminIsIn'
    <2>1. user'[Admin].state = user[Admin].state
      BY UndefaultedIs DEF Accounts!AccountsAssumption, Accounts!RemoveMember
    <2>2. member' = [member EXCEPT ![u][w] = Accounts!NoMember] /\ u # Admin /\ workspace' = workspace
      BY DEF Accounts!RemoveMember
    <2>3. QED
      BY <2>1, <2>2
      DEF AccountsInv, CatalogTyped, AdminIsIn, Accounts!AdminMember, Accounts!AccountsAssumption
  <1>7. LinksAreFresh'
    BY DEF Accounts!RemoveMember, Accounts!Administers, Accounts!WithPrincipal,
           Accounts!NoMember, Accounts!AdminMember, Accounts!AnotherAdministrator,
           Accounts!Revoked, Accounts!NoSession, Accounts!Undefaulted, Accounts!NoLink,
           Accounts!Done, Accounts!NoRequest, Accounts!secrets, Accounts!oauth, AccountsInv,
           LinksAreFresh, SessionsTyped, Seats, Accounts!Enabled
  <1>8. PasswordsAreSet'
    BY DEF Accounts!RemoveMember, Accounts!Administers, Accounts!WithPrincipal,
           Accounts!NoMember, Accounts!AdminMember, Accounts!AnotherAdministrator,
           Accounts!Revoked, Accounts!NoSession, Accounts!Undefaulted, Accounts!NoLink,
           Accounts!Done, Accounts!NoRequest, Accounts!secrets, Accounts!oauth, AccountsInv,
           PasswordsAreSet, CatalogTyped, Memberships, UserRows, SecretsTyped, Accounts!Enabled
  <1>9. Accounts!DefaultIsReachable'
    BY DEF Accounts!RemoveMember, Accounts!Administers, Accounts!WithPrincipal,
           Accounts!NoMember, Accounts!AdminMember, Accounts!AnotherAdministrator,
           Accounts!Revoked, Accounts!NoSession, Accounts!Undefaulted, Accounts!NoLink,
           Accounts!Done, Accounts!NoRequest, Accounts!secrets, Accounts!oauth, AccountsInv,
           Accounts!DefaultIsReachable, Accounts!Enabled, CatalogTyped, Memberships, UserRows
  <1>10. Accounts!OAuthCanBeLeft'
    BY DEF Accounts!RemoveMember, Accounts!Administers, Accounts!WithPrincipal,
           Accounts!NoMember, Accounts!AdminMember, Accounts!AnotherAdministrator,
           Accounts!Revoked, Accounts!NoSession, Accounts!Undefaulted, Accounts!NoLink,
           Accounts!Done, Accounts!NoRequest, Accounts!secrets, Accounts!oauth, AccountsInv,
           Accounts!OAuthCanBeLeft, OAuthTyped, Modes, Accounts!Enabled
  <1>11. QED
    BY <1>1, <1>2, <1>3, <1>4, <1>5, <1>6, <1>7, <1>8, <1>9, <1>10 DEF AccountsInv

LEMMA AccountsAddMember ==
    ASSUME Accounts!AccountsAssumption, AccountsInv, NEW r \in Requests, NEW w \in Workspaces,
           NEW u \in People, NEW o \in {"admin", "member"}, Accounts!AddMember(r, w, u, o)
    PROVE  AccountsInv'
  <1>1. CatalogTyped'
    BY DEF Accounts!AddMember, Accounts!Administers, Accounts!WithPrincipal, Accounts!NoMember,
           Accounts!Done, Accounts!NoRequest, Accounts!secrets, Accounts!links, Accounts!oauth,
           AccountsInv, CatalogTyped, Memberships, UserRows, Accounts!NoSession,
           Accounts!NoLink, Accounts!AdminMember, Accounts!Enabled
  <1>2. SecretsTyped'
    BY DEF Accounts!AddMember, Accounts!Administers, Accounts!WithPrincipal, Accounts!NoMember,
           Accounts!Done, Accounts!NoRequest, Accounts!secrets, Accounts!links, Accounts!oauth,
           AccountsInv, SecretsTyped, Accounts!NoSession, Accounts!NoLink, Accounts!AdminMember,
           Accounts!Enabled
  <1>3. SessionsTyped'
    BY DEF Accounts!AddMember, Accounts!Administers, Accounts!WithPrincipal, Accounts!NoMember,
           Accounts!Done, Accounts!NoRequest, Accounts!secrets, Accounts!links, Accounts!oauth,
           AccountsInv, SessionsTyped, Seats, Accounts!NoSession, Accounts!NoLink,
           RequestsTyped, Principals, Logins, Switches, Setups, Changes, Accounts!AdminMember,
           Accounts!Enabled
  <1>4. OAuthTyped'
    BY DEF Accounts!AddMember, Accounts!Administers, Accounts!WithPrincipal, Accounts!NoMember,
           Accounts!Done, Accounts!NoRequest, Accounts!secrets, Accounts!links, Accounts!oauth,
           AccountsInv, OAuthTyped, Modes, Accounts!NoSession, Accounts!NoLink,
           Accounts!AdminMember, Accounts!Enabled
  <1>5. RequestsTyped'
    BY DEF Accounts!AddMember, Accounts!Administers, Accounts!WithPrincipal, Accounts!NoMember,
           Accounts!Done, Accounts!NoRequest, Accounts!secrets, Accounts!links, Accounts!oauth,
           AccountsInv, RequestsTyped, Principals, Logins, Switches, Setups, Changes,
           Accounts!NoSession, Accounts!NoLink, Accounts!AdminMember, Accounts!Enabled
  <1>6. AdminIsIn'
    BY DEF Accounts!AddMember, Accounts!Administers, Accounts!WithPrincipal, Accounts!NoMember,
           Accounts!Done, Accounts!NoRequest, Accounts!secrets, Accounts!links, Accounts!oauth,
           AccountsInv, AdminIsIn, Accounts!AdminMember, CatalogTyped, Memberships, UserRows,
           Accounts!NoSession, Accounts!NoLink, Accounts!Enabled
  <1>7. LinksAreFresh'
    BY DEF Accounts!AddMember, Accounts!Administers, Accounts!WithPrincipal, Accounts!NoMember,
           Accounts!Done, Accounts!NoRequest, Accounts!secrets, Accounts!links, Accounts!oauth,
           AccountsInv, LinksAreFresh, Accounts!NoLink, SessionsTyped, Seats,
           Accounts!NoSession, Accounts!AdminMember, Accounts!Enabled
  <1>8. PasswordsAreSet'
    BY DEF Accounts!AddMember, Accounts!Administers, Accounts!WithPrincipal, Accounts!NoMember,
           Accounts!Done, Accounts!NoRequest, Accounts!secrets, Accounts!links, Accounts!oauth,
           AccountsInv, PasswordsAreSet, CatalogTyped, Memberships, UserRows, SecretsTyped,
           Accounts!NoSession, Accounts!NoLink, Accounts!AdminMember, Accounts!Enabled
  <1>9. Accounts!DefaultIsReachable'
    BY DEF Accounts!AddMember, Accounts!Administers, Accounts!WithPrincipal, Accounts!NoMember,
           Accounts!Done, Accounts!NoRequest, Accounts!secrets, Accounts!links, Accounts!oauth,
           AccountsInv, Accounts!DefaultIsReachable, Accounts!Enabled, CatalogTyped,
           Memberships, UserRows, Accounts!NoSession, Accounts!NoLink, Accounts!AdminMember
  <1>10. Accounts!OAuthCanBeLeft'
    BY DEF Accounts!AddMember, Accounts!Administers, Accounts!WithPrincipal, Accounts!NoMember,
           Accounts!Done, Accounts!NoRequest, Accounts!secrets, Accounts!links, Accounts!oauth,
           AccountsInv, Accounts!OAuthCanBeLeft, Accounts!NoSession, Accounts!NoLink,
           OAuthTyped, Modes, Accounts!AdminMember, Accounts!Enabled
  <1>11. QED
    BY <1>1, <1>2, <1>3, <1>4, <1>5, <1>6, <1>7, <1>8, <1>9, <1>10 DEF AccountsInv

LEMMA AccountsChangeRole ==
    ASSUME Accounts!AccountsAssumption, AccountsInv, NEW r \in Requests, NEW w \in Workspaces,
           NEW u \in People, NEW o \in {"admin", "member"}, Accounts!ChangeRole(r, w, u, o)
    PROVE  AccountsInv'
  <1>1. CatalogTyped'
    BY DEF Accounts!ChangeRole, Accounts!Administers, Accounts!WithPrincipal, Accounts!NoMember,
           Accounts!AdminMember, Accounts!AnotherAdministrator, Accounts!Done,
           Accounts!NoRequest, Accounts!secrets, Accounts!links, Accounts!oauth, AccountsInv,
           CatalogTyped, Memberships, UserRows, Accounts!NoSession, Accounts!NoLink,
           Accounts!Enabled
  <1>2. SecretsTyped'
    BY DEF Accounts!ChangeRole, Accounts!Administers, Accounts!WithPrincipal, Accounts!NoMember,
           Accounts!AdminMember, Accounts!AnotherAdministrator, Accounts!Done,
           Accounts!NoRequest, Accounts!secrets, Accounts!links, Accounts!oauth, AccountsInv,
           SecretsTyped, Accounts!NoSession, Accounts!NoLink, Accounts!Enabled
  <1>3. SessionsTyped'
    BY DEF Accounts!ChangeRole, Accounts!Administers, Accounts!WithPrincipal, Accounts!NoMember,
           Accounts!AdminMember, Accounts!AnotherAdministrator, Accounts!Done,
           Accounts!NoRequest, Accounts!secrets, Accounts!links, Accounts!oauth, AccountsInv,
           SessionsTyped, Seats, Accounts!NoSession, Accounts!NoLink, RequestsTyped, Principals,
           Logins, Switches, Setups, Changes, Accounts!Enabled
  <1>4. OAuthTyped'
    BY DEF Accounts!ChangeRole, Accounts!Administers, Accounts!WithPrincipal, Accounts!NoMember,
           Accounts!AdminMember, Accounts!AnotherAdministrator, Accounts!Done,
           Accounts!NoRequest, Accounts!secrets, Accounts!links, Accounts!oauth, AccountsInv,
           OAuthTyped, Modes, Accounts!NoSession, Accounts!NoLink, Accounts!Enabled
  <1>5. RequestsTyped'
    BY DEF Accounts!ChangeRole, Accounts!Administers, Accounts!WithPrincipal, Accounts!NoMember,
           Accounts!AdminMember, Accounts!AnotherAdministrator, Accounts!Done,
           Accounts!NoRequest, Accounts!secrets, Accounts!links, Accounts!oauth, AccountsInv,
           RequestsTyped, Principals, Logins, Switches, Setups, Changes, Accounts!NoSession,
           Accounts!NoLink, Accounts!Enabled
  <1>6. AdminIsIn'
    BY DEF Accounts!ChangeRole, Accounts!Administers, Accounts!WithPrincipal, Accounts!NoMember,
           Accounts!AdminMember, Accounts!AnotherAdministrator, Accounts!Done,
           Accounts!NoRequest, Accounts!secrets, Accounts!links, Accounts!oauth, AccountsInv,
           AdminIsIn, CatalogTyped, Memberships, UserRows, Accounts!NoSession, Accounts!NoLink,
           Accounts!Enabled
  <1>7. LinksAreFresh'
    BY DEF Accounts!ChangeRole, Accounts!Administers, Accounts!WithPrincipal, Accounts!NoMember,
           Accounts!AdminMember, Accounts!AnotherAdministrator, Accounts!Done,
           Accounts!NoRequest, Accounts!secrets, Accounts!links, Accounts!oauth, AccountsInv,
           LinksAreFresh, Accounts!NoLink, SessionsTyped, Seats, Accounts!NoSession,
           Accounts!Enabled
  <1>8. PasswordsAreSet'
    BY DEF Accounts!ChangeRole, Accounts!Administers, Accounts!WithPrincipal, Accounts!NoMember,
           Accounts!AdminMember, Accounts!AnotherAdministrator, Accounts!Done,
           Accounts!NoRequest, Accounts!secrets, Accounts!links, Accounts!oauth, AccountsInv,
           PasswordsAreSet, CatalogTyped, Memberships, UserRows, SecretsTyped,
           Accounts!NoSession, Accounts!NoLink, Accounts!Enabled
  <1>9. Accounts!DefaultIsReachable'
    BY DEF Accounts!ChangeRole, Accounts!Administers, Accounts!WithPrincipal, Accounts!NoMember,
           Accounts!AdminMember, Accounts!AnotherAdministrator, Accounts!Done,
           Accounts!NoRequest, Accounts!secrets, Accounts!links, Accounts!oauth, AccountsInv,
           Accounts!DefaultIsReachable, Accounts!Enabled, CatalogTyped, Memberships, UserRows,
           Accounts!NoSession, Accounts!NoLink
  <1>10. Accounts!OAuthCanBeLeft'
    BY DEF Accounts!ChangeRole, Accounts!Administers, Accounts!WithPrincipal, Accounts!NoMember,
           Accounts!AdminMember, Accounts!AnotherAdministrator, Accounts!Done,
           Accounts!NoRequest, Accounts!secrets, Accounts!links, Accounts!oauth, AccountsInv,
           Accounts!OAuthCanBeLeft, Accounts!NoSession, Accounts!NoLink, OAuthTyped, Modes,
           Accounts!Enabled
  <1>11. QED
    BY <1>1, <1>2, <1>3, <1>4, <1>5, <1>6, <1>7, <1>8, <1>9, <1>10 DEF AccountsInv

LEMMA AccountsChangeAccess ==
    ASSUME Accounts!AccountsAssumption, AccountsInv, NEW r \in Requests, NEW w \in Workspaces,
           NEW u \in People, NEW a \in {"enabled", "disabled"}, Accounts!ChangeAccess(r, w, u, a)
    PROVE  AccountsInv'
  <1>1. CatalogTyped'
    BY DEF Accounts!ChangeAccess, Accounts!Administers, Accounts!WithPrincipal,
           Accounts!NoMember, Accounts!AnotherAdministrator, Accounts!AdminMember,
           Accounts!Revoked, Accounts!NoSession, Accounts!Undefaulted, Accounts!Done,
           Accounts!NoRequest, Accounts!secrets, Accounts!links, Accounts!oauth, AccountsInv,
           CatalogTyped, Memberships, UserRows, Accounts!NoLink, Accounts!Enabled
  <1>2. SecretsTyped'
    BY DEF Accounts!ChangeAccess, Accounts!Administers, Accounts!WithPrincipal,
           Accounts!NoMember, Accounts!AnotherAdministrator, Accounts!AdminMember,
           Accounts!Revoked, Accounts!NoSession, Accounts!Undefaulted, Accounts!Done,
           Accounts!NoRequest, Accounts!secrets, Accounts!links, Accounts!oauth, AccountsInv,
           SecretsTyped, Accounts!NoLink, Accounts!Enabled
  <1>3. SessionsTyped'
    BY DEF Accounts!ChangeAccess, Accounts!Administers, Accounts!WithPrincipal,
           Accounts!NoMember, Accounts!AnotherAdministrator, Accounts!AdminMember,
           Accounts!Revoked, Accounts!NoSession, Accounts!Undefaulted, Accounts!Done,
           Accounts!NoRequest, Accounts!secrets, Accounts!links, Accounts!oauth, AccountsInv,
           SessionsTyped, Seats, Accounts!NoLink, RequestsTyped, Principals, Logins, Switches,
           Setups, Changes, Accounts!Enabled
  <1>4. OAuthTyped'
    BY DEF Accounts!ChangeAccess, Accounts!Administers, Accounts!WithPrincipal,
           Accounts!NoMember, Accounts!AnotherAdministrator, Accounts!AdminMember,
           Accounts!Revoked, Accounts!NoSession, Accounts!Undefaulted, Accounts!Done,
           Accounts!NoRequest, Accounts!secrets, Accounts!links, Accounts!oauth, AccountsInv,
           OAuthTyped, Modes, Accounts!NoLink, Accounts!Enabled
  <1>5. RequestsTyped'
    BY DEF Accounts!ChangeAccess, Accounts!Administers, Accounts!WithPrincipal,
           Accounts!NoMember, Accounts!AnotherAdministrator, Accounts!AdminMember,
           Accounts!Revoked, Accounts!NoSession, Accounts!Undefaulted, Accounts!Done,
           Accounts!NoRequest, Accounts!secrets, Accounts!links, Accounts!oauth, AccountsInv,
           RequestsTyped, Principals, Logins, Switches, Setups, Changes, Accounts!NoLink,
           Accounts!Enabled
  <1>6. AdminIsIn'
    <2>1. user'[Admin].state = user[Admin].state
      BY UndefaultedIs DEF Accounts!AccountsAssumption, Accounts!ChangeAccess
    <2>2. /\ member' = [member EXCEPT ![u][w].access = a] /\ workspace' = workspace
          /\ workspace[w] = "active" /\ member[u][w].access # a /\ (a = "disabled" => u # Admin)
      BY DEF Accounts!ChangeAccess
    <2>3. u # Admin
      BY <2>2 DEF AccountsInv, AdminIsIn, Accounts!AdminMember
    <2>4. \A x \in Workspaces : member'[Admin][x] = member[Admin][x]
      BY <2>2, <2>3 DEF AccountsInv, CatalogTyped, Accounts!AccountsAssumption
    <2>5. QED
      BY <2>1, <2>2, <2>4 DEF AccountsInv, AdminIsIn, Accounts!AdminMember
  <1>7. LinksAreFresh'
    BY DEF Accounts!ChangeAccess, Accounts!Administers, Accounts!WithPrincipal,
           Accounts!NoMember, Accounts!AnotherAdministrator, Accounts!AdminMember,
           Accounts!Revoked, Accounts!NoSession, Accounts!Undefaulted, Accounts!Done,
           Accounts!NoRequest, Accounts!secrets, Accounts!links, Accounts!oauth, AccountsInv,
           LinksAreFresh, Accounts!NoLink, SessionsTyped, Seats, Accounts!Enabled
  <1>8. PasswordsAreSet'
    BY DEF Accounts!ChangeAccess, Accounts!Administers, Accounts!WithPrincipal,
           Accounts!NoMember, Accounts!AnotherAdministrator, Accounts!AdminMember,
           Accounts!Revoked, Accounts!NoSession, Accounts!Undefaulted, Accounts!Done,
           Accounts!NoRequest, Accounts!secrets, Accounts!links, Accounts!oauth, AccountsInv,
           PasswordsAreSet, CatalogTyped, Memberships, UserRows, SecretsTyped, Accounts!NoLink,
           Accounts!Enabled
  <1>9. Accounts!DefaultIsReachable'
    BY DEF Accounts!ChangeAccess, Accounts!Administers, Accounts!WithPrincipal,
           Accounts!NoMember, Accounts!AnotherAdministrator, Accounts!AdminMember,
           Accounts!Revoked, Accounts!NoSession, Accounts!Undefaulted, Accounts!Done,
           Accounts!NoRequest, Accounts!secrets, Accounts!links, Accounts!oauth, AccountsInv,
           Accounts!DefaultIsReachable, Accounts!Enabled, CatalogTyped, Memberships, UserRows,
           Accounts!NoLink
  <1>10. Accounts!OAuthCanBeLeft'
    BY DEF Accounts!ChangeAccess, Accounts!Administers, Accounts!WithPrincipal,
           Accounts!NoMember, Accounts!AnotherAdministrator, Accounts!AdminMember,
           Accounts!Revoked, Accounts!NoSession, Accounts!Undefaulted, Accounts!Done,
           Accounts!NoRequest, Accounts!secrets, Accounts!links, Accounts!oauth, AccountsInv,
           Accounts!OAuthCanBeLeft, Accounts!NoLink, OAuthTyped, Modes, Accounts!Enabled
  <1>11. QED
    BY <1>1, <1>2, <1>3, <1>4, <1>5, <1>6, <1>7, <1>8, <1>9, <1>10 DEF AccountsInv

LEMMA AccountsSetupReads ==
    ASSUME Accounts!AccountsAssumption, AccountsInv, NEW r \in Requests, NEW k \in Links,
           Accounts!SetupReads(r, k)
    PROVE  AccountsInv'
  <1>1. CatalogTyped'
    BY DEF Accounts!SetupReads, Accounts!Idle, Accounts!NoLink, Accounts!catalog,
           Accounts!secrets, Accounts!links, Accounts!oauth, AccountsInv, CatalogTyped,
           Memberships, Accounts!NoMember, UserRows, Accounts!NoSession, Accounts!NoRequest,
           Accounts!AdminMember, Accounts!Enabled
  <1>2. SecretsTyped'
    BY DEF Accounts!SetupReads, Accounts!Idle, Accounts!NoLink, Accounts!catalog,
           Accounts!secrets, Accounts!links, Accounts!oauth, AccountsInv, SecretsTyped,
           Accounts!NoMember, Accounts!NoSession, Accounts!NoRequest, Accounts!AdminMember,
           Accounts!Enabled
  <1>3. SessionsTyped'
    BY DEF Accounts!SetupReads, Accounts!Idle, Accounts!NoLink, Accounts!catalog,
           Accounts!secrets, Accounts!links, Accounts!oauth, AccountsInv, SessionsTyped, Seats,
           Accounts!NoSession, Accounts!NoMember, RequestsTyped, Accounts!NoRequest, Principals,
           Logins, Switches, Setups, Changes, Accounts!AdminMember, Accounts!Enabled
  <1>4. OAuthTyped'
    BY DEF Accounts!SetupReads, Accounts!Idle, Accounts!NoLink, Accounts!catalog,
           Accounts!secrets, Accounts!links, Accounts!oauth, AccountsInv, OAuthTyped, Modes,
           Accounts!NoMember, Accounts!NoSession, Accounts!NoRequest, Accounts!AdminMember,
           Accounts!Enabled
  <1>5. RequestsTyped'
    BY DEF Accounts!SetupReads, Accounts!Idle, Accounts!NoLink, Accounts!catalog,
           Accounts!secrets, Accounts!links, Accounts!oauth, AccountsInv, RequestsTyped,
           Accounts!NoRequest, Principals, Logins, Switches, Setups, Changes, Accounts!NoMember,
           Accounts!NoSession, Accounts!AdminMember, Accounts!Enabled
  <1>6. AdminIsIn'
    BY DEF Accounts!SetupReads, Accounts!Idle, Accounts!NoLink, Accounts!catalog,
           Accounts!secrets, Accounts!links, Accounts!oauth, AccountsInv, AdminIsIn,
           Accounts!AdminMember, CatalogTyped, Memberships, Accounts!NoMember, UserRows,
           Accounts!NoSession, Accounts!NoRequest, Accounts!Enabled
  <1>7. LinksAreFresh'
    BY DEF Accounts!SetupReads, Accounts!Idle, Accounts!NoLink, Accounts!catalog,
           Accounts!secrets, Accounts!links, Accounts!oauth, AccountsInv, LinksAreFresh,
           Accounts!NoMember, SessionsTyped, Seats, Accounts!NoSession, Accounts!NoRequest,
           Accounts!AdminMember, Accounts!Enabled
  <1>8. PasswordsAreSet'
    BY DEF Accounts!SetupReads, Accounts!Idle, Accounts!NoLink, Accounts!catalog,
           Accounts!secrets, Accounts!links, Accounts!oauth, AccountsInv, PasswordsAreSet,
           CatalogTyped, Memberships, Accounts!NoMember, UserRows, SecretsTyped,
           Accounts!NoSession, Accounts!NoRequest, Accounts!AdminMember, Accounts!Enabled
  <1>9. Accounts!DefaultIsReachable'
    BY DEF Accounts!SetupReads, Accounts!Idle, Accounts!NoLink, Accounts!catalog,
           Accounts!secrets, Accounts!links, Accounts!oauth, AccountsInv,
           Accounts!DefaultIsReachable, Accounts!Enabled, CatalogTyped, Memberships,
           Accounts!NoMember, UserRows, Accounts!NoSession, Accounts!NoRequest,
           Accounts!AdminMember
  <1>10. Accounts!OAuthCanBeLeft'
    BY DEF Accounts!SetupReads, Accounts!Idle, Accounts!NoLink, Accounts!catalog,
           Accounts!secrets, Accounts!links, Accounts!oauth, AccountsInv,
           Accounts!OAuthCanBeLeft, Accounts!NoMember, Accounts!NoSession, OAuthTyped, Modes,
           Accounts!NoRequest, Accounts!AdminMember, Accounts!Enabled
  <1>11. QED
    BY <1>1, <1>2, <1>3, <1>4, <1>5, <1>6, <1>7, <1>8, <1>9, <1>10 DEF AccountsInv

LEMMA AccountsCreatePasswordLink ==
    ASSUME Accounts!AccountsAssumption, AccountsInv, NEW r \in Requests, NEW u \in People,
           NEW k \in Links, Accounts!CreatePasswordLink(r, u, k)
    PROVE  AccountsInv'
  <1>1. CatalogTyped'
    BY DEF Accounts!CreatePasswordLink, Accounts!Global, Accounts!WithPrincipal,
           Accounts!NoLink, Accounts!Enabled, Accounts!Unlinked, Accounts!Done,
           Accounts!NoRequest, Accounts!catalog, Accounts!secrets, Accounts!oauth, AccountsInv,
           CatalogTyped, Memberships, Accounts!NoMember, UserRows, Accounts!NoSession,
           Accounts!AdminMember
  <1>2. SecretsTyped'
    BY DEF Accounts!CreatePasswordLink, Accounts!Global, Accounts!WithPrincipal,
           Accounts!NoLink, Accounts!Enabled, Accounts!Unlinked, Accounts!Done,
           Accounts!NoRequest, Accounts!catalog, Accounts!secrets, Accounts!oauth, AccountsInv,
           SecretsTyped, Accounts!NoMember, Accounts!NoSession, Accounts!AdminMember
  <1>3. SessionsTyped'
    BY DEF Accounts!CreatePasswordLink, Accounts!Global, Accounts!WithPrincipal,
           Accounts!NoLink, Accounts!Enabled, Accounts!Unlinked, Accounts!Done,
           Accounts!NoRequest, Accounts!catalog, Accounts!secrets, Accounts!oauth, AccountsInv,
           SessionsTyped, Seats, Accounts!NoSession, Accounts!NoMember, RequestsTyped,
           Principals, Logins, Switches, Setups, Changes, Accounts!AdminMember
  <1>4. OAuthTyped'
    BY DEF Accounts!CreatePasswordLink, Accounts!Global, Accounts!WithPrincipal,
           Accounts!NoLink, Accounts!Enabled, Accounts!Unlinked, Accounts!Done,
           Accounts!NoRequest, Accounts!catalog, Accounts!secrets, Accounts!oauth, AccountsInv,
           OAuthTyped, Modes, Accounts!NoMember, Accounts!NoSession, Accounts!AdminMember
  <1>5. RequestsTyped'
    BY DEF Accounts!CreatePasswordLink, Accounts!Global, Accounts!WithPrincipal,
           Accounts!NoLink, Accounts!Enabled, Accounts!Unlinked, Accounts!Done,
           Accounts!NoRequest, Accounts!catalog, Accounts!secrets, Accounts!oauth, AccountsInv,
           RequestsTyped, Principals, Logins, Switches, Setups, Changes, Accounts!NoMember,
           Accounts!NoSession, Accounts!AdminMember
  <1>6. AdminIsIn'
    BY DEF Accounts!CreatePasswordLink, Accounts!Global, Accounts!WithPrincipal,
           Accounts!NoLink, Accounts!Enabled, Accounts!Unlinked, Accounts!Done,
           Accounts!NoRequest, Accounts!catalog, Accounts!secrets, Accounts!oauth, AccountsInv,
           AdminIsIn, Accounts!AdminMember, CatalogTyped, Memberships, Accounts!NoMember,
           UserRows, Accounts!NoSession
  <1>7. LinksAreFresh'
    BY DEF Accounts!CreatePasswordLink, Accounts!Global, Accounts!WithPrincipal,
           Accounts!NoLink, Accounts!Enabled, Accounts!Unlinked, Accounts!Done,
           Accounts!NoRequest, Accounts!catalog, Accounts!secrets, Accounts!oauth, AccountsInv,
           LinksAreFresh, Accounts!NoMember, SessionsTyped, Seats, Accounts!NoSession,
           Accounts!AdminMember
  <1>8. PasswordsAreSet'
    BY DEF Accounts!CreatePasswordLink, Accounts!Global, Accounts!WithPrincipal,
           Accounts!NoLink, Accounts!Enabled, Accounts!Unlinked, Accounts!Done,
           Accounts!NoRequest, Accounts!catalog, Accounts!secrets, Accounts!oauth, AccountsInv,
           PasswordsAreSet, CatalogTyped, Memberships, Accounts!NoMember, UserRows,
           SecretsTyped, Accounts!NoSession, Accounts!AdminMember
  <1>9. Accounts!DefaultIsReachable'
    BY DEF Accounts!CreatePasswordLink, Accounts!Global, Accounts!WithPrincipal,
           Accounts!NoLink, Accounts!Enabled, Accounts!Unlinked, Accounts!Done,
           Accounts!NoRequest, Accounts!catalog, Accounts!secrets, Accounts!oauth, AccountsInv,
           Accounts!DefaultIsReachable, CatalogTyped, Memberships, Accounts!NoMember, UserRows,
           Accounts!NoSession, Accounts!AdminMember
  <1>10. Accounts!OAuthCanBeLeft'
    BY DEF Accounts!CreatePasswordLink, Accounts!Global, Accounts!WithPrincipal,
           Accounts!NoLink, Accounts!Enabled, Accounts!Unlinked, Accounts!Done,
           Accounts!NoRequest, Accounts!catalog, Accounts!secrets, Accounts!oauth, AccountsInv,
           Accounts!OAuthCanBeLeft, Accounts!NoMember, Accounts!NoSession, OAuthTyped, Modes,
           Accounts!AdminMember
  <1>11. QED
    BY <1>1, <1>2, <1>3, <1>4, <1>5, <1>6, <1>7, <1>8, <1>9, <1>10 DEF AccountsInv

LEMMA AccountsConfigureHostRecovery ==
    ASSUME Accounts!AccountsAssumption, AccountsInv, NEW r \in Requests, NEW e \in BOOLEAN,
           Accounts!ConfigureHostRecovery(r, e)
    PROVE  AccountsInv'
  <1>1. CatalogTyped'
    BY DEF Accounts!ConfigureHostRecovery, Accounts!Current, Accounts!Global,
           Accounts!WithPrincipal, Accounts!RecoveryAllowed, Accounts!Bumped, Accounts!Done,
           Accounts!NoRequest, Accounts!catalog, Accounts!secrets, Accounts!links, AccountsInv,
           CatalogTyped, Memberships, Accounts!NoMember, UserRows, Accounts!NoSession,
           Accounts!NoLink, Accounts!AdminMember, Accounts!Enabled
  <1>2. SecretsTyped'
    BY DEF Accounts!ConfigureHostRecovery, Accounts!Current, Accounts!Global,
           Accounts!WithPrincipal, Accounts!RecoveryAllowed, Accounts!Bumped, Accounts!Done,
           Accounts!NoRequest, Accounts!catalog, Accounts!secrets, Accounts!links, AccountsInv,
           SecretsTyped, Accounts!NoMember, Accounts!NoSession, Accounts!NoLink,
           Accounts!AdminMember, Accounts!Enabled
  <1>3. SessionsTyped'
    BY DEF Accounts!ConfigureHostRecovery, Accounts!Current, Accounts!Global,
           Accounts!WithPrincipal, Accounts!RecoveryAllowed, Accounts!Bumped, Accounts!Done,
           Accounts!NoRequest, Accounts!catalog, Accounts!secrets, Accounts!links, AccountsInv,
           SessionsTyped, Seats, Accounts!NoSession, Accounts!NoLink, Accounts!NoMember,
           RequestsTyped, Principals, Logins, Switches, Setups, Changes, Accounts!AdminMember,
           Accounts!Enabled
  <1>4. OAuthTyped'
    <2>1. PICK b \in Modes : b = Accounts!Bumped /\ b.mode = settings.mode /\ b.active = settings.active
      BY BumpedIs DEF Accounts!ConfigureHostRecovery, Accounts!Current
    <2>2. /\ [b EXCEPT !.recovery = e] \in Modes
          /\ [b EXCEPT !.recovery = e].mode = b.mode /\ [b EXCEPT !.recovery = e].active = b.active
      BY DEF Modes
    <2>3. settings' = [b EXCEPT !.recovery = e] /\ identity' = identity
      BY <2>1 DEF Accounts!ConfigureHostRecovery
    <2>4. QED
      BY <2>1, <2>2, <2>3 DEF AccountsInv, OAuthTyped
  <1>5. RequestsTyped'
    BY DEF Accounts!ConfigureHostRecovery, Accounts!Current, Accounts!Global,
           Accounts!WithPrincipal, Accounts!RecoveryAllowed, Accounts!Bumped, Accounts!Done,
           Accounts!NoRequest, Accounts!catalog, Accounts!secrets, Accounts!links, AccountsInv,
           RequestsTyped, Principals, Logins, Switches, Setups, Changes, Accounts!NoMember,
           Accounts!NoSession, Accounts!NoLink, Accounts!AdminMember, Accounts!Enabled
  <1>6. AdminIsIn'
    BY DEF Accounts!ConfigureHostRecovery, Accounts!Current, Accounts!Global,
           Accounts!WithPrincipal, Accounts!RecoveryAllowed, Accounts!Bumped, Accounts!Done,
           Accounts!NoRequest, Accounts!catalog, Accounts!secrets, Accounts!links, AccountsInv,
           AdminIsIn, Accounts!AdminMember, CatalogTyped, Memberships, Accounts!NoMember,
           UserRows, Accounts!NoSession, Accounts!NoLink, Accounts!Enabled
  <1>7. LinksAreFresh'
    BY DEF Accounts!ConfigureHostRecovery, Accounts!Current, Accounts!Global,
           Accounts!WithPrincipal, Accounts!RecoveryAllowed, Accounts!Bumped, Accounts!Done,
           Accounts!NoRequest, Accounts!catalog, Accounts!secrets, Accounts!links, AccountsInv,
           LinksAreFresh, Accounts!NoLink, Accounts!NoMember, SessionsTyped, Seats,
           Accounts!NoSession, Accounts!AdminMember, Accounts!Enabled
  <1>8. PasswordsAreSet'
    BY DEF Accounts!ConfigureHostRecovery, Accounts!Current, Accounts!Global,
           Accounts!WithPrincipal, Accounts!RecoveryAllowed, Accounts!Bumped, Accounts!Done,
           Accounts!NoRequest, Accounts!catalog, Accounts!secrets, Accounts!links, AccountsInv,
           PasswordsAreSet, CatalogTyped, Memberships, Accounts!NoMember, UserRows,
           SecretsTyped, Accounts!NoSession, Accounts!NoLink, Accounts!AdminMember,
           Accounts!Enabled
  <1>9. Accounts!DefaultIsReachable'
    BY DEF Accounts!ConfigureHostRecovery, Accounts!Current, Accounts!Global,
           Accounts!WithPrincipal, Accounts!RecoveryAllowed, Accounts!Bumped, Accounts!Done,
           Accounts!NoRequest, Accounts!catalog, Accounts!secrets, Accounts!links, AccountsInv,
           Accounts!DefaultIsReachable, Accounts!Enabled, CatalogTyped, Memberships,
           Accounts!NoMember, UserRows, Accounts!NoSession, Accounts!NoLink,
           Accounts!AdminMember
  <1>10. Accounts!OAuthCanBeLeft'
    BY DEF Accounts!ConfigureHostRecovery, Accounts!Current, Accounts!Global,
           Accounts!WithPrincipal, Accounts!RecoveryAllowed, Accounts!Bumped, Accounts!Done,
           Accounts!NoRequest, Accounts!catalog, Accounts!secrets, Accounts!links, AccountsInv,
           Accounts!OAuthCanBeLeft, Accounts!NoMember, Accounts!NoSession, Accounts!NoLink,
           OAuthTyped, Modes, Accounts!AdminMember, Accounts!Enabled
  <1>11. QED
    BY <1>1, <1>2, <1>3, <1>4, <1>5, <1>6, <1>7, <1>8, <1>9, <1>10 DEF AccountsInv

LEMMA AccountsStage ==
    ASSUME Accounts!AccountsAssumption, AccountsInv, NEW r \in Requests,
           NEW c \in Configurations, Accounts!Stage(r, c)
    PROVE  AccountsInv'
  <1>1. CatalogTyped'
    BY DEF Accounts!Stage, Accounts!Current, Accounts!Global, Accounts!WithPrincipal,
           Accounts!Bumped, Accounts!Done, Accounts!NoRequest, Accounts!catalog,
           Accounts!secrets, Accounts!links, AccountsInv, CatalogTyped, Memberships,
           Accounts!NoMember, UserRows, Accounts!NoSession, Accounts!NoLink,
           Accounts!AdminMember, Accounts!Enabled
  <1>2. SecretsTyped'
    BY DEF Accounts!Stage, Accounts!Current, Accounts!Global, Accounts!WithPrincipal,
           Accounts!Bumped, Accounts!Done, Accounts!NoRequest, Accounts!catalog,
           Accounts!secrets, Accounts!links, AccountsInv, SecretsTyped, Accounts!NoMember,
           Accounts!NoSession, Accounts!NoLink, Accounts!AdminMember, Accounts!Enabled
  <1>3. SessionsTyped'
    BY DEF Accounts!Stage, Accounts!Current, Accounts!Global, Accounts!WithPrincipal,
           Accounts!Bumped, Accounts!Done, Accounts!NoRequest, Accounts!catalog,
           Accounts!secrets, Accounts!links, AccountsInv, SessionsTyped, Seats,
           Accounts!NoSession, Accounts!NoLink, Accounts!NoMember, RequestsTyped, Principals,
           Logins, Switches, Setups, Changes, Accounts!AdminMember, Accounts!Enabled
  <1>4. OAuthTyped'
    <2>1. PICK b \in Modes : b = Accounts!Bumped /\ b.mode = settings.mode /\ b.active = settings.active
      BY BumpedIs DEF Accounts!Stage, Accounts!Current
    <2>2. /\ [b EXCEPT !.staged = c] \in Modes
          /\ [b EXCEPT !.staged = c].mode = b.mode /\ [b EXCEPT !.staged = c].active = b.active
      BY DEF Modes
    <2>3. settings' = [b EXCEPT !.staged = c] /\ identity' = identity
      BY <2>1, <2>2 DEF Accounts!Stage
    <2>4. QED
      BY <2>1, <2>2, <2>3 DEF AccountsInv, OAuthTyped
  <1>5. RequestsTyped'
    BY DEF Accounts!Stage, Accounts!Current, Accounts!Global, Accounts!WithPrincipal,
           Accounts!Bumped, Accounts!Done, Accounts!NoRequest, Accounts!catalog,
           Accounts!secrets, Accounts!links, AccountsInv, RequestsTyped, Principals, Logins,
           Switches, Setups, Changes, Accounts!NoMember, Accounts!NoSession, Accounts!NoLink,
           Accounts!AdminMember, Accounts!Enabled
  <1>6. AdminIsIn'
    BY DEF Accounts!Stage, Accounts!Current, Accounts!Global, Accounts!WithPrincipal,
           Accounts!Bumped, Accounts!Done, Accounts!NoRequest, Accounts!catalog,
           Accounts!secrets, Accounts!links, AccountsInv, AdminIsIn, Accounts!AdminMember,
           CatalogTyped, Memberships, Accounts!NoMember, UserRows, Accounts!NoSession,
           Accounts!NoLink, Accounts!Enabled
  <1>7. LinksAreFresh'
    BY DEF Accounts!Stage, Accounts!Current, Accounts!Global, Accounts!WithPrincipal,
           Accounts!Bumped, Accounts!Done, Accounts!NoRequest, Accounts!catalog,
           Accounts!secrets, Accounts!links, AccountsInv, LinksAreFresh, Accounts!NoLink,
           Accounts!NoMember, SessionsTyped, Seats, Accounts!NoSession, Accounts!AdminMember,
           Accounts!Enabled
  <1>8. PasswordsAreSet'
    BY DEF Accounts!Stage, Accounts!Current, Accounts!Global, Accounts!WithPrincipal,
           Accounts!Bumped, Accounts!Done, Accounts!NoRequest, Accounts!catalog,
           Accounts!secrets, Accounts!links, AccountsInv, PasswordsAreSet, CatalogTyped,
           Memberships, Accounts!NoMember, UserRows, SecretsTyped, Accounts!NoSession,
           Accounts!NoLink, Accounts!AdminMember, Accounts!Enabled
  <1>9. Accounts!DefaultIsReachable'
    BY DEF Accounts!Stage, Accounts!Current, Accounts!Global, Accounts!WithPrincipal,
           Accounts!Bumped, Accounts!Done, Accounts!NoRequest, Accounts!catalog,
           Accounts!secrets, Accounts!links, AccountsInv, Accounts!DefaultIsReachable,
           Accounts!Enabled, CatalogTyped, Memberships, Accounts!NoMember, UserRows,
           Accounts!NoSession, Accounts!NoLink, Accounts!AdminMember
  <1>10. Accounts!OAuthCanBeLeft'
    BY DEF Accounts!Stage, Accounts!Current, Accounts!Global, Accounts!WithPrincipal,
           Accounts!Bumped, Accounts!Done, Accounts!NoRequest, Accounts!catalog,
           Accounts!secrets, Accounts!links, AccountsInv, Accounts!OAuthCanBeLeft,
           Accounts!NoMember, Accounts!NoSession, Accounts!NoLink, OAuthTyped, Modes,
           Accounts!AdminMember, Accounts!Enabled
  <1>11. QED
    BY <1>1, <1>2, <1>3, <1>4, <1>5, <1>6, <1>7, <1>8, <1>9, <1>10 DEF AccountsInv

LEMMA AccountsLinkIdentity ==
    ASSUME Accounts!AccountsAssumption, AccountsInv, NEW r \in Requests,
           NEW c \in Configurations, NEW u \in People, Accounts!LinkIdentity(r, c, u)
    PROVE  AccountsInv'
  <1>1. CatalogTyped'
    BY DEF Accounts!LinkIdentity, Accounts!Global, Accounts!WithPrincipal, Accounts!Done,
           Accounts!NoRequest, Accounts!catalog, Accounts!secrets, Accounts!links, AccountsInv,
           CatalogTyped, Memberships, Accounts!NoMember, UserRows, Accounts!NoSession,
           Accounts!NoLink, Accounts!AdminMember, Accounts!Enabled
  <1>2. SecretsTyped'
    BY DEF Accounts!LinkIdentity, Accounts!Global, Accounts!WithPrincipal, Accounts!Done,
           Accounts!NoRequest, Accounts!catalog, Accounts!secrets, Accounts!links, AccountsInv,
           SecretsTyped, Accounts!NoMember, Accounts!NoSession, Accounts!NoLink,
           Accounts!AdminMember, Accounts!Enabled
  <1>3. SessionsTyped'
    BY DEF Accounts!LinkIdentity, Accounts!Global, Accounts!WithPrincipal, Accounts!Done,
           Accounts!NoRequest, Accounts!catalog, Accounts!secrets, Accounts!links, AccountsInv,
           SessionsTyped, Seats, Accounts!NoSession, Accounts!NoLink, Accounts!NoMember,
           RequestsTyped, Principals, Logins, Switches, Setups, Changes, Accounts!AdminMember,
           Accounts!Enabled
  <1>4. OAuthTyped'
    BY DEF Accounts!LinkIdentity, Accounts!Global, Accounts!WithPrincipal, Accounts!Done,
           Accounts!NoRequest, Accounts!catalog, Accounts!secrets, Accounts!links, AccountsInv,
           OAuthTyped, Modes, Accounts!NoMember, Accounts!NoSession, Accounts!NoLink,
           Accounts!AdminMember, Accounts!Enabled
  <1>5. RequestsTyped'
    BY DEF Accounts!LinkIdentity, Accounts!Global, Accounts!WithPrincipal, Accounts!Done,
           Accounts!NoRequest, Accounts!catalog, Accounts!secrets, Accounts!links, AccountsInv,
           RequestsTyped, Principals, Logins, Switches, Setups, Changes, Accounts!NoMember,
           Accounts!NoSession, Accounts!NoLink, Accounts!AdminMember, Accounts!Enabled
  <1>6. AdminIsIn'
    BY DEF Accounts!LinkIdentity, Accounts!Global, Accounts!WithPrincipal, Accounts!Done,
           Accounts!NoRequest, Accounts!catalog, Accounts!secrets, Accounts!links, AccountsInv,
           AdminIsIn, Accounts!AdminMember, CatalogTyped, Memberships, Accounts!NoMember,
           UserRows, Accounts!NoSession, Accounts!NoLink, Accounts!Enabled
  <1>7. LinksAreFresh'
    BY DEF Accounts!LinkIdentity, Accounts!Global, Accounts!WithPrincipal, Accounts!Done,
           Accounts!NoRequest, Accounts!catalog, Accounts!secrets, Accounts!links, AccountsInv,
           LinksAreFresh, Accounts!NoLink, Accounts!NoMember, SessionsTyped, Seats,
           Accounts!NoSession, Accounts!AdminMember, Accounts!Enabled
  <1>8. PasswordsAreSet'
    BY DEF Accounts!LinkIdentity, Accounts!Global, Accounts!WithPrincipal, Accounts!Done,
           Accounts!NoRequest, Accounts!catalog, Accounts!secrets, Accounts!links, AccountsInv,
           PasswordsAreSet, CatalogTyped, Memberships, Accounts!NoMember, UserRows,
           SecretsTyped, Accounts!NoSession, Accounts!NoLink, Accounts!AdminMember,
           Accounts!Enabled
  <1>9. Accounts!DefaultIsReachable'
    BY DEF Accounts!LinkIdentity, Accounts!Global, Accounts!WithPrincipal, Accounts!Done,
           Accounts!NoRequest, Accounts!catalog, Accounts!secrets, Accounts!links, AccountsInv,
           Accounts!DefaultIsReachable, Accounts!Enabled, CatalogTyped, Memberships,
           Accounts!NoMember, UserRows, Accounts!NoSession, Accounts!NoLink,
           Accounts!AdminMember
  <1>10. Accounts!OAuthCanBeLeft'
    BY DEF Accounts!LinkIdentity, Accounts!Global, Accounts!WithPrincipal, Accounts!Done,
           Accounts!NoRequest, Accounts!catalog, Accounts!secrets, Accounts!links, AccountsInv,
           Accounts!OAuthCanBeLeft, Accounts!NoMember, Accounts!NoSession, Accounts!NoLink,
           OAuthTyped, Modes, Accounts!AdminMember, Accounts!Enabled
  <1>11. QED
    BY <1>1, <1>2, <1>3, <1>4, <1>5, <1>6, <1>7, <1>8, <1>9, <1>10 DEF AccountsInv

LEMMA AccountsUnlinkIdentity ==
    ASSUME Accounts!AccountsAssumption, AccountsInv, NEW r \in Requests,
           NEW c \in Configurations, NEW u \in People, Accounts!UnlinkIdentity(r, c, u)
    PROVE  AccountsInv'
  <1>1. CatalogTyped'
    BY DEF Accounts!UnlinkIdentity, Accounts!Global, Accounts!WithPrincipal,
           Accounts!SafeRemoval, Accounts!LinkedAdministrator, Accounts!Enabled, Accounts!Done,
           Accounts!NoRequest, Accounts!catalog, Accounts!secrets, Accounts!links, AccountsInv,
           CatalogTyped, Memberships, Accounts!NoMember, UserRows, Accounts!NoSession,
           Accounts!NoLink, Accounts!AdminMember
  <1>2. SecretsTyped'
    BY DEF Accounts!UnlinkIdentity, Accounts!Global, Accounts!WithPrincipal,
           Accounts!SafeRemoval, Accounts!LinkedAdministrator, Accounts!Enabled, Accounts!Done,
           Accounts!NoRequest, Accounts!catalog, Accounts!secrets, Accounts!links, AccountsInv,
           SecretsTyped, Accounts!NoMember, Accounts!NoSession, Accounts!NoLink,
           Accounts!AdminMember
  <1>3. SessionsTyped'
    BY DEF Accounts!UnlinkIdentity, Accounts!Global, Accounts!WithPrincipal,
           Accounts!SafeRemoval, Accounts!LinkedAdministrator, Accounts!Enabled, Accounts!Done,
           Accounts!NoRequest, Accounts!catalog, Accounts!secrets, Accounts!links, AccountsInv,
           SessionsTyped, Seats, Accounts!NoSession, Accounts!NoLink, Accounts!NoMember,
           RequestsTyped, Principals, Logins, Switches, Setups, Changes, Accounts!AdminMember
  <1>4. OAuthTyped'
    BY DEF Accounts!UnlinkIdentity, Accounts!Global, Accounts!WithPrincipal,
           Accounts!SafeRemoval, Accounts!LinkedAdministrator, Accounts!Enabled, Accounts!Done,
           Accounts!NoRequest, Accounts!catalog, Accounts!secrets, Accounts!links, AccountsInv,
           OAuthTyped, Modes, Accounts!NoMember, Accounts!NoSession, Accounts!NoLink,
           Accounts!AdminMember
  <1>5. RequestsTyped'
    BY DEF Accounts!UnlinkIdentity, Accounts!Global, Accounts!WithPrincipal,
           Accounts!SafeRemoval, Accounts!LinkedAdministrator, Accounts!Enabled, Accounts!Done,
           Accounts!NoRequest, Accounts!catalog, Accounts!secrets, Accounts!links, AccountsInv,
           RequestsTyped, Principals, Logins, Switches, Setups, Changes, Accounts!NoMember,
           Accounts!NoSession, Accounts!NoLink, Accounts!AdminMember
  <1>6. AdminIsIn'
    BY DEF Accounts!UnlinkIdentity, Accounts!Global, Accounts!WithPrincipal,
           Accounts!SafeRemoval, Accounts!LinkedAdministrator, Accounts!Enabled, Accounts!Done,
           Accounts!NoRequest, Accounts!catalog, Accounts!secrets, Accounts!links, AccountsInv,
           AdminIsIn, Accounts!AdminMember, CatalogTyped, Memberships, Accounts!NoMember,
           UserRows, Accounts!NoSession, Accounts!NoLink
  <1>7. LinksAreFresh'
    BY DEF Accounts!UnlinkIdentity, Accounts!Global, Accounts!WithPrincipal,
           Accounts!SafeRemoval, Accounts!LinkedAdministrator, Accounts!Enabled, Accounts!Done,
           Accounts!NoRequest, Accounts!catalog, Accounts!secrets, Accounts!links, AccountsInv,
           LinksAreFresh, Accounts!NoLink, Accounts!NoMember, SessionsTyped, Seats,
           Accounts!NoSession, Accounts!AdminMember
  <1>8. PasswordsAreSet'
    BY DEF Accounts!UnlinkIdentity, Accounts!Global, Accounts!WithPrincipal,
           Accounts!SafeRemoval, Accounts!LinkedAdministrator, Accounts!Enabled, Accounts!Done,
           Accounts!NoRequest, Accounts!catalog, Accounts!secrets, Accounts!links, AccountsInv,
           PasswordsAreSet, CatalogTyped, Memberships, Accounts!NoMember, UserRows,
           SecretsTyped, Accounts!NoSession, Accounts!NoLink, Accounts!AdminMember
  <1>9. Accounts!DefaultIsReachable'
    BY DEF Accounts!UnlinkIdentity, Accounts!Global, Accounts!WithPrincipal,
           Accounts!SafeRemoval, Accounts!LinkedAdministrator, Accounts!Enabled, Accounts!Done,
           Accounts!NoRequest, Accounts!catalog, Accounts!secrets, Accounts!links, AccountsInv,
           Accounts!DefaultIsReachable, CatalogTyped, Memberships, Accounts!NoMember, UserRows,
           Accounts!NoSession, Accounts!NoLink, Accounts!AdminMember
  <1>10. Accounts!OAuthCanBeLeft'
    BY DEF Accounts!UnlinkIdentity, Accounts!Global, Accounts!WithPrincipal,
           Accounts!SafeRemoval, Accounts!LinkedAdministrator, Accounts!Enabled, Accounts!Done,
           Accounts!NoRequest, Accounts!catalog, Accounts!secrets, Accounts!links, AccountsInv,
           Accounts!OAuthCanBeLeft, Accounts!NoMember, Accounts!NoSession, Accounts!NoLink,
           OAuthTyped, Modes, Accounts!AdminMember
  <1>11. QED
    BY <1>1, <1>2, <1>3, <1>4, <1>5, <1>6, <1>7, <1>8, <1>9, <1>10 DEF AccountsInv

LEMMA AccountsSessionExpires ==
    ASSUME Accounts!AccountsAssumption, AccountsInv, NEW s \in Sessions,
           Accounts!SessionExpires(s)
    PROVE  AccountsInv'
  <1>1. CatalogTyped'
    BY DEF Accounts!SessionExpires, Accounts!NoSession, Accounts!catalog, Accounts!secrets,
           Accounts!links, Accounts!oauth, AccountsInv, CatalogTyped, Memberships,
           Accounts!NoMember, UserRows, Accounts!NoLink, Accounts!NoRequest,
           Accounts!AdminMember, Accounts!Enabled
  <1>2. SecretsTyped'
    BY DEF Accounts!SessionExpires, Accounts!NoSession, Accounts!catalog, Accounts!secrets,
           Accounts!links, Accounts!oauth, AccountsInv, SecretsTyped, Accounts!NoMember,
           Accounts!NoLink, Accounts!NoRequest, Accounts!AdminMember, Accounts!Enabled
  <1>3. SessionsTyped'
    BY DEF Accounts!SessionExpires, Accounts!NoSession, Accounts!catalog, Accounts!secrets,
           Accounts!links, Accounts!oauth, AccountsInv, SessionsTyped, Seats, Accounts!NoLink,
           Accounts!NoMember, RequestsTyped, Accounts!NoRequest, Principals, Logins, Switches,
           Setups, Changes, Accounts!AdminMember, Accounts!Enabled
  <1>4. OAuthTyped'
    BY DEF Accounts!SessionExpires, Accounts!NoSession, Accounts!catalog, Accounts!secrets,
           Accounts!links, Accounts!oauth, AccountsInv, OAuthTyped, Modes, Accounts!NoMember,
           Accounts!NoLink, Accounts!NoRequest, Accounts!AdminMember, Accounts!Enabled
  <1>5. RequestsTyped'
    BY DEF Accounts!SessionExpires, Accounts!NoSession, Accounts!catalog, Accounts!secrets,
           Accounts!links, Accounts!oauth, AccountsInv, RequestsTyped, Accounts!NoRequest,
           Principals, Logins, Switches, Setups, Changes, Accounts!NoMember, Accounts!NoLink,
           Accounts!AdminMember, Accounts!Enabled
  <1>6. AdminIsIn'
    BY DEF Accounts!SessionExpires, Accounts!NoSession, Accounts!catalog, Accounts!secrets,
           Accounts!links, Accounts!oauth, AccountsInv, AdminIsIn, Accounts!AdminMember,
           CatalogTyped, Memberships, Accounts!NoMember, UserRows, Accounts!NoLink,
           Accounts!NoRequest, Accounts!Enabled
  <1>7. LinksAreFresh'
    BY DEF Accounts!SessionExpires, Accounts!NoSession, Accounts!catalog, Accounts!secrets,
           Accounts!links, Accounts!oauth, AccountsInv, LinksAreFresh, Accounts!NoLink,
           Accounts!NoMember, SessionsTyped, Seats, Accounts!NoRequest, Accounts!AdminMember,
           Accounts!Enabled
  <1>8. PasswordsAreSet'
    BY DEF Accounts!SessionExpires, Accounts!NoSession, Accounts!catalog, Accounts!secrets,
           Accounts!links, Accounts!oauth, AccountsInv, PasswordsAreSet, CatalogTyped,
           Memberships, Accounts!NoMember, UserRows, SecretsTyped, Accounts!NoLink,
           Accounts!NoRequest, Accounts!AdminMember, Accounts!Enabled
  <1>9. Accounts!DefaultIsReachable'
    BY DEF Accounts!SessionExpires, Accounts!NoSession, Accounts!catalog, Accounts!secrets,
           Accounts!links, Accounts!oauth, AccountsInv, Accounts!DefaultIsReachable,
           Accounts!Enabled, CatalogTyped, Memberships, Accounts!NoMember, UserRows,
           Accounts!NoLink, Accounts!NoRequest, Accounts!AdminMember
  <1>10. Accounts!OAuthCanBeLeft'
    BY DEF Accounts!SessionExpires, Accounts!NoSession, Accounts!catalog, Accounts!secrets,
           Accounts!links, Accounts!oauth, AccountsInv, Accounts!OAuthCanBeLeft,
           Accounts!NoMember, Accounts!NoLink, OAuthTyped, Modes, Accounts!NoRequest,
           Accounts!AdminMember, Accounts!Enabled
  <1>11. QED
    BY <1>1, <1>2, <1>3, <1>4, <1>5, <1>6, <1>7, <1>8, <1>9, <1>10 DEF AccountsInv

LEMMA AccountsLinkExpires ==
    ASSUME Accounts!AccountsAssumption, AccountsInv, NEW k \in Links, Accounts!LinkExpires(k)
    PROVE  AccountsInv'
  <1>1. CatalogTyped'
    BY DEF Accounts!LinkExpires, Accounts!NoLink, Accounts!catalog, Accounts!secrets,
           Accounts!oauth, AccountsInv, CatalogTyped, Memberships, Accounts!NoMember, UserRows,
           Accounts!NoSession, Accounts!NoRequest, Accounts!AdminMember, Accounts!Enabled
  <1>2. SecretsTyped'
    BY DEF Accounts!LinkExpires, Accounts!NoLink, Accounts!catalog, Accounts!secrets,
           Accounts!oauth, AccountsInv, SecretsTyped, Accounts!NoMember, Accounts!NoSession,
           Accounts!NoRequest, Accounts!AdminMember, Accounts!Enabled
  <1>3. SessionsTyped'
    BY DEF Accounts!LinkExpires, Accounts!NoLink, Accounts!catalog, Accounts!secrets,
           Accounts!oauth, AccountsInv, SessionsTyped, Seats, Accounts!NoSession,
           Accounts!NoMember, RequestsTyped, Accounts!NoRequest, Principals, Logins, Switches,
           Setups, Changes, Accounts!AdminMember, Accounts!Enabled
  <1>4. OAuthTyped'
    BY DEF Accounts!LinkExpires, Accounts!NoLink, Accounts!catalog, Accounts!secrets,
           Accounts!oauth, AccountsInv, OAuthTyped, Modes, Accounts!NoMember,
           Accounts!NoSession, Accounts!NoRequest, Accounts!AdminMember, Accounts!Enabled
  <1>5. RequestsTyped'
    BY DEF Accounts!LinkExpires, Accounts!NoLink, Accounts!catalog, Accounts!secrets,
           Accounts!oauth, AccountsInv, RequestsTyped, Accounts!NoRequest, Principals, Logins,
           Switches, Setups, Changes, Accounts!NoMember, Accounts!NoSession,
           Accounts!AdminMember, Accounts!Enabled
  <1>6. AdminIsIn'
    BY DEF Accounts!LinkExpires, Accounts!NoLink, Accounts!catalog, Accounts!secrets,
           Accounts!oauth, AccountsInv, AdminIsIn, Accounts!AdminMember, CatalogTyped,
           Memberships, Accounts!NoMember, UserRows, Accounts!NoSession, Accounts!NoRequest,
           Accounts!Enabled
  <1>7. LinksAreFresh'
    BY DEF Accounts!LinkExpires, Accounts!NoLink, Accounts!catalog, Accounts!secrets,
           Accounts!oauth, AccountsInv, LinksAreFresh, Accounts!NoMember, SessionsTyped, Seats,
           Accounts!NoSession, Accounts!NoRequest, Accounts!AdminMember, Accounts!Enabled
  <1>8. PasswordsAreSet'
    BY DEF Accounts!LinkExpires, Accounts!NoLink, Accounts!catalog, Accounts!secrets,
           Accounts!oauth, AccountsInv, PasswordsAreSet, CatalogTyped, Memberships,
           Accounts!NoMember, UserRows, SecretsTyped, Accounts!NoSession, Accounts!NoRequest,
           Accounts!AdminMember, Accounts!Enabled
  <1>9. Accounts!DefaultIsReachable'
    BY DEF Accounts!LinkExpires, Accounts!NoLink, Accounts!catalog, Accounts!secrets,
           Accounts!oauth, AccountsInv, Accounts!DefaultIsReachable, Accounts!Enabled,
           CatalogTyped, Memberships, Accounts!NoMember, UserRows, Accounts!NoSession,
           Accounts!NoRequest, Accounts!AdminMember
  <1>10. Accounts!OAuthCanBeLeft'
    BY DEF Accounts!LinkExpires, Accounts!NoLink, Accounts!catalog, Accounts!secrets,
           Accounts!oauth, AccountsInv, Accounts!OAuthCanBeLeft, Accounts!NoMember,
           Accounts!NoSession, OAuthTyped, Modes, Accounts!NoRequest, Accounts!AdminMember,
           Accounts!Enabled
  <1>11. QED
    BY <1>1, <1>2, <1>3, <1>4, <1>5, <1>6, <1>7, <1>8, <1>9, <1>10 DEF AccountsInv

LEMMA AccountsRecoverLocalAuthentication ==
    ASSUME Accounts!AccountsAssumption, AccountsInv, Accounts!RecoverLocalAuthentication
    PROVE  AccountsInv'
  <1>1. CatalogTyped'
    BY DEF Accounts!RecoverLocalAuthentication, Accounts!ToLocal, Accounts!Bumped,
           Accounts!NoSession, Accounts!catalog, Accounts!secrets, Accounts!links, AccountsInv,
           CatalogTyped, Memberships, Accounts!NoMember, UserRows, Accounts!NoLink,
           Accounts!NoRequest, Accounts!AdminMember, Accounts!Enabled
  <1>2. SecretsTyped'
    BY DEF Accounts!RecoverLocalAuthentication, Accounts!ToLocal, Accounts!Bumped,
           Accounts!NoSession, Accounts!catalog, Accounts!secrets, Accounts!links, AccountsInv,
           SecretsTyped, Accounts!NoMember, Accounts!NoLink, Accounts!NoRequest,
           Accounts!AdminMember, Accounts!Enabled
  <1>3. SessionsTyped'
    BY DEF Accounts!RecoverLocalAuthentication, Accounts!ToLocal, Accounts!Bumped,
           Accounts!NoSession, Accounts!catalog, Accounts!secrets, Accounts!links, AccountsInv,
           SessionsTyped, Seats, Accounts!NoLink, Accounts!NoMember, RequestsTyped,
           Accounts!NoRequest, Principals, Logins, Switches, Setups, Changes,
           Accounts!AdminMember, Accounts!Enabled
  <1>4. OAuthTyped'
    <2>1. settings' = Accounts!ToLocal /\ identity' = identity
      BY DEF Accounts!RecoverLocalAuthentication
    <2>2. /\ Accounts!ToLocal \in Modes
          /\ Accounts!ToLocal.mode = "local" /\ Accounts!ToLocal.active = None
      BY ToLocalIs DEF Accounts!RecoverLocalAuthentication
    <2>3. QED
      BY <2>1, <2>2 DEF AccountsInv, OAuthTyped
  <1>5. RequestsTyped'
    BY DEF Accounts!RecoverLocalAuthentication, Accounts!ToLocal, Accounts!Bumped,
           Accounts!NoSession, Accounts!catalog, Accounts!secrets, Accounts!links, AccountsInv,
           RequestsTyped, Accounts!NoRequest, Principals, Logins, Switches, Setups, Changes,
           Accounts!NoMember, Accounts!NoLink, Accounts!AdminMember, Accounts!Enabled
  <1>6. AdminIsIn'
    BY DEF Accounts!RecoverLocalAuthentication, Accounts!ToLocal, Accounts!Bumped,
           Accounts!NoSession, Accounts!catalog, Accounts!secrets, Accounts!links, AccountsInv,
           AdminIsIn, Accounts!AdminMember, CatalogTyped, Memberships, Accounts!NoMember,
           UserRows, Accounts!NoLink, Accounts!NoRequest, Accounts!Enabled
  <1>7. LinksAreFresh'
    BY DEF Accounts!RecoverLocalAuthentication, Accounts!ToLocal, Accounts!Bumped,
           Accounts!NoSession, Accounts!catalog, Accounts!secrets, Accounts!links, AccountsInv,
           LinksAreFresh, Accounts!NoLink, Accounts!NoMember, SessionsTyped, Seats,
           Accounts!NoRequest, Accounts!AdminMember, Accounts!Enabled
  <1>8. PasswordsAreSet'
    BY DEF Accounts!RecoverLocalAuthentication, Accounts!ToLocal, Accounts!Bumped,
           Accounts!NoSession, Accounts!catalog, Accounts!secrets, Accounts!links, AccountsInv,
           PasswordsAreSet, CatalogTyped, Memberships, Accounts!NoMember, UserRows,
           SecretsTyped, Accounts!NoLink, Accounts!NoRequest, Accounts!AdminMember,
           Accounts!Enabled
  <1>9. Accounts!DefaultIsReachable'
    BY DEF Accounts!RecoverLocalAuthentication, Accounts!ToLocal, Accounts!Bumped,
           Accounts!NoSession, Accounts!catalog, Accounts!secrets, Accounts!links, AccountsInv,
           Accounts!DefaultIsReachable, Accounts!Enabled, CatalogTyped, Memberships,
           Accounts!NoMember, UserRows, Accounts!NoLink, Accounts!NoRequest,
           Accounts!AdminMember
  <1>10. Accounts!OAuthCanBeLeft'
    BY DEF Accounts!RecoverLocalAuthentication, Accounts!ToLocal, Accounts!Bumped,
           Accounts!NoSession, Accounts!catalog, Accounts!secrets, Accounts!links, AccountsInv,
           Accounts!OAuthCanBeLeft, Accounts!NoMember, Accounts!NoLink, OAuthTyped, Modes,
           Accounts!NoRequest, Accounts!AdminMember, Accounts!Enabled
  <1>11. QED
    BY <1>1, <1>2, <1>3, <1>4, <1>5, <1>6, <1>7, <1>8, <1>9, <1>10 DEF AccountsInv

LEMMA AccountsStutter ==
    ASSUME Accounts!AccountsAssumption, AccountsInv, UNCHANGED Accounts!vars
    PROVE  AccountsInv'
  <1>1. CatalogTyped'
    BY DEF Accounts!vars, AccountsInv, CatalogTyped, Memberships, Accounts!NoMember, UserRows,
           Accounts!NoSession, Accounts!NoLink, Accounts!NoRequest, Accounts!AdminMember,
           Accounts!Enabled
  <1>2. SecretsTyped'
    BY DEF Accounts!vars, AccountsInv, SecretsTyped, Accounts!NoMember, Accounts!NoSession,
           Accounts!NoLink, Accounts!NoRequest, Accounts!AdminMember, Accounts!Enabled
  <1>3. SessionsTyped'
    BY DEF Accounts!vars, AccountsInv, SessionsTyped, Seats, Accounts!NoSession,
           Accounts!NoLink, Accounts!NoMember, RequestsTyped, Accounts!NoRequest, Principals,
           Logins, Switches, Setups, Changes, Accounts!AdminMember, Accounts!Enabled
  <1>4. OAuthTyped'
    BY DEF Accounts!vars, AccountsInv, OAuthTyped, Modes, Accounts!NoMember, Accounts!NoSession,
           Accounts!NoLink, Accounts!NoRequest, Accounts!AdminMember, Accounts!Enabled
  <1>5. RequestsTyped'
    BY DEF Accounts!vars, AccountsInv, RequestsTyped, Accounts!NoRequest, Principals, Logins,
           Switches, Setups, Changes, Accounts!NoMember, Accounts!NoSession, Accounts!NoLink,
           Accounts!AdminMember, Accounts!Enabled
  <1>6. AdminIsIn'
    BY DEF Accounts!vars, AccountsInv, AdminIsIn, Accounts!AdminMember, CatalogTyped,
           Memberships, Accounts!NoMember, UserRows, Accounts!NoSession, Accounts!NoLink,
           Accounts!NoRequest, Accounts!Enabled
  <1>7. LinksAreFresh'
    BY DEF Accounts!vars, AccountsInv, LinksAreFresh, Accounts!NoLink, Accounts!NoMember,
           SessionsTyped, Seats, Accounts!NoSession, Accounts!NoRequest, Accounts!AdminMember,
           Accounts!Enabled
  <1>8. PasswordsAreSet'
    BY DEF Accounts!vars, AccountsInv, PasswordsAreSet, CatalogTyped, Memberships,
           Accounts!NoMember, UserRows, SecretsTyped, Accounts!NoSession, Accounts!NoLink,
           Accounts!NoRequest, Accounts!AdminMember, Accounts!Enabled
  <1>9. Accounts!DefaultIsReachable'
    BY DEF Accounts!vars, AccountsInv, Accounts!DefaultIsReachable, Accounts!Enabled,
           CatalogTyped, Memberships, Accounts!NoMember, UserRows, Accounts!NoSession,
           Accounts!NoLink, Accounts!NoRequest, Accounts!AdminMember
  <1>10. Accounts!OAuthCanBeLeft'
    BY DEF Accounts!vars, AccountsInv, Accounts!OAuthCanBeLeft, Accounts!NoMember,
           Accounts!NoSession, Accounts!NoLink, OAuthTyped, Modes, Accounts!NoRequest,
           Accounts!AdminMember, Accounts!Enabled
  <1>11. QED
    BY <1>1, <1>2, <1>3, <1>4, <1>5, <1>6, <1>7, <1>8, <1>9, <1>10 DEF AccountsInv

LEMMA AccountsInit ==
    ASSUME Accounts!AccountsAssumption, Accounts!Init
    PROVE  AccountsInv
  <1>1. Accounts!NoMember \in Memberships /\ Accounts!AdminMember \in Memberships
    BY NothingIs DEF Memberships
  <1>2. CatalogTyped
    BY <1>1 DEF Accounts!Init, CatalogTyped, UserRows
  <1>3. SecretsTyped
    BY DEF Accounts!Init, SecretsTyped, Accounts!AccountsAssumption
  <1>4. SessionsTyped
    BY DEF Accounts!Init, SessionsTyped
  <1>5. OAuthTyped
    BY DEF Accounts!Init, OAuthTyped, Modes, Accounts!AccountsAssumption
  <1>6. RequestsTyped
    BY DEF Accounts!Init, RequestsTyped
  <1>7. AdminIsIn
    BY DEF Accounts!Init, AdminIsIn, Accounts!AccountsAssumption
  <1>8. LinksAreFresh /\ Accounts!OAuthCanBeLeft
    BY DEF Accounts!Init, LinksAreFresh, Accounts!OAuthCanBeLeft
  <1>9. PasswordsAreSet
    BY DEF Accounts!Init, PasswordsAreSet
  <1>10. Accounts!DefaultIsReachable
    BY DEF Accounts!Init, Accounts!DefaultIsReachable
  <1>11. QED
    BY <1>2, <1>3, <1>4, <1>5, <1>6, <1>7, <1>8, <1>9, <1>10 DEF AccountsInv

LEMMA AccountsStep ==
    ASSUME Accounts!AccountsAssumption, AccountsInv, [Accounts!Next]_(Accounts!vars)
    PROVE  AccountsInv'
  <1>1. ASSUME NEW r \in Requests,
               \/ Accounts!Rejected(r) \/ Accounts!SwitchUpdates(r) \/ Accounts!RevokeSession(r)
               \/ Accounts!ChangeReads(r) \/ Accounts!ChangeUpdates(r) \/ Accounts!Activate(r)
               \/ Accounts!Disable(r)
        PROVE  AccountsInv'
    BY <1>1, AccountsRejected, AccountsSwitchUpdates, AccountsRevokeSession, AccountsChangeReads,
       AccountsChangeUpdates, AccountsActivate, AccountsDisable
  <1>2. ASSUME NEW r \in Requests, NEW s \in Sessions,
               Accounts!LoginInserts(r, s) \/ Accounts!ReadSession(r, s) \/ Accounts!SetupCompletes(r, s)
        PROVE  AccountsInv'
    BY <1>2, AccountsLoginInserts, AccountsReadSession, AccountsSetupCompletes
  <1>3. ASSUME NEW r \in Requests, NEW u \in People, Accounts!LoginReads(r, u) \/ Accounts!CreateUser(r, u)
        PROVE  AccountsInv'
    BY <1>3, AccountsLoginReads, AccountsCreateUser
  <1>4. ASSUME NEW r \in Requests, NEW w \in Workspaces,
               \/ Accounts!CreateWorkspace(r, w) \/ Accounts!ArchiveWorkspace(r, w)
               \/ Accounts!SetDefault(r, w) \/ Accounts!SwitchChecks(r, w)
        PROVE  AccountsInv'
    BY <1>4, AccountsCreateWorkspace, AccountsArchiveWorkspace, AccountsSetDefault,
       AccountsSwitchChecks
  <1>5. ASSUME NEW r \in Requests, NEW w \in Workspaces, NEW u \in People,
               Accounts!ReadToken(r, u, w) \/ Accounts!RemoveMember(r, w, u)
        PROVE  AccountsInv'
    BY <1>5, AccountsReadToken, AccountsRemoveMember
  <1>6. ASSUME NEW r \in Requests, NEW w \in Workspaces, NEW u \in People, NEW o \in {"admin", "member"},
               Accounts!AddMember(r, w, u, o) \/ Accounts!ChangeRole(r, w, u, o)
        PROVE  AccountsInv'
    BY <1>6, AccountsAddMember, AccountsChangeRole
  <1>7. ASSUME NEW r \in Requests, NEW w \in Workspaces, NEW u \in People, NEW a \in {"enabled", "disabled"},
               Accounts!ChangeAccess(r, w, u, a)
        PROVE  AccountsInv'
    BY <1>7, AccountsChangeAccess
  <1>8. ASSUME NEW r \in Requests, NEW k \in Links,
               Accounts!SetupReads(r, k) \/ \E u \in People : Accounts!CreatePasswordLink(r, u, k)
        PROVE  AccountsInv'
    BY <1>8, AccountsSetupReads, AccountsCreatePasswordLink
  <1>9. ASSUME NEW r \in Requests, NEW c \in Configurations,
               \/ Accounts!Stage(r, c)
               \/ \E u \in People : Accounts!LinkIdentity(r, c, u) \/ Accounts!UnlinkIdentity(r, c, u)
        PROVE  AccountsInv'
    BY <1>9, AccountsStage, AccountsLinkIdentity, AccountsUnlinkIdentity
  <1>10. ASSUME NEW r \in Requests, NEW e \in BOOLEAN, Accounts!ConfigureHostRecovery(r, e)
         PROVE  AccountsInv'
    BY <1>10, AccountsConfigureHostRecovery
  <1>11. CASE \E s \in Sessions : Accounts!SessionExpires(s)
    BY <1>11, AccountsSessionExpires
  <1>12. CASE \E k \in Links : Accounts!LinkExpires(k)
    BY <1>12, AccountsLinkExpires
  <1>13. CASE Accounts!RecoverLocalAuthentication \/ UNCHANGED Accounts!vars
    BY <1>13, AccountsRecoverLocalAuthentication, AccountsStutter
  <1>14. QED
    BY <1>1, <1>2, <1>3, <1>4, <1>5, <1>6, <1>7, <1>8, <1>9, <1>10, <1>11, <1>12, <1>13
    DEF Accounts!Next

LEMMA AccountsAlways ==
    ASSUME Accounts!AccountsAssumption
    PROVE  Accounts!Spec => []AccountsInv
  <1>1. Accounts!Init => AccountsInv
    BY AccountsInit
  <1>2. AccountsInv /\ [Accounts!Next]_(Accounts!vars) => AccountsInv'
    BY AccountsStep
  <1>3. QED
    BY <1>1, <1>2, PTL DEF Accounts!Spec

\* Every active workspace has an active administrator, and a default workspace is one its
\* user can enter, whatever administrators with principals of the past do to each other, to
\* themselves and to the workspaces (requireAnotherAdministrator, setDefaultWorkspace).
THEOREM WorkspacesStayAdministered ==
    ASSUME Accounts!AccountsAssumption
    PROVE  Accounts!Spec => [](/\ Accounts!TypeOK
                               /\ Accounts!AdministratorRemains
                               /\ Accounts!DefaultIsReachable)
  <1>1. ASSUME AccountsInv
        PROVE  Accounts!TypeOK /\ Accounts!AdministratorRemains /\ Accounts!DefaultIsReachable
    <2>1. \A w \in Workspaces : workspace[w] \in {"none", "active", "archived"}
      BY <1>1 DEF AccountsInv, CatalogTyped
    <2>2. ASSUME NEW u \in People
          PROVE  /\ user[u].state \in {"none", "pending", "active"}
                 /\ user[u].default \in Workspaces \cup {None}
                 /\ \A w \in Workspaces :
                       \/ member[u][w] = Accounts!NoMember
                       \/ member[u][w] \in [role : {"admin", "member"}, access : {"enabled", "disabled"}]
                 /\ credential[u] \in 0 .. passwords
      BY <1>1 DEF AccountsInv, CatalogTyped, UserRows, Memberships, SecretsTyped
    <2>3. /\ \A s \in Sessions :
                session[s] = Accounts!NoSession \/ session[s] \in [user : People, workspace : Workspaces]
          /\ \A k \in Links :
                link[k] = Accounts!NoLink \/ link[k] \in [user : People, workspace : Workspaces]
      BY <1>1 DEF AccountsInv, SessionsTyped, Seats
    <2>4. settings.mode = "oauth" <=> settings.active # None
      BY <1>1 DEF AccountsInv, OAuthTyped
    <2>5. settings.version \in 1 .. MaxVersion /\ passwords <= MaxPasswords
      BY <1>1 DEF AccountsInv, OAuthTyped, Modes, SecretsTyped
    <2>6. Accounts!TypeOK
      BY <2>1, <2>2, <2>3, <2>4, <2>5, Zenon DEF Accounts!TypeOK
    <2>7. Accounts!AdministratorRemains
      BY <1>1 DEF AccountsInv, AdminIsIn, Accounts!AdministratorRemains, Accounts!AccountsAssumption
    <2>8. QED
      BY <1>1, <2>6, <2>7 DEF AccountsInv
  <1>2. QED
    BY <1>1, AccountsAlways, PTL

\* A password link is used once, and at most one link of a user can be used, whatever
\* requests complete the same link at the same time (completePasswordSetup decides again
\* inside its transaction).
THEOREM PasswordLinksAreUsedOnce ==
    ASSUME Accounts!AccountsAssumption
    PROVE  Accounts!Spec => []Accounts!LinksAreUsedOnce
  <1>1. ASSUME AccountsInv
        PROVE  Accounts!LinksAreUsedOnce
    <2>1. \A k \in Links : used[k] <= 1
      BY <1>1 DEF AccountsInv, SessionsTyped
    <2>2. QED
      BY <1>1, <2>1 DEF AccountsInv, LinksAreFresh, Accounts!LinksAreUsedOnce
  <1>2. QED
    BY <1>1, AccountsAlways, PTL

\* While OAuth is active the host operator can return to local mode and a linked global
\* administrator can sign in (RecoveryAllowed and SafeRemoval under the settings' lock).
THEOREM OAuthIsNoTrap ==
    ASSUME Accounts!AccountsAssumption
    PROVE  Accounts!Spec => []Accounts!OAuthCanBeLeft
  <1>1. AccountsInv => Accounts!OAuthCanBeLeft
    BY DEF AccountsInv
  <1>2. QED
    BY <1>1, AccountsAlways, PTL

\* Without OAuth, which alone makes a user active who has no password, the password a user
\* was told is set is the one that is stored: no setup and no change overwrites another
\* that it has not read.
THEOREM ToldPasswordsAreStored ==
    ASSUME Accounts!AccountsAssumption, Configurations = {}
    PROVE  Accounts!Spec => []Accounts!PasswordIsStored
  <1>1. AccountsInv => Accounts!PasswordIsStored
    BY DEF AccountsInv, PasswordsAreSet, Accounts!PasswordIsStored
  <1>2. QED
    BY <1>1, AccountsAlways, PTL
===============================================================================

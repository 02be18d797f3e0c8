---------------------------- MODULE PluginProofs ----------------------------
(***************************************************************************)
(* Theorems about Plugin: what is left in the compositor after any load    *)
(* and unload, that peers which heed the end neither dangle nor pin the    *)
(* library, and that each peer has the rects it asked for.                 *)
(***************************************************************************)
EXTENDS Plugin, FiniteSetTheorems, TLAPS

Types ==
    /\ phase \in {"out", "in", "leaving"}
    /\ held \subseteq Registered \union Timers \union {"zoom"}
    /\ gone \union tell \subseteq [client : Nat, peer : Peers]
    /\ bound \subseteq Peers /\ pins \subseteq bound
    /\ id \in [Peers -> Nat]
    /\ nextId \in Nat

\* While the callbacks are called, only the core and the configuration are left.
Stripped == phase = "leaving" => held \subseteq {"core", "config"}

LeftInv == Types /\ Stripped /\ NothingLeft

\* The clean-up until the callbacks, for either caller (cleanupAll).
LEMMA CleanUpStrips ==
    ASSUME NEW all \in SUBSET (Registered \union Timers \union {"zoom"}),
           LeftInv, CleanUp(all)
    PROVE  /\ held' \subseteq {"core", "config"}
           /\ hook' # Us
           /\ phase' = "leaving"
           /\ gone' \union tell' \subseteq [client : Nat, peer : Peers]
<1>1. held' \subseteq {"core", "config"}
    BY DEF CleanUp, Staying, Registered, Timers
<1>2. hook' # Us
    BY PluginAssumption DEF CleanUp
<1> QED BY <1>1, <1>2 DEF CleanUp, LeftInv, Types

\* What each action leaves registered and running, and who has the hook.
LEMMA LeftInvNext == LeftInv /\ [Next]_vars => LeftInv'
<1> SUFFICES ASSUME LeftInv, [Next]_vars PROVE LeftInv'
    OBVIOUS
<1> USE DEF LeftInv, Types, Stripped, NothingLeft
<1>1. CASE Load
  <2>1. CASE InstallHooks
      BY <1>1, <2>1 DEF Load, InstallHooks, core, peers, Registered, Timers
  <2>2. ASSUME NEW all \in {{}, Registered}, CleanUp(all) PROVE LeftInv'
    <3>1. all \in SUBSET (Registered \union Timers \union {"zoom"})
        BY <2>2
    <3>2. /\ held' \subseteq {"core", "config"}
          /\ hook' # Us
          /\ phase' = "leaving"
          /\ gone' \union tell' \subseteq [client : Nat, peer : Peers]
        BY <2>2, <3>1, CleanUpStrips
    <3> QED BY <1>1, <3>2 DEF Load, core, peers, Registered, Timers
  <2> QED BY <1>1, <2>1, <2>2 DEF Load
<1>2. CASE Exit
  <2>1. CleanUp(held)
      BY <1>2 DEF Exit
  <2>2. /\ held' \subseteq {"core", "config"}
        /\ hook' # Us
        /\ phase' = "leaving"
        /\ gone' \union tell' \subseteq [client : Nat, peer : Peers]
      BY <2>1, CleanUpStrips
  <2> QED BY <1>2, <2>2 DEF Exit, core, peers, Registered, Timers
<1>3. CASE FinishCleanUp
    BY <1>3 DEF FinishCleanUp, LegacyClient, Registered, Timers
<1>4. CASE Retry
    BY <1>4 DEF Retry, core, peers, Timers
<1>5. CASE StartTimer
    BY <1>5 DEF StartTimer, core, peers, Timers
<1>6. CASE ReleaseHook
    BY <1>6, PluginAssumption DEF ReleaseHook, core, peers
<1>7. CASE Legacy
    BY <1>7 DEF Legacy, peers
<1>8. ASSUME NEW g \in tell, NEW unregisters \in BOOLEAN, NEW takes \in BOOLEAN,
             Told(g, unregisters, takes)
      PROVE  LeftInv'
  <2>1. g.peer \in Peers
      OBVIOUS
  <2>2. hook' # Us
      BY <1>8, <2>1, PluginAssumption DEF Told
  <2>3. /\ UNCHANGED <<held, phase, nextId>>
        /\ gone' \union tell' \subseteq gone \union tell
        /\ bound' = bound \ {g.peer} /\ pins' = pins \ {g.peer}
        /\ id' \in [Peers -> Nat]
      BY <1>8 DEF Told, WithoutCallback
  <2> QED BY <1>8, <2>2, <2>3 DEF Told
<1>9. ASSUME NEW p \in Peers, NEW drops \in BOOLEAN, Join(p, drops)
      PROVE  LeftInv'
  <2>1. WithCallback(nextId, p) \subseteq [client : Nat, peer : Peers]
      BY DEF WithCallback, WithoutCallback, Callback
  <2>2. /\ gone' \union tell' \subseteq [client : Nat, peer : Peers]
        /\ bound' \subseteq Peers /\ pins' \subseteq bound'
        /\ id' \in [Peers -> Nat] /\ nextId' \in Nat
      BY <1>9, <2>1 DEF Join
  <2> QED BY <1>9, <2>2 DEF Join
<1>10. ASSUME NEW p \in Peers, NEW m \in Monitors, NEW n \in 0..(MaxRects + 1),
              Draw(p, m, n)
       PROVE  LeftInv'
    BY <1>10 DEF Draw
<1>11. ASSUME NEW p \in Peers, Clear(p) PROVE LeftInv'
    BY <1>11 DEF Clear
<1>12. ASSUME NEW p \in Peers, Leave(p) PROVE LeftInv'
  <2>1. /\ UNCHANGED <<held, phase, nextId, tell>>
        /\ gone' \subseteq gone
        /\ bound' = bound \ {p} /\ pins' = pins \ {p}
        /\ id' \in [Peers -> Nat]
      BY <1>12 DEF Leave, WithoutCallback
  <2>2. hook' = hook \/ hook' = Nobody
      BY <1>12 DEF Leave
  <2> QED BY <1>12, <2>1, <2>2, PluginAssumption
<1>13. ASSUME NEW p \in Peers, TakeHook(p) PROVE LeftInv'
    BY <1>13, PluginAssumption DEF TakeHook, core, peers
<1>14. CASE UNCHANGED vars
    BY <1>14 DEF vars
<1> QED BY <1>1, <1>2, <1>3, <1>4, <1>5, <1>6, <1>7, <1>8, <1>9, <1>10, <1>11, <1>12,
          <1>13, <1>14 DEF Next

LEMMA LeftInvInit == Init => LeftInv
BY PluginAssumption DEF Init, LeftInv, Types, Stripped, NothingLeft, LegacyClient, Timers

\* Nothing in the compositor points into the plugin after its clean-up, and no
\* frame comes in once it has begun, whatever other plugins do.
THEOREM NothingLeftCorrect == Spec => []NothingLeft
<1>1. LeftInv => NothingLeft
    BY DEF LeftInv
<1> QED BY <1>1, LeftInvInit, LeftInvNext, PTL DEF Spec

----------------------------------------------------------------------------

\* Every peer with pointers will be told: its callback is set while the plugin is
\* in, and not called yet while it leaves.  Callbacks are kept by client, so the
\* ids of peers must differ.
WillBeTold ==
    /\ phase = "in" => \A p \in bound : Callback(id[p], p) \in gone
    /\ phase = "leaving" => \A p \in bound : \E g \in tell : g.peer = p

IdsApart ==
    /\ \A p \in bound : id[p] < nextId
    /\ \A p, q \in bound : p # q => id[p] # id[q]

GoInv == LeftInv /\ WillBeTold /\ IdsApart /\ PeersLetGo

LEMMA GoInvNext ==
    ASSUME Heeding = Peers
    PROVE  GoInv /\ [Next]_vars => GoInv'
<1> SUFFICES ASSUME GoInv, [Next]_vars PROVE (WillBeTold /\ IdsApart /\ PeersLetGo)'
    BY LeftInvNext DEF GoInv
<1> USE DEF GoInv, LeftInv, Types, WillBeTold, IdsApart, PeersLetGo
<1>1. CASE Load
  <2>1. bound = {} /\ bound' = {}
      BY <1>1 DEF Load, peers
  <2>2. phase' # "out"
      BY <1>1 DEF Load, InstallHooks, CleanUp
  <2> QED BY <2>1, <2>2
<1>2. CASE Exit
  <2>1. phase' = "leaving" /\ tell' = gone /\ UNCHANGED <<bound, id, nextId>>
      BY <1>2 DEF Exit, CleanUp, peers
  <2>2. \A p \in bound : Callback(id[p], p) \in tell' /\ Callback(id[p], p).peer = p
      BY <1>2, <2>1 DEF Exit, Callback
  <2> QED BY <2>1, <2>2
<1>3. CASE FinishCleanUp
  <2>1. bound = {} /\ pins = {}
      BY <1>3 DEF FinishCleanUp
  <2> QED BY <1>3, <2>1 DEF FinishCleanUp
<1>4. CASE Retry \/ StartTimer \/ ReleaseHook
    BY <1>4 DEF Retry, StartTimer, ReleaseHook, core, peers
<1>5. CASE Legacy
    BY <1>5 DEF Legacy, peers
<1>6. ASSUME NEW g \in tell, NEW unregisters \in BOOLEAN, NEW takes \in BOOLEAN,
             Told(g, unregisters, takes)
      PROVE  (WillBeTold /\ IdsApart /\ PeersLetGo)'
  <2>1. /\ phase = "leaving" /\ phase' = "leaving"
        /\ tell' = tell \ {g} /\ bound' = bound \ {g.peer}
        /\ nextId' = nextId
        /\ \A p \in bound' : id'[p] = id[p]
      BY <1>6 DEF Told
  <2>2. \A p \in bound' : \E h \in tell' : h.peer = p
      BY <2>1
  <2> QED BY <2>1, <2>2
<1>7. ASSUME NEW p \in Peers, NEW drops \in BOOLEAN, Join(p, drops)
      PROVE  (WillBeTold /\ IdsApart /\ PeersLetGo)'
  <2>1. phase = "in"
      BY <1>7 DEF Join, Running, LeftInv, NothingLeft
  <2>2. /\ phase' = phase /\ bound' = bound \union {p} /\ nextId' = nextId + 1
        /\ id' = [id EXCEPT ![p] = nextId]
        /\ gone' = WithCallback(nextId, p)
        /\ p \notin bound
      BY <1>7 DEF Join
  <2>3. \A q \in bound : Callback(id[q], q) \in gone'
    <3>1. \A q \in bound : Callback(id[q], q).client # nextId
        BY DEF Callback
    <3> QED BY <2>1, <2>2, <3>1 DEF WithCallback, WithoutCallback
  <2>4. Callback(nextId, p) \in gone'
      BY <2>2 DEF WithCallback
  <2> QED BY <2>1, <2>2, <2>3, <2>4
<1>8. ASSUME NEW p \in Peers, NEW m \in Monitors, NEW n \in 0..(MaxRects + 1),
             Draw(p, m, n)
      PROVE  (WillBeTold /\ IdsApart /\ PeersLetGo)'
    BY <1>8 DEF Draw
<1>9. ASSUME NEW p \in Peers, Clear(p) PROVE (WillBeTold /\ IdsApart /\ PeersLetGo)'
    BY <1>9 DEF Clear
<1>10. ASSUME NEW p \in Peers, Leave(p) PROVE (WillBeTold /\ IdsApart /\ PeersLetGo)'
  <2>1. phase = "in" /\ p \in bound
      BY <1>10 DEF Leave, Running, NothingLeft
  <2>2. /\ phase' = phase /\ bound' = bound \ {p} /\ nextId' = nextId
        /\ id' = [id EXCEPT ![p] = 0]
        /\ gone' = WithoutCallback(id[p])
      BY <1>10 DEF Leave
  <2>3. \A q \in bound' : Callback(id[q], q) \in gone'
    <3>1. \A q \in bound' : Callback(id[q], q).client # id[p]
        BY <2>1, <2>2 DEF Callback
    <3> QED BY <2>1, <2>2, <3>1 DEF WithoutCallback
  <2> QED BY <2>1, <2>2, <2>3
<1>11. ASSUME NEW p \in Peers, TakeHook(p) PROVE (WillBeTold /\ IdsApart /\ PeersLetGo)'
    BY <1>11 DEF TakeHook, core, peers
<1>12. CASE UNCHANGED vars
    BY <1>12 DEF vars
<1> QED BY <1>1, <1>2, <1>3, <1>4, <1>5, <1>6, <1>7, <1>8, <1>9, <1>10, <1>11, <1>12
        DEF Next

\* When every peer sets a gone callback, none has pointers into a library that is
\* gone, and none keeps it in memory after the unload (ARCHITECTURE.md:82).
THEOREM PeersLetGoCorrect ==
    ASSUME Heeding = Peers
    PROVE  Spec => []PeersLetGo
<1>1. Init => GoInv
    BY LeftInvInit DEF Init, GoInv, WillBeTold, IdsApart, PeersLetGo
<1>2. GoInv /\ [Next]_vars => GoInv'
    BY GoInvNext
<1>3. GoInv => PeersLetGo
    BY DEF GoInv
<1> QED BY <1>1, <1>2, <1>3, PTL DEF Spec

----------------------------------------------------------------------------
(***************************************************************************)
(* The rects of a client.                                                  *)
(***************************************************************************)

\* What a client may have.
Fits(rects) == /\ rects \subseteq Monitors \X (1..MaxRects)
               /\ IsFiniteSet(rects) /\ Cardinality(rects) <= MaxRects

LEMMA NumberedSize ==
    ASSUME NEW m \in Monitors, NEW n \in Nat
    PROVE  IsFiniteSet(Numbered(m, n)) /\ Cardinality(Numbered(m, n)) <= n
<1> DEFINE f == [k \in 1..n |-> <<m, k>>]
<1>1. IsFiniteSet(1..n) /\ Cardinality(1..n) = n
    BY FS_Interval
<1>2. f \in Surjection(1..n, Numbered(m, n))
    BY DEF Surjection, Numbered
<1> QED BY <1>1, <1>2, FS_Surjection

LEMMA NoneFits == Fits({})
BY FS_EmptySet, PluginAssumption DEF Fits

\* Whatever a client asks for, it does not get more than there is room for.
LEMMA SetFits ==
    ASSUME NEW rects, Fits(rects), NEW m \in Monitors, NEW n \in Nat
    PROVE  /\ Fits(RectsSet(rects, m, n))
           /\ Lesser(n, MaxRects - Cardinality(Others(rects, m))) \in 0..MaxRects
<1> DEFINE kept == Others(rects, m)
           k == Lesser(n, MaxRects - Cardinality(kept))
<1>1. kept \subseteq rects
    BY DEF Others
<1>2. IsFiniteSet(kept) /\ Cardinality(kept) <= Cardinality(rects) /\ Cardinality(kept) \in Nat
      /\ Cardinality(rects) \in Nat
    BY <1>1, FS_Subset, FS_CardinalityType DEF Fits
<1> HIDE DEF kept
<1>3. k \in 0..MaxRects /\ k <= MaxRects - Cardinality(kept)
    BY <1>2, PluginAssumption DEF Lesser, Fits
<1> HIDE DEF k
<1>4. k \in Nat
    BY <1>3, PluginAssumption
<1>5. IsFiniteSet(Numbered(m, k)) /\ Cardinality(Numbered(m, k)) <= k
    BY <1>4, NumberedSize
<1>6. /\ IsFiniteSet(kept \union Numbered(m, k))
      /\ Cardinality(kept \union Numbered(m, k))
            = Cardinality(kept) + Cardinality(Numbered(m, k)) - Cardinality(kept \intersect Numbered(m, k))
    BY <1>2, <1>5, FS_Union
<1>7. /\ Cardinality(kept \intersect Numbered(m, k)) \in Nat
      /\ Cardinality(Numbered(m, k)) \in Nat
  <2>1. IsFiniteSet(kept \intersect Numbered(m, k))
      BY <1>2, FS_Subset
  <2> QED BY <1>5, <2>1, FS_CardinalityType
<1>8. Cardinality(kept \union Numbered(m, k)) <= MaxRects
    BY <1>2, <1>3, <1>5, <1>6, <1>7, PluginAssumption
<1>9. kept \union Numbered(m, k) \subseteq Monitors \X (1..MaxRects)
  <2>1. 1..k \subseteq 1..MaxRects
      BY <1>3, PluginAssumption
  <2> QED BY <1>1, <2>1 DEF Numbered, Fits
<1> QED BY <1>3, <1>6, <1>8, <1>9 DEF RectsSet, Fits, kept, k

LEMMA OneMoreFits ==
    ASSUME NEW rects, Fits(rects), NEW m \in Monitors, Cardinality(rects) < MaxRects
    PROVE  Fits(OneMore(rects, m))
<1> DEFINE x == <<m, Cardinality(rects) + 1>>
<1>1. Cardinality(rects) \in Nat
    BY FS_CardinalityType DEF Fits
<1>2. /\ IsFiniteSet(rects \cup {x})
      /\ Cardinality(rects \cup {x}) \in {Cardinality(rects), Cardinality(rects) + 1}
    BY FS_AddElement DEF Fits
<1>3. x \in Monitors \X (1..MaxRects)
    BY <1>1, PluginAssumption
<1> HIDE DEF x
<1>4. Cardinality(rects \cup {x}) <= MaxRects
    BY <1>1, <1>2, PluginAssumption
<1> QED BY <1>2, <1>3, <1>4 DEF Fits, OneMore, x

\* What was asked for, when one monitor's number changes.
LEMMA DrawnAgain ==
    ASSUME NEW counts \in [Monitors -> Nat], NEW m \in Monitors, NEW n \in Nat
    PROVE  /\ Drawn([counts EXCEPT ![m] = n]) = Others(Drawn(counts), m) \union Numbered(m, n)
           /\ Drawn([counts EXCEPT ![m] = 0]) = Others(Drawn(counts), m)
<1>1. ASSUME NEW j \in Nat
      PROVE  Drawn([counts EXCEPT ![m] = j]) = Others(Drawn(counts), m) \union Numbered(m, j)
  <2> DEFINE new == [counts EXCEPT ![m] = j]
  <2>1. DOMAIN new = Monitors /\ new[m] = j /\ \A i \in Monitors \ {m} : new[i] = counts[i]
      OBVIOUS
  <2> HIDE DEF new
  <2>2. ASSUME NEW x
        PROVE  x \in Drawn(new) <=> x \in Others(Drawn(counts), m) \union Numbered(m, j)
    <3>1. x \in Drawn(new) <=> \E i \in Monitors : \E k \in 1..new[i] : x = <<i, k>>
        BY <2>1 DEF Drawn, Numbered
    <3>2. x \in Others(Drawn(counts), m)
              <=> x[1] # m /\ \E i \in Monitors : \E k \in 1..counts[i] : x = <<i, k>>
        BY DEF Drawn, Numbered, Others
    <3>3. x \in Numbered(m, j) <=> \E k \in 1..j : x = <<m, k>>
        BY DEF Numbered
    <3>4. \A i, k : <<i, k>>[1] = i
        OBVIOUS
    <3> QED BY <2>1, <3>1, <3>2, <3>3, <3>4
  <2> QED BY <2>2 DEF new
<1>2. Numbered(m, 0) = {}
  <2>1. 1..0 = {}
      OBVIOUS
  <2> QED BY <2>1 DEF Numbered
<1> QED BY <1>1, <1>2

\* set_rects does to a client's rects what the peer has asked for.
LEMMA SetAsAsked ==
    ASSUME NEW counts \in [Monitors -> 0..MaxRects], Fits(Drawn(counts)),
           NEW m \in Monitors, NEW n \in Nat,
           NEW room, room = MaxRects - Cardinality(Drawn([counts EXCEPT ![m] = 0])),
           NEW new, new = [counts EXCEPT ![m] = Lesser(n, room)]
    PROVE  /\ new \in [Monitors -> 0..MaxRects]
           /\ Drawn(new) = RectsSet(Drawn(counts), m, n) /\ Fits(Drawn(new))
<1>1. counts \in [Monitors -> Nat]
    BY PluginAssumption
<1>2. room = MaxRects - Cardinality(Others(Drawn(counts), m))
    BY <1>1, DrawnAgain
<1>3. Lesser(n, room) \in 0..MaxRects /\ Fits(RectsSet(Drawn(counts), m, n))
    BY <1>2, SetFits
<1>4. Lesser(n, room) \in Nat
    BY <1>3, PluginAssumption
<1>5. Drawn(new) = Others(Drawn(counts), m) \union Numbered(m, Lesser(n, room))
    BY <1>1, <1>4, DrawnAgain
<1>6. Drawn(new) = RectsSet(Drawn(counts), m, n)
    BY <1>2, <1>5 DEF RectsSet
<1>7. new \in [Monitors -> 0..MaxRects]
    BY <1>3
<1> QED BY <1>3, <1>6, <1>7

LEMMA NothingDrawn ==
    LET none == [m \in Monitors |-> 0]
    IN  Drawn(none) = {} /\ none \in [Monitors -> 0..MaxRects]
<1>1. 1..0 = {}
    OBVIOUS
<1> QED BY <1>1, PluginAssumption DEF Drawn, Numbered

\* The types, with what keeps the counts in their range: every client's rects, and
\* what every peer has asked for, fit.
TypeInv ==
    /\ mapped \in BOOLEAN
    /\ phase \in {"out", "in", "leaving"}
    /\ held \subseteq Registered \union Timers \union {"zoom"}
    /\ hook \in {Us, Nobody} \union Peers
    /\ nextId \in 2..(MaxId + 1)
    /\ gone \union tell \subseteq [client : Ids, peer : Peers]
    /\ bound \subseteq Peers /\ pins \subseteq bound /\ stale \subseteq Peers
    /\ id \in [Peers -> Ids \union {0}]

RectsFit ==
    /\ DOMAIN clients \subseteq Ids
    /\ \A i \in DOMAIN clients : Fits(clients[i])
    /\ put \in [Peers -> [Monitors -> 0..MaxRects]]
    /\ \A p \in Peers : Fits(Drawn(put[p]))

LEMMA IdsAre == /\ \A i : i \in Ids <=> i \in Int /\ 1 <= i /\ i <= MaxId
                /\ LegacyClient = 1 /\ LegacyClient \in Ids /\ MaxId \in Nat
BY PluginAssumption DEF Ids, LegacyClient

LEMMA TypeInvInit == Init => TypeInv /\ RectsFit
<1> SUFFICES ASSUME Init PROVE TypeInv /\ RectsFit
    OBVIOUS
<1>1. nextId \in 2..(MaxId + 1)
    BY PluginAssumption DEF Init, LegacyClient
<1>2. id \in [Peers -> Ids \union {0}]
    BY DEF Init
<1>3. TypeInv
    BY <1>1, <1>2 DEF Init, TypeInv
<1>4. DOMAIN clients = {}
    BY DEF Init, NoClients
<1>5. put = [p \in Peers |-> [m \in Monitors |-> 0]]
    BY DEF Init
<1> QED BY <1>3, <1>4, <1>5, NothingDrawn, NoneFits DEF RectsFit

LEMMA TypeInvNext == TypeInv /\ [Next]_vars => TypeInv'
<1> SUFFICES ASSUME TypeInv, [Next]_vars PROVE TypeInv'
    OBVIOUS
<1> USE DEF TypeInv
<1>1. CASE Load \/ Exit
  <2>1. ASSUME NEW all \in SUBSET (Registered \union Timers \union {"zoom"}), CleanUp(all)
        PROVE  /\ phase' \in {"out", "in", "leaving"}
               /\ held' \subseteq Registered \union Timers \union {"zoom"}
               /\ hook' \in {Us, Nobody} \union Peers
               /\ gone' \union tell' \subseteq [client : Ids, peer : Peers]
      BY <2>1 DEF CleanUp, Staying
  <2>2. ASSUME InstallHooks
        PROVE  /\ phase' \in {"out", "in", "leaving"}
               /\ held' \subseteq Registered \union Timers \union {"zoom"}
               /\ hook' \in {Us, Nobody} \union Peers
               /\ gone' \union tell' \subseteq [client : Ids, peer : Peers]
      BY <2>2 DEF InstallHooks, Timers
  <2>3. UNCHANGED <<nextId, bound, pins, id, stale>> /\ mapped' \in BOOLEAN
      BY <1>1 DEF Load, Exit, peers
  <2>4. \/ InstallHooks
        \/ \E all \in SUBSET (Registered \union Timers \union {"zoom"}) : CleanUp(all)
      BY <1>1 DEF Load, Exit
  <2> QED BY <2>1, <2>2, <2>3, <2>4
<1>2. CASE FinishCleanUp
    BY <1>2, IdsAre DEF FinishCleanUp
<1>3. CASE Retry \/ StartTimer \/ ReleaseHook
    BY <1>3 DEF Retry, StartTimer, ReleaseHook, core, peers, Timers
<1>4. CASE Legacy
    BY <1>4 DEF Legacy, peers
<1>5. ASSUME NEW g \in tell, NEW unregisters \in BOOLEAN, NEW takes \in BOOLEAN,
             Told(g, unregisters, takes)
      PROVE  TypeInv'
  <2>1. g.peer \in Peers
      OBVIOUS
  <2>2. hook' \in {Us, Nobody} \union Peers
      BY <1>5, <2>1 DEF Told
  <2>3. /\ UNCHANGED <<mapped, held, phase, nextId, stale>>
        /\ gone' \union tell' \subseteq gone \union tell
        /\ bound' = bound \ {g.peer} /\ pins' = pins \ {g.peer}
        /\ id' = [id EXCEPT ![g.peer] = 0]
      BY <1>5 DEF Told, WithoutCallback
  <2> QED BY <2>2, <2>3
<1>6. ASSUME NEW p \in Peers, NEW drops \in BOOLEAN, Join(p, drops) PROVE TypeInv'
  <2>1. nextId \in Ids /\ nextId + 1 \in 2..(MaxId + 1)
      BY <1>6, IdsAre DEF Join
  <2>2. WithCallback(nextId, p) \subseteq [client : Ids, peer : Peers]
      BY <2>1 DEF WithCallback, WithoutCallback, Callback
  <2>3. gone' \union tell' \subseteq [client : Ids, peer : Peers]
      BY <1>6, <2>2 DEF Join
  <2>4. /\ UNCHANGED <<mapped, held, phase, hook>> /\ nextId' = nextId + 1
        /\ id' = [id EXCEPT ![p] = nextId] /\ bound' = bound \union {p}
        /\ pins' \subseteq pins \union {p} /\ stale' \subseteq stale
      BY <1>6 DEF Join
  <2> QED BY <2>1, <2>3, <2>4
<1>7. ASSUME NEW p \in Peers, NEW m \in Monitors, NEW n \in 0..(MaxRects + 1), Draw(p, m, n)
      PROVE  TypeInv'
    BY <1>7 DEF Draw
<1>8. ASSUME NEW p \in Peers, Clear(p) PROVE TypeInv'
    BY <1>8 DEF Clear
<1>9. ASSUME NEW p \in Peers, Leave(p) PROVE TypeInv'
  <2>1. /\ UNCHANGED <<held, phase, nextId, tell, stale>> /\ gone' \subseteq gone
        /\ bound' = bound \ {p} /\ pins' = pins \ {p} /\ id' = [id EXCEPT ![p] = 0]
        /\ mapped' \in BOOLEAN /\ hook' \in {hook, Nobody}
      BY <1>9 DEF Leave, WithoutCallback
  <2> QED BY <2>1
<1>10. ASSUME NEW p \in Peers, TakeHook(p) PROVE TypeInv'
    BY <1>10 DEF TakeHook, core, peers
<1>11. CASE UNCHANGED vars
    BY <1>11 DEF vars
<1> QED BY <1>1, <1>2, <1>3, <1>4, <1>5, <1>6, <1>7, <1>8, <1>9, <1>10, <1>11 DEF Next

\* The calls of version 1.
LEMMA LegacyFits ==
    ASSUME RectsFit, Legacy
    PROVE  DOMAIN clients' \subseteq Ids /\ \A i \in DOMAIN clients' : Fits(clients'[i])
<1> DEFINE w == WithLegacy
<1>1. /\ DOMAIN w \subseteq Ids /\ LegacyClient \in DOMAIN w
      /\ \A i \in DOMAIN w : Fits(w[i])
    BY NoneFits, IdsAre DEF WithLegacy, With, Exists, RectsFit
<1> HIDE DEF w
<1>2. CASE clients' = LegacyClear
    BY <1>1, <1>2, NoneFits DEF LegacyClear, w
<1>3. ASSUME NEW m \in Monitors, clients' = LegacyAdd(m)
      PROVE  DOMAIN clients' \subseteq Ids /\ \A i \in DOMAIN clients' : Fits(clients'[i])
  <2>1. CASE Cardinality(w[LegacyClient]) < MaxRects
    <3>1. clients' = [w EXCEPT ![LegacyClient] = OneMore(w[LegacyClient], m)]
        BY <1>3, <2>1 DEF LegacyAdd, w
    <3>2. Fits(OneMore(w[LegacyClient], m))
        BY <1>1, <2>1, OneMoreFits
    <3> QED BY <1>1, <3>1, <3>2
  <2>2. CASE ~(Cardinality(w[LegacyClient]) < MaxRects)
      BY <1>1, <1>3, <2>2 DEF LegacyAdd, w
  <2> QED BY <2>1, <2>2
<1> QED BY <1>2, <1>3 DEF Legacy

LEMMA RectsFitNext == TypeInv /\ RectsFit /\ [Next]_vars => RectsFit'
<1> SUFFICES ASSUME TypeInv, RectsFit, [Next]_vars PROVE RectsFit'
    OBVIOUS
<1>1. CASE UNCHANGED <<clients, put>>
    BY <1>1 DEF RectsFit
<1>2. CASE FinishCleanUp
  <2>1. DOMAIN clients' = {} /\ put' = put
      BY <1>2 DEF FinishCleanUp, NoClients
  <2> QED BY <2>1 DEF RectsFit
<1>3. CASE Legacy
    BY <1>3, LegacyFits DEF Legacy, peers, RectsFit
<1>4. ASSUME NEW g \in tell, NEW unregisters \in BOOLEAN, NEW takes \in BOOLEAN,
             Told(g, unregisters, takes)
      PROVE  RectsFit'
  <2>1. /\ DOMAIN clients' \subseteq DOMAIN clients /\ put' = put
        /\ \A i \in DOMAIN clients' : clients'[i] = clients[i]
      BY <1>4 DEF Told, Unregister
  <2> QED BY <2>1 DEF RectsFit
<1>5. ASSUME NEW p \in Peers, NEW drops \in BOOLEAN, Join(p, drops) PROVE RectsFit'
  <2>1. nextId \in Ids
      BY <1>5, IdsAre DEF Join, TypeInv
  <2>2. clients' = With(clients, nextId) /\ put' = [put EXCEPT ![p] = [m \in Monitors |-> 0]]
      BY <1>5 DEF Join, Register
  <2>3. DOMAIN clients' \subseteq Ids /\ \A i \in DOMAIN clients' : Fits(clients'[i])
      BY <2>1, <2>2, NoneFits DEF With, RectsFit
  <2>4. put' \in [Peers -> [Monitors -> 0..MaxRects]] /\ \A q \in Peers : Fits(Drawn(put'[q]))
      BY <2>2, NothingDrawn, NoneFits DEF RectsFit
  <2> QED BY <2>3, <2>4 DEF RectsFit
<1>6. ASSUME NEW p \in Peers, NEW m \in Monitors, NEW n \in 0..(MaxRects + 1), Draw(p, m, n)
      PROVE  RectsFit'
  <2> DEFINE room == MaxRects - Cardinality(Drawn([put[p] EXCEPT ![m] = 0]))
             new == [put[p] EXCEPT ![m] = Lesser(n, room)]
  <2>1. n \in Nat /\ put[p] \in [Monitors -> 0..MaxRects] /\ Fits(Drawn(put[p]))
      BY PluginAssumption DEF RectsFit
  <2>2. clients' = SetRects(id[p], m, n) /\ put' = [put EXCEPT ![p] = new]
      BY <1>6 DEF Draw
  <2>3. new \in [Monitors -> 0..MaxRects] /\ Fits(Drawn(new))
      BY <2>1, SetAsAsked
  <2> HIDE DEF new
  <2>4. put' \in [Peers -> [Monitors -> 0..MaxRects]] /\ \A q \in Peers : Fits(Drawn(put'[q]))
      BY <2>2, <2>3 DEF RectsFit
  <2>5. DOMAIN clients' \subseteq Ids /\ \A i \in DOMAIN clients' : Fits(clients'[i])
    <3>1. CASE Exists(clients, id[p])
      <4>1. clients' = [clients EXCEPT ![id[p]] = RectsSet(clients[id[p]], m, n)]
          BY <2>2, <3>1 DEF SetRects
      <4>2. Fits(RectsSet(clients[id[p]], m, n))
          BY <2>1, <3>1, SetFits DEF Exists, RectsFit
      <4> QED BY <4>1, <4>2 DEF RectsFit
    <3>2. CASE ~Exists(clients, id[p])
        BY <2>2, <3>2 DEF SetRects, RectsFit
    <3> QED BY <3>1, <3>2
  <2> QED BY <2>4, <2>5 DEF RectsFit
<1>7. ASSUME NEW p \in Peers, Clear(p) PROVE RectsFit'
  <2>1. clients' = ClearClient(id[p]) /\ put' = [put EXCEPT ![p] = [m \in Monitors |-> 0]]
      BY <1>7 DEF Clear
  <2>2. DOMAIN clients' \subseteq Ids /\ \A i \in DOMAIN clients' : Fits(clients'[i])
      BY <2>1, NoneFits DEF ClearClient, RectsFit
  <2>3. put' \in [Peers -> [Monitors -> 0..MaxRects]] /\ \A q \in Peers : Fits(Drawn(put'[q]))
      BY <2>1, NothingDrawn, NoneFits DEF RectsFit
  <2> QED BY <2>2, <2>3 DEF RectsFit
<1>8. ASSUME NEW p \in Peers, Leave(p) PROVE RectsFit'
  <2>1. clients' = Unregister(id[p]) /\ put' = put
      BY <1>8 DEF Leave
  <2> QED BY <2>1 DEF Unregister, RectsFit
<1>9. CASE Load \/ Exit \/ Retry \/ StartTimer \/ ReleaseHook \/ \E p \in Peers : TakeHook(p)
  <2>1. UNCHANGED <<clients, put>>
      BY <1>9 DEF Load, Exit, Retry, StartTimer, ReleaseHook, TakeHook, core, peers
  <2> QED BY <1>1, <2>1
<1> QED BY <1>1, <1>2, <1>3, <1>4, <1>5, <1>6, <1>7, <1>8, <1>9 DEF Next, vars, core, peers

\* Every variable stays in its type; no client ever has more than MaxRects rects,
\* whatever is asked for on however many monitors.
THEOREM TypeCorrect == Spec => []TypeOK
<1>1. TypeInv /\ RectsFit => TypeOK
    BY DEF TypeInv, RectsFit, TypeOK, Fits
<1> QED BY <1>1, TypeInvInit, TypeInvNext, RectsFitNext, PTL DEF Spec

----------------------------------------------------------------------------
(***************************************************************************)
(* Who has which rects.                                                    *)
(***************************************************************************)

\* When all peers heed the end, the callbacks are those of the peers that have
\* pointers, each for the client its peer has now; so whoever has an id has
\* registered with the plugin as it is now.
CallbacksAreCurrent ==
    /\ \A g \in gone \union tell : g.peer \in bound /\ g.client = id[g.peer]
    /\ phase = "leaving" => gone = {}
    /\ phase # "leaving" => tell = {}

IdsAreCurrent ==
    /\ stale = {}
    /\ \A p \in Peers : id[p] # 0 <=> p \in bound
    /\ \A p \in bound : id[p] # LegacyClient

RectsAsAsked ==
    /\ \A p \in bound : Exists(clients, id[p]) /\ clients[id[p]] = Drawn(put[p])
    /\ Running => \A i \in DOMAIN clients \ {LegacyClient} : \E p \in bound : id[p] = i

OwnInv == CallbacksAreCurrent /\ IdsAreCurrent /\ RectsAsAsked

Known == GoInv /\ TypeInv /\ RectsFit /\ OwnInv

LEMMA CallbacksNext ==
    ASSUME Heeding = Peers
    PROVE  Known /\ [Next]_vars => CallbacksAreCurrent'
<1> SUFFICES ASSUME Known, [Next]_vars PROVE CallbacksAreCurrent'
    OBVIOUS
<1> USE DEF Known, OwnInv, CallbacksAreCurrent
<1>1. gone \union tell \subseteq [client : Ids, peer : Peers] /\ id \in [Peers -> Ids \union {0}]
      /\ bound \subseteq Peers
    BY DEF TypeInv
<1>2. ASSUME NEW all, CleanUp(all), phase # "leaving", UNCHANGED <<bound, id>>
      PROVE  CallbacksAreCurrent'
    BY <1>2 DEF CleanUp
<1>3. CASE Load
  <2>1. gone = {} /\ tell = {} /\ phase # "leaving"
      BY <1>3 DEF Load, GoInv, PeersLetGo
  <2>2. CASE InstallHooks
      BY <2>1, <2>2 DEF InstallHooks
  <2>3. ASSUME NEW all, CleanUp(all) PROVE CallbacksAreCurrent'
      BY <1>2, <1>3, <2>1, <2>3 DEF Load, peers
  <2> QED BY <1>3, <2>2, <2>3 DEF Load
<1>4. CASE Exit
    BY <1>2, <1>4 DEF Exit, peers
<1>5. CASE FinishCleanUp
    BY <1>5 DEF FinishCleanUp
<1>6. CASE Retry \/ StartTimer \/ ReleaseHook \/ Legacy \/ \E p \in Peers : TakeHook(p)
    BY <1>6 DEF Retry, StartTimer, ReleaseHook, TakeHook, Legacy, core, peers
<1>7. ASSUME NEW g \in tell, NEW unregisters \in BOOLEAN, NEW takes \in BOOLEAN,
             Told(g, unregisters, takes)
      PROVE  CallbacksAreCurrent'
  <2>1. /\ phase = "leaving" /\ phase' = phase /\ tell' = tell \ {g}
        /\ bound' = bound \ {g.peer} /\ id' = [id EXCEPT ![g.peer] = 0] /\ gone' \subseteq gone
      BY <1>7 DEF Told, WithoutCallback
  <2>2. ASSUME NEW h \in tell \ {g} PROVE h.peer # g.peer
    <3>1. h \in [client : Ids, peer : Peers] /\ g \in [client : Ids, peer : Peers]
        BY <1>1
    <3>2. h.client = id[h.peer] /\ g.client = id[g.peer]
        OBVIOUS
    <3> QED BY <3>1, <3>2
  <2> QED BY <1>1, <2>1, <2>2
<1>8. ASSUME NEW p \in Peers, NEW drops \in BOOLEAN, Join(p, drops)
      PROVE  CallbacksAreCurrent'
  <2>1. /\ tell = {} /\ tell' = {} /\ phase' = phase /\ phase # "leaving" /\ p \notin bound
        /\ bound' = bound \union {p} /\ id' = [id EXCEPT ![p] = nextId]
        /\ gone' = WithCallback(nextId, p)
      BY <1>8 DEF Join, Running
  <2>2. gone' \subseteq gone \union {[client |-> nextId, peer |-> p]}
      BY <2>1 DEF WithCallback, WithoutCallback, Callback
  <2> QED BY <1>1, <2>1, <2>2
<1>9. ASSUME NEW p \in Peers, NEW m \in Monitors, NEW n \in 0..(MaxRects + 1), Draw(p, m, n)
      PROVE  CallbacksAreCurrent'
    BY <1>9 DEF Draw
<1>10. ASSUME NEW p \in Peers, Clear(p) PROVE CallbacksAreCurrent'
    BY <1>10 DEF Clear
<1>11. ASSUME NEW p \in Peers, Leave(p) PROVE CallbacksAreCurrent'
  <2>1. /\ tell = {} /\ tell' = {} /\ phase' # "leaving" /\ p \in bound
        /\ bound' = bound \ {p} /\ id' = [id EXCEPT ![p] = 0]
        /\ gone' = {g \in gone : g.client # id[p]}
      BY <1>11 DEF Leave, Running, WithoutCallback
  <2> QED BY <1>1, <2>1
<1>12. CASE UNCHANGED vars
    BY <1>12 DEF vars
<1> QED BY <1>3, <1>4, <1>5, <1>6, <1>7, <1>8, <1>9, <1>10, <1>11, <1>12 DEF Next

LEMMA IdsNext ==
    ASSUME Heeding = Peers
    PROVE  Known /\ [Next]_vars => IdsAreCurrent'
<1> SUFFICES ASSUME Known, [Next]_vars PROVE IdsAreCurrent'
    OBVIOUS
<1> USE DEF Known, OwnInv, IdsAreCurrent
<1>1. bound \subseteq Peers /\ id \in [Peers -> Ids \union {0}] /\ nextId \in 2..(MaxId + 1)
    BY DEF TypeInv
<1>2. CASE UNCHANGED <<stale, id, bound>>
    BY <1>2
<1>3. CASE FinishCleanUp
  <2>1. bound = {}
      BY <1>3 DEF FinishCleanUp, GoInv, WillBeTold
  <2> QED BY <1>3, <2>1 DEF FinishCleanUp
<1>4. ASSUME NEW g \in tell, NEW unregisters \in BOOLEAN, NEW takes \in BOOLEAN,
             Told(g, unregisters, takes)
      PROVE  IdsAreCurrent'
    BY <1>1, <1>4 DEF Told
<1>5. ASSUME NEW p \in Peers, NEW drops \in BOOLEAN, Join(p, drops) PROVE IdsAreCurrent'
  <2>1. nextId # 0 /\ nextId # LegacyClient
      BY <1>1, IdsAre
  <2>2. /\ bound' = bound \union {p} /\ id' = [id EXCEPT ![p] = nextId]
        /\ stale' = stale \ {p}
      BY <1>5 DEF Join
  <2> QED BY <1>1, <2>1, <2>2
<1>6. ASSUME NEW p \in Peers, Leave(p) PROVE IdsAreCurrent'
    BY <1>1, <1>6 DEF Leave
<1>7. CASE \/ Load \/ Exit \/ Retry \/ StartTimer \/ ReleaseHook \/ Legacy
           \/ \E p \in Peers : \/ \E m \in Monitors, n \in 0..(MaxRects + 1) : Draw(p, m, n)
                               \/ Clear(p) \/ TakeHook(p)
    BY <1>2, <1>7 DEF Load, Exit, Retry, StartTimer, ReleaseHook, Legacy, Draw, Clear, TakeHook, peers
<1> QED BY <1>2, <1>3, <1>4, <1>5, <1>6, <1>7 DEF Next, vars

LEMMA RectsAsAskedNext ==
    ASSUME Heeding = Peers
    PROVE  Known /\ [Next]_vars => RectsAsAsked'
<1> SUFFICES ASSUME Known, [Next]_vars PROVE RectsAsAsked'
    OBVIOUS
<1> USE DEF Known, OwnInv, RectsAsAsked, Exists
<1>1. /\ bound \subseteq Peers /\ id \in [Peers -> Ids \union {0}]
      /\ put \in [Peers -> [Monitors -> 0..MaxRects]]
      /\ \A p \in bound : id[p] # LegacyClient
      /\ \A p, q \in bound : p # q => id[p] # id[q]
    BY DEF TypeInv, RectsFit, IdsAreCurrent, GoInv, IdsApart
<1>2. CASE UNCHANGED <<clients, bound, id, put>> /\ (Running' => Running)
    BY <1>2
<1>3. CASE Load \/ Exit
  <2>1. Running
      BY <1>3 DEF Load, Exit, Running
  <2> QED BY <1>2, <1>3, <2>1 DEF Load, Exit, peers
<1>4. CASE FinishCleanUp
  <2>1. bound = {} /\ bound' = {} /\ DOMAIN clients' = {}
      BY <1>4 DEF FinishCleanUp, GoInv, WillBeTold, NoClients
  <2> QED BY <2>1
<1>5. CASE Retry \/ StartTimer \/ ReleaseHook \/ \E p \in Peers : TakeHook(p)
  <2>1. Running' => Running
      BY <1>5 DEF Retry, StartTimer, ReleaseHook, TakeHook, Running
  <2> QED BY <1>2, <1>5, <2>1 DEF Retry, StartTimer, ReleaseHook, TakeHook, core, peers
<1>6. CASE Legacy
  <2>1. /\ DOMAIN clients' = DOMAIN clients \union {LegacyClient}
        /\ \A i \in DOMAIN clients \ {LegacyClient} : clients'[i] = clients[i]
        /\ UNCHANGED <<bound, id, put, phase>>
    <3>1. /\ DOMAIN WithLegacy = DOMAIN clients \union {LegacyClient}
          /\ \A i \in DOMAIN clients \ {LegacyClient} : WithLegacy[i] = clients[i]
        BY DEF WithLegacy, With
    <3> QED BY <1>6, <3>1 DEF Legacy, LegacyClear, LegacyAdd, peers
  <2> QED BY <1>1, <2>1 DEF Running
<1>7. ASSUME NEW g \in tell, NEW unregisters \in BOOLEAN, NEW takes \in BOOLEAN,
             Told(g, unregisters, takes)
      PROVE  RectsAsAsked'
  <2>1. g.peer \in bound /\ g.client = id[g.peer]
      BY DEF CallbacksAreCurrent
  <2>2. /\ ~Running' /\ bound' = bound \ {g.peer} /\ id' = [id EXCEPT ![g.peer] = 0]
        /\ put' = put /\ clients' \in {clients, Unregister(g.client)}
      BY <1>7 DEF Told, Running
  <2>3. ASSUME NEW p \in bound' PROVE p \in bound /\ id'[p] = id[p] /\ id[p] # g.client
      BY <1>1, <2>1, <2>2
  <2> QED BY <2>2, <2>3 DEF Unregister
<1>8. ASSUME NEW p \in Peers, NEW drops \in BOOLEAN, Join(p, drops) PROVE RectsAsAsked'
  <2> DEFINE none == [m \in Monitors |-> 0]
  <2>1. /\ p \notin bound /\ Running
        /\ bound' = bound \union {p} /\ id' = [id EXCEPT ![p] = nextId]
        /\ put' = [put EXCEPT ![p] = none] /\ clients' = With(clients, nextId)
      BY <1>8 DEF Join, Register
  <2>2. Drawn(none) = {}
      BY NothingDrawn
  <2> HIDE DEF none
  <2>3. \A q \in bound : id[q] # nextId
      BY DEF GoInv, LeftInv, Types, IdsApart
  <2>4. /\ DOMAIN clients' = DOMAIN clients \union {nextId} /\ clients'[nextId] = {}
        /\ \A i \in DOMAIN clients \ {nextId} : clients'[i] = clients[i]
      BY <2>1 DEF With
  <2>5. id'[p] = nextId /\ put'[p] = none /\ \A q \in bound : id'[q] = id[q] /\ put'[q] = put[q]
      BY <1>1, <2>1
  <2> QED BY <2>1, <2>2, <2>3, <2>4, <2>5
<1>9. ASSUME NEW p \in Peers, NEW m \in Monitors, NEW n \in 0..(MaxRects + 1), Draw(p, m, n)
      PROVE  RectsAsAsked'
  <2> DEFINE room == MaxRects - Cardinality(Drawn([put[p] EXCEPT ![m] = 0]))
             new == [put[p] EXCEPT ![m] = Lesser(n, room)]
  <2>1. n \in Nat /\ put[p] \in [Monitors -> 0..MaxRects] /\ Fits(Drawn(put[p]))
      BY PluginAssumption DEF RectsFit
  <2>2. Drawn(new) = RectsSet(Drawn(put[p]), m, n)
      BY <2>1, SetAsAsked
  <2>3. /\ p \in bound /\ put' = [put EXCEPT ![p] = new] /\ UNCHANGED <<bound, id, phase>>
        /\ clients' = SetRects(id[p], m, n)
      BY <1>9 DEF Draw
  <2> HIDE DEF new
  <2>4. clients' = [clients EXCEPT ![id[p]] = RectsSet(clients[id[p]], m, n)]
      BY <2>3 DEF SetRects
  <2>5. clients'[id[p]] = Drawn(new) /\ put'[p] = new
      BY <1>1, <2>2, <2>3, <2>4
  <2>6. /\ DOMAIN clients' = DOMAIN clients
        /\ \A q \in bound \ {p} : clients'[id[q]] = clients[id[q]] /\ put'[q] = put[q]
      BY <1>1, <2>3, <2>4
  <2> QED BY <2>3, <2>5, <2>6 DEF Running
<1>10. ASSUME NEW p \in Peers, Clear(p) PROVE RectsAsAsked'
  <2> DEFINE none == [m \in Monitors |-> 0]
  <2>1. Drawn(none) = {}
      BY NothingDrawn
  <2> HIDE DEF none
  <2>2. /\ p \in bound /\ put' = [put EXCEPT ![p] = none] /\ UNCHANGED <<bound, id, phase>>
        /\ clients' = [clients EXCEPT ![id[p]] = {}]
      BY <1>10 DEF Clear, ClearClient, none
  <2>3. clients'[id[p]] = Drawn(none) /\ put'[p] = none
      BY <1>1, <2>1, <2>2
  <2>4. /\ DOMAIN clients' = DOMAIN clients
        /\ \A q \in bound \ {p} : clients'[id[q]] = clients[id[q]] /\ put'[q] = put[q]
      BY <1>1, <2>2
  <2> QED BY <2>2, <2>3, <2>4 DEF Running
<1>11. ASSUME NEW p \in Peers, Leave(p) PROVE RectsAsAsked'
  <2>1. /\ Running /\ p \in bound /\ bound' = bound \ {p} /\ id' = [id EXCEPT ![p] = 0]
        /\ put' = put /\ clients' = Unregister(id[p])
      BY <1>11 DEF Leave
  <2>2. \A q \in bound' : q \in bound /\ id'[q] = id[q] /\ id[q] # id[p]
      BY <1>1, <2>1
  <2>3. /\ DOMAIN clients' = DOMAIN clients \ {id[p]}
        /\ \A i \in DOMAIN clients' : clients'[i] = clients[i]
      BY <2>1 DEF Unregister
  <2> QED BY <2>1, <2>2, <2>3
<1>12. CASE UNCHANGED vars
    BY <1>2, <1>12 DEF vars, Running
<1> QED BY <1>3, <1>4, <1>5, <1>6, <1>7, <1>8, <1>9, <1>10, <1>11, <1>12 DEF Next

\* When all peers heed the end, each has exactly the rects it asked for last, and
\* only the rects of peers that are there and of version 1 are kept (extra.rs),
\* through any sequence of registering, drawing, unloading and loading again.
THEOREM RectsOwnedCorrect ==
    ASSUME Heeding = Peers
    PROVE  Spec => []RectsOwned
<1>1. Init => Known
  <2>1. Init => GoInv
      BY LeftInvInit DEF Init, GoInv, WillBeTold, IdsApart, PeersLetGo
  <2>2. Init => OwnInv
      BY DEF Init, OwnInv, CallbacksAreCurrent, IdsAreCurrent, RectsAsAsked, NoClients
  <2> QED BY <2>1, <2>2, TypeInvInit DEF Known
<1>2. Known /\ [Next]_vars => Known'
    BY GoInvNext, TypeInvNext, RectsFitNext, CallbacksNext, IdsNext, RectsAsAskedNext
    DEF Known, OwnInv
<1>3. Known => RectsOwned
    BY DEF Known, OwnInv, IdsAreCurrent, RectsAsAsked, RectsOwned, TypeInv
<1> QED BY <1>1, <1>2, <1>3, PTL DEF Spec
=============================================================================

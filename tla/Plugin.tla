------------------------------- MODULE Plugin -------------------------------
(***************************************************************************)
(* The plugin's life in the compositor and its interface for other plugins *)
(* (src/shim/main.cpp, the hook in capture.cpp, src/src/extra.rs, and the   *)
(* binder in src/include/noshare_cover_api.h): loading, a load that fails, *)
(* unloading, who has the exclusive hook of renderMonitor, which clients   *)
(* hold which rects, and how long the library stays in memory.             *)
(*                                                                         *)
(* All of it runs on the compositor's main thread.  Only the callbacks of  *)
(* the clients run inside another call, the clean-up.                      *)
(***************************************************************************)
EXTENDS Integers, FiniteSets

CONSTANTS
    Peers,      \* other plugins
    Heeding,    \* those that set a gone callback
    Monitors,
    MaxRects,   \* MAX_RECTS_PER_CLIENT
    MaxId,      \* bound on client ids
    Us, Nobody  \* who may have the hook, besides a peer

LegacyClient == 1
Ids == LegacyClient..MaxId

ASSUME PluginAssumption ==
    /\ Heeding \subseteq Peers
    /\ MaxRects \in Nat
    /\ MaxId \in Nat \ {0}
    /\ Us # Nobody /\ {Us, Nobody} \intersect Peers = {}

VARIABLES
    mapped,     \* the library is in memory
    phase,      \* the plugin: "out", "in", or "leaving" (in cleanupAll)
    held,       \* what it has registered or running in the compositor
    hook,       \* who has hooked renderMonitor
    clients,    \* extra.rs CLIENTS: by id, a client's rects, numbered on their monitor
    nextId,
    gone,       \* extra.rs GONE: the callbacks set, whatever their order
    tell,       \* during the clean-up: the callbacks not called yet
    bound,      \* peers that have pointers into the library
    pins,       \* peers that have a dlopen handle of it
    id,         \* the client id of a peer, 0: none
    stale,      \* history: peers whose id is from before a reset
    put         \* history: rects of a peer by monitor, as it asked for

core  == <<clients, nextId, gone>>
peers == <<bound, pins, id, stale, put>>
vars  == <<mapped, phase, held, hook, clients, nextId, gone, tell, bound, pins, id,
           stale, put>>

----------------------------------------------------------------------------
\* Extra rects (extra.rs), as operators on the list of clients.

Exists(cl, i) == i \in DOMAIN cl
With(cl, i) == [j \in DOMAIN cl \union {i} |-> IF j = i THEN {} ELSE cl[j]]
Lesser(a, b) == IF a < b THEN a ELSE b
Others(rects, m) == {r \in rects : r[1] # m}
Numbered(m, n) == {<<m, k>> : k \in 1..n}

\* What a client has when it has asked for so many rects on each monitor.
Drawn(counts) == UNION {Numbered(m, counts[m]) : m \in DOMAIN counts}

\* Variant: the rects the client had on the monitor stay.
RectsAdded(rects, m, n) ==
    rects \union Numbered(m, Lesser(n, MaxRects - Cardinality(rects)))

\* set_rects: the n sane rects, as far as there is room, replace those on m.
RectsSet(rects, m, n) ==
    LET kept == Others(rects, m)
    IN  kept \union Numbered(m, Lesser(n, MaxRects - Cardinality(kept)))

Register == With(clients, nextId)
Unregister(i) == [j \in DOMAIN clients \ {i} |-> clients[j]]
SetRects(i, m, n) ==
    IF Exists(clients, i) THEN [clients EXCEPT ![i] = RectsSet(@, m, n)] ELSE clients
ClearClient(i) == IF Exists(clients, i) THEN [clients EXCEPT ![i] = {}] ELSE clients

\* The client of version 1 exists from its first use.
WithLegacy == IF Exists(clients, LegacyClient) THEN clients ELSE With(clients, LegacyClient)
LegacyClear == [WithLegacy EXCEPT ![LegacyClient] = {}]

OneMore(rects, m) == rects \union {<<m, Cardinality(rects) + 1>>}

\* Variant: version 1 knows no limit.
LegacyGrows(m) == [WithLegacy EXCEPT ![LegacyClient] = OneMore(@, m)]

LegacyAdd(m) ==
    IF Cardinality(WithLegacy[LegacyClient]) < MaxRects
    THEN [WithLegacy EXCEPT ![LegacyClient] = OneMore(@, m)] ELSE WithLegacy

\* nsc_api_set_gone_callback, for a client that exists
Callback(i, p) == [client |-> i, peer |-> p]
WithoutCallback(i) == {g \in gone : g.client # i}

\* Variant: there is room for one callback only.
SoleCallback(i, p) == {Callback(i, p)}

WithCallback(i, p) == WithoutCallback(i) \union {Callback(i, p)}

NoClients == [i \in {} |-> {}]

----------------------------------------------------------------------------
\* Loading and unloading (main.cpp), the hook (capture.cpp).

Registered == {"core", "config", "listeners"}
Timers == {"retry", "pump", "idle"}

Init ==
    /\ mapped = FALSE /\ phase = "out" /\ held = {} /\ hook = Nobody
    /\ clients = NoClients /\ nextId = LegacyClient + 1
    /\ gone = {} /\ tell = {}
    /\ bound = {} /\ pins = {} /\ stale = {}
    /\ id = [p \in Peers |-> 0]
    /\ put = [p \in Peers |-> [m \in Monitors |-> 0]]

\* installHooks: taken at once, or tried again by a timer, with the zoom hook or
\* without it.
InstallHooks ==
    /\ phase' = "in"
    /\ hook' = IF hook = Nobody THEN Us ELSE hook
    /\ \E zoom \in {{}, {"zoom"}} :
         held' = Registered \union zoom \union (IF hook = Nobody THEN {} ELSE {"retry"})
    /\ UNCHANGED <<gone, tell>>

\* cleanupAll up to the callbacks: listeners, hooks and timers go, then the list of
\* callbacks is taken.
\* Variant: the retry timer is forgotten.
StayingButHooks(all) == all \ {"listeners", "zoom", "pump", "idle"}
Staying(all) == all \ (Timers \union {"listeners", "zoom"})

CleanUp(all) ==
    /\ phase' = "leaving"
    /\ held' = Staying(all)
    /\ hook' = IF hook = Us THEN Nobody ELSE hook
    /\ tell' = gone
    /\ gone' = {}

\* PLUGIN_INIT.  It throws on foreign headers, before anything is registered, or
\* when renderMonitor is not found, after all of it was.
Load ==
    /\ phase = "out"
    /\ mapped' = TRUE
    /\ \/ InstallHooks
       \/ \E all \in {{}, Registered} : CleanUp(all)
    /\ UNCHANGED <<clients, nextId, peers>>

\* PLUGIN_EXIT
Exit ==
    /\ phase = "in"
    /\ CleanUp(held)
    /\ UNCHANGED <<mapped, clients, nextId, peers>>

\* nsc_api_notify_gone calls one client.  It forgets the plugin, may unregister
\* first, and may take renderMonitor back.
Told(g, unregisters, takes) ==
    /\ phase = "leaving" /\ g \in tell
    /\ tell' = tell \ {g}
    /\ clients' = IF unregisters THEN Unregister(g.client) ELSE clients
    /\ gone' = IF unregisters THEN WithoutCallback(g.client) ELSE gone
    /\ takes => hook = Nobody
    /\ hook' = IF takes THEN g.peer ELSE hook
    /\ bound' = bound \ {g.peer}
    /\ pins' = pins \ {g.peer}
    /\ id' = [id EXCEPT ![g.peer] = 0]
    /\ UNCHANGED <<mapped, phase, held, nextId, stale, put>>

\* The rest of cleanupAll; then the compositor closes the library, which stays in
\* memory as long as a peer pins it.
FinishCleanUp ==
    /\ phase = "leaving" /\ tell = {}
    /\ phase' = "out"
    /\ held' = held \ {"core", "config"}
    /\ clients' = NoClients
    /\ nextId' = LegacyClient + 1
    /\ gone' = {}
    /\ stale' = {p \in Peers : id[p] # 0}
    /\ mapped' = (pins # {})
    /\ UNCHANGED <<hook, tell, bound, pins, id, put>>

\* The timer of installHooks.
\* Variant: a try that fails is the last.
RetryOnce ==
    /\ "retry" \in held /\ hook # Us
    /\ hook' = IF hook = Nobody THEN Us ELSE hook
    /\ held' = held \ {"retry"}
    /\ UNCHANGED <<mapped, phase, core, tell, peers>>

Retry ==
    /\ "retry" \in held /\ hook = Nobody
    /\ hook' = Us
    /\ UNCHANGED <<mapped, phase, held, core, tell, peers>>

\* Closing windows and capture frames start the pump, capture frames the timer of
\* the scene's buffers.
StartTimer ==
    /\ phase = "in"
    /\ \E t \in {"pump", "idle"} :
         /\ t = "idle" => hook = Us
         /\ held' = held \union {t}
    /\ UNCHANGED <<mapped, phase, hook, core, tell, peers>>

----------------------------------------------------------------------------
\* Other plugins, as the header says to use the interface.

Running == phase # "leaving"

\* noshare_cover_bind, register_client, and for those that heed the end
\* set_gone_callback and, if they like, noshare_cover_drop_handle.
Join(p, drops) ==
    /\ Running /\ mapped /\ p \notin bound
    /\ nextId <= MaxId
    /\ drops => p \in Heeding
    /\ bound' = bound \union {p}
    /\ pins' = IF drops THEN pins ELSE pins \union {p}
    /\ id' = [id EXCEPT ![p] = nextId]
    /\ clients' = Register
    /\ nextId' = nextId + 1
    /\ gone' = IF p \in Heeding THEN WithCallback(nextId, p) ELSE gone
    /\ stale' = stale \ {p}
    /\ put' = [put EXCEPT ![p] = [m \in Monitors |-> 0]]
    /\ UNCHANGED <<mapped, phase, held, hook, tell>>

Draw(p, m, n) ==
    /\ Running /\ p \in bound
    /\ clients' = SetRects(id[p], m, n)
    /\ LET room == MaxRects - Cardinality(Drawn([put[p] EXCEPT ![m] = 0]))
       IN  put' = [put EXCEPT ![p][m] = Lesser(n, room)]
    /\ UNCHANGED <<mapped, phase, held, hook, nextId, gone, tell, bound, pins, id, stale>>

Clear(p) ==
    /\ Running /\ p \in bound
    /\ clients' = ClearClient(id[p])
    /\ put' = [put EXCEPT ![p] = [m \in Monitors |-> 0]]
    /\ UNCHANGED <<mapped, phase, held, hook, nextId, gone, tell, bound, pins, id, stale>>

\* Version 1 of the interface.
Legacy ==
    /\ Running /\ bound # {}
    /\ clients' = LegacyClear \/ \E m \in Monitors : clients' = LegacyAdd(m)
    /\ UNCHANGED <<mapped, phase, held, hook, nextId, gone, tell, peers>>

\* The peer goes: unregister_client, noshare_cover_unbind.  Its handle may have
\* been the last to keep the library in memory.
Leave(p) ==
    /\ Running /\ p \in bound
    /\ clients' = Unregister(id[p])
    /\ gone' = WithoutCallback(id[p])
    /\ bound' = bound \ {p}
    /\ pins' = pins \ {p}
    /\ mapped' = (phase = "in" \/ pins' # {})
    /\ id' = [id EXCEPT ![p] = 0]
    /\ hook' = IF hook = p THEN Nobody ELSE hook
    /\ UNCHANGED <<phase, held, nextId, tell, stale, put>>

\* A peer that hooks renderMonitor while the plugin is not loaded, and lets go of
\* it once it sees the plugin.
TakeHook(p) ==
    /\ phase = "out" /\ hook = Nobody
    /\ hook' = p
    /\ UNCHANGED <<mapped, phase, held, core, tell, peers>>

ReleaseHook ==
    /\ phase = "in" /\ hook \in Peers
    /\ hook' = Nobody
    /\ UNCHANGED <<mapped, phase, held, core, tell, peers>>

Next ==
    \/ Load \/ Exit \/ FinishCleanUp \/ Retry \/ StartTimer \/ ReleaseHook \/ Legacy
    \/ \E g \in tell, unregisters, takes \in BOOLEAN : Told(g, unregisters, takes)
    \/ \E p \in Peers :
         \/ \E drops \in BOOLEAN : Join(p, drops)
         \/ \E m \in Monitors, n \in 0..(MaxRects + 1) : Draw(p, m, n)
         \/ Clear(p) \/ Leave(p) \/ TakeHook(p)

Spec == Init /\ [][Next]_vars

\* Fairness: the retry timer fires, and a peer that sees the plugin lets go.
LiveSpec == Spec /\ WF_vars(Retry) /\ WF_vars(ReleaseHook)

----------------------------------------------------------------------------
\* Properties

TypeOK ==
    /\ mapped \in BOOLEAN
    /\ phase \in {"out", "in", "leaving"}
    /\ held \subseteq Registered \union Timers \union {"zoom"}
    /\ hook \in {Us, Nobody} \union Peers
    /\ DOMAIN clients \subseteq Ids
    /\ \A i \in DOMAIN clients : /\ clients[i] \subseteq Monitors \X (1..MaxRects)
                                 /\ Cardinality(clients[i]) <= MaxRects
    /\ nextId \in 2..(MaxId + 1)
    /\ gone \union tell \subseteq [client : Ids, peer : Peers]
    /\ bound \subseteq Peers /\ pins \subseteq bound /\ stale \subseteq Peers
    /\ id \in [Peers -> Ids \union {0}]
    /\ put \in [Peers -> [Monitors -> 0..MaxRects]]

\* Whatever the order of loads that succeed, loads that fail and unloads
\* (main.cpp's cleanupAll), nothing in the compositor still points into the
\* plugin when its clean-up is over, and no frame comes in once it has begun.
NothingLeft ==
    /\ phase = "out" => held = {}
    /\ phase # "in" => hook # Us /\ held \intersect Timers = {}

\* When all peers heed the end: no peer has pointers into a library that is gone,
\* and none keeps it in memory after its unload (ARCHITECTURE.md:82).
PeersLetGo == phase = "out" => ~mapped /\ bound = {}

\* Each client owns its rects (extra.rs): a peer that registered with the plugin
\* as it is now has exactly the rects it asked for last, and nobody else's are
\* kept but those of version 1.
RectsOwned ==
    /\ \A p \in Peers : id[p] # 0 /\ p \notin stale =>
         Exists(clients, id[p]) /\ clients[id[p]] = Drawn(put[p])
    /\ Running => \A i \in DOMAIN clients \ {LegacyClient} :
         \E p \in Peers : id[p] = i /\ p \notin stale

\* The order of loading does not matter: the plugin gets the hook from a peer that
\* had it first (installHooks' timer), and then keeps it.
HookComes == phase = "in" ~> (hook = Us \/ phase # "in")
=============================================================================

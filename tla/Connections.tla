---------------------------- MODULE Connections ----------------------------
(***************************************************************************)
(* The registry of database connections (cli/src/routes/connections.ts,    *)
(* state.ts, ssh-tunnel.ts): the `connections` table, the map of loaded    *)
(* connections next to it, and the map of SSH tunnels.  Each handler runs  *)
(* from one await to the next; the awaits are the close of a tunnel, its   *)
(* opening and the introspection of the database.  What a connection       *)
(* string says is one value, with the flag that it goes through SSH.       *)
(***************************************************************************)
EXTENDS Naturals, FiniteSets

CONSTANTS
    Names,      \* connection names
    Default,    \* the name 'default'
    Configs,    \* what a row can say
    Ssh,        \* the configurations with sshConfig.enabled
    None,       \* no row, no entry
    Handlers,   \* requests in flight at once
    MaxTunnels  \* bound of the model

ASSUME ConnectionsAssumption ==
    /\ Ssh \subseteq Configs
    /\ Default \in Names
    /\ None \notin Configs \union Names
    /\ MaxTunnels \in Nat

VARIABLES
    row,       \* the connections table
    live,      \* state._connections: the configuration an entry was built from
    reg,       \* state._tunnels: id of the registered tunnel, 0 for none
    open,      \* the tunnels that are open, with the name they were opened for
    dialled,   \* number of tunnels opened so far
    handler,   \* the requests in flight
    lost,      \* history: tunnels whose registration another one replaced, or
               \* the close of another one deleted
    overtaken  \* history: names whose row was last written under a load that
               \* still held the old one, or whose entry POST /api/connect has
               \* written since

vars == <<row, live, reg, open, dialled, handler, lost, overtaken>>

(* A load keeps the table as it read it and the names it has not tried. *)
Idle == [kind |-> "none", at |-> "idle", name |-> None, cfg |-> None, tunnel |-> 0,
         todo |-> {}, table |-> [n \in Names |-> None]]

HandlerState ==
    [kind: {"none", "load", "post", "connect", "delete"},
     at: {"idle", "picking", "closing", "dialling", "introspecting"},
     name: Names \union {None}, cfg: Configs \union {None}, tunnel: Nat,
     todo: SUBSET Names, table: [Names -> Configs \union {None}]]

InMap == {n \in Names : live[n] # None}
Holds(h, n) == handler[h].kind = "load" /\ (n \in handler[h].todo \/ handler[h].name = n)
HeldByLoad(n) == \E h \in Handlers : Holds(h, n)

Init ==
    /\ row \in [Names -> Configs \union {None}]
    /\ live = [n \in Names |-> None]
    /\ reg = [n \in Names |-> 0]
    /\ open = {}
    /\ dialled = 0
    /\ handler = [h \in Handlers |-> Idle]
    /\ lost = {}
    /\ overtaken = {}
----------------------------------------------------------------------------
Free(h) == handler[h].at = "idle"
Finish(h) == handler' = [handler EXCEPT ![h] = Idle]

(* The step after a connection string is resolved: a tunnel first, or the
   introspection at once. *)
Dial(r) == [r EXCEPT !.at = IF r.cfg \in Ssh THEN "dialling" ELSE "introspecting"]

(* Where a load goes when it is done with a name, successfully or not. *)
NextName(h) ==
    handler' = [handler EXCEPT ![h].at = "picking", ![h].name = None, ![h].cfg = None]
FinishOrNext(h) == IF handler[h].kind = "load" THEN NextName(h) ELSE Finish(h)

(* ensureConnectionsLoaded: only while the map is empty; one read. *)
StartLoad(h) ==
    /\ Free(h)
    /\ InMap = {}
    /\ handler' = [handler EXCEPT ![h] =
         [Idle EXCEPT !.kind = "load", !.at = "picking", !.table = row,
                      !.todo = {n \in Names : row[n] # None}]]
    /\ UNCHANGED <<row, live, reg, open, dialled, lost, overtaken>>

(* The next row of the loop; a name that is in the map by now is skipped. *)
PickName(h, n) ==
    /\ handler[h].at = "picking"
    /\ n \in handler[h].todo
    /\ LET r == [handler[h] EXCEPT !.todo = @ \ {n}]
       IN  handler' = [handler EXCEPT ![h] =
             IF n \in InMap THEN r ELSE Dial([r EXCEPT !.name = n, !.cfg = r.table[n]])]
    /\ UNCHANGED <<row, live, reg, open, dialled, lost, overtaken>>

EndLoad(h) ==
    /\ handler[h].at = "picking"
    /\ handler[h].todo = {}
    /\ Finish(h)
    /\ UNCHANGED <<row, live, reg, open, dialled, lost, overtaken>>

(* POST /api/connections: the registered tunnel is closed first. *)
StartPost(h, n, c) ==
    /\ Free(h)
    /\ LET r == [Idle EXCEPT !.kind = "post", !.name = n, !.cfg = c]
       IN  handler' = [handler EXCEPT ![h] =
             IF reg[n] # 0 THEN [r EXCEPT !.at = "closing", !.tunnel = reg[n]] ELSE Dial(r)]
    /\ UNCHANGED <<row, live, reg, open, dialled, lost, overtaken>>

(* Without SSH: POST /api/connections/demo, which closes no tunnel of its name,
   and POST /api/connect, which knows the map only. *)
StartDirect(h, n, c, kind) ==
    /\ Free(h)
    /\ c \notin Ssh
    /\ handler' = [handler EXCEPT ![h] =
         [Idle EXCEPT !.kind = kind, !.at = "introspecting", !.name = n, !.cfg = c]]
    /\ UNCHANGED <<row, live, reg, open, dialled, lost, overtaken>>

(* createSshTunnel, then _tunnels.set: what was registered is not looked at. *)
TunnelOpens(h) ==
    /\ handler[h].at = "dialling"
    /\ dialled < MaxTunnels
    /\ LET n == handler[h].name IN
         /\ dialled' = dialled + 1
         /\ open' = open \union {[id |-> dialled + 1, name |-> n]}
         /\ reg' = [reg EXCEPT ![n] = dialled + 1]
         /\ lost' = lost \union ({reg[n]} \ {0})
    /\ handler' = [handler EXCEPT ![h].at = "introspecting"]
    /\ UNCHANGED <<row, live, overtaken>>

(* Mutant: the failed attempt drops the registration and not the tunnel. *)
FailsUnregistered(h) ==
    /\ handler[h].at \in {"dialling", "introspecting"}
    /\ reg' = [reg EXCEPT ![handler[h].name] = 0]
    /\ FinishOrNext(h)
    /\ UNCHANGED <<row, live, open, dialled, lost, overtaken>>

(* The SSH host or the database refuses: a tunnel that is open by then stays
   open and registered. *)
ConnectFails(h) ==
    /\ handler[h].at \in {"dialling", "introspecting"}
    /\ FinishOrNext(h)
    /\ UNCHANGED <<row, live, reg, open, dialled, lost, overtaken>>

(* A load fills the map from the row it read; a POST fills the map and the
   table together. *)
Overtake(n) ==
    overtaken' = IF HeldByLoad(n) THEN overtaken \union {n} ELSE overtaken \ {n}

Introspected(h) ==
    /\ handler[h].at = "introspecting"
    /\ handler[h].kind # "connect"
    /\ live' = [live EXCEPT ![handler[h].name] = handler[h].cfg]
    /\ IF handler[h].kind = "post"
       THEN row' = [row EXCEPT ![handler[h].name] = handler[h].cfg] /\ Overtake(handler[h].name)
       ELSE UNCHANGED <<row, overtaken>>
    /\ FinishOrNext(h)
    /\ UNCHANGED <<reg, open, dialled, lost>>

(* The single-connection setters write into the first entry of the map, made
   for 'default' when there is none; then the entry of the name is written.
   The order of the map is left out: any entry may be the first. *)
Connected(h) ==
    /\ handler[h].at = "introspecting"
    /\ handler[h].kind = "connect"
    /\ \E first \in IF InMap = {} THEN {Default} ELSE InMap :
         /\ live' = [live EXCEPT ![first] = handler[h].cfg, ![handler[h].name] = handler[h].cfg]
         /\ overtaken' = overtaken \union {first, handler[h].name}
    /\ Finish(h)
    /\ UNCHANGED <<row, reg, open, dialled, lost>>

(* Mutant: the entry of the map outlives the row. *)
ForgetRow(n) ==
    /\ row' = [row EXCEPT ![n] = None]
    /\ Overtake(n)
    /\ UNCHANGED live

(* DELETE /api/connections/:name, past the close of its tunnel. *)
Forget(n) ==
    /\ live' = [live EXCEPT ![n] = None]
    /\ row' = [row EXCEPT ![n] = None]
    /\ Overtake(n)

StartDelete(h, n) ==
    /\ Free(h)
    /\ n \in InMap \/ row[n] # None
    /\ IF reg[n] # 0
       THEN /\ handler' = [handler EXCEPT ![h] =
                 [Idle EXCEPT !.kind = "delete", !.at = "closing", !.name = n,
                              !.tunnel = reg[n]]]
            /\ UNCHANGED <<row, live, overtaken>>
       ELSE Forget(n) /\ UNCHANGED handler
    /\ UNCHANGED <<reg, open, dialled, lost>>

(* closeTunnel after its await: the entry of the name goes, whichever tunnel
   it holds by now. *)
TunnelCloses(h) ==
    /\ handler[h].at = "closing"
    /\ LET n == handler[h].name IN
         /\ open' = {t \in open : t.id # handler[h].tunnel}
         /\ reg' = [reg EXCEPT ![n] = 0]
         /\ lost' = lost \union ({reg[n]} \ {0, handler[h].tunnel})
         /\ IF handler[h].kind = "delete"
            THEN Forget(n) /\ Finish(h)
            ELSE /\ handler' = [handler EXCEPT ![h] = Dial([@ EXCEPT !.tunnel = 0])]
                 /\ UNCHANGED <<row, live, overtaken>>
    /\ UNCHANGED dialled

(* The process ends, tunnels and maps with it; the table stays. *)
Restart ==
    /\ live' = [n \in Names |-> None]
    /\ reg' = [n \in Names |-> 0]
    /\ open' = {}
    /\ handler' = [h \in Handlers |-> Idle]
    /\ lost' = {}
    /\ overtaken' = {}
    /\ UNCHANGED <<row, dialled>>

Step(h) ==
    \/ StartLoad(h) \/ EndLoad(h)
    \/ \E n \in Names : PickName(h, n) \/ StartDelete(h, n)
    \/ \E n \in Names, c \in Configs :
         StartPost(h, n, c) \/ \E kind \in {"post", "connect"} : StartDirect(h, n, c, kind)
    \/ TunnelOpens(h) \/ ConnectFails(h) \/ Introspected(h) \/ Connected(h) \/ TunnelCloses(h)

Next == (\E h \in Handlers : Step(h)) \/ Restart

Spec == Init /\ [][Next]_vars
----------------------------------------------------------------------------
TypeOK ==
    /\ row \in [Names -> Configs \union {None}]
    /\ live \in [Names -> Configs \union {None}]
    /\ reg \in [Names -> 0..dialled]
    /\ open \subseteq [id: 1..dialled, name: Names]
    /\ dialled \in Nat
    /\ handler \in [Handlers -> HandlerState]
    /\ lost \subseteq 1..dialled
    /\ overtaken \subseteq Names

(* Requests query the configuration the table holds, however loads, POSTs and
   DELETEs interleave, except for a name whose row was written while a load
   held the old one: that load may put the old configuration back; and for the
   two entries that POST /api/connect writes without a row.  Either stays until
   the next write of the name. *)
MapMatchesTable ==
    \A n \in Names \ overtaken : live[n] # None => row[n] = live[n]

(* Every open tunnel is registered, so that the next POST, the DELETE or the
   exit closes it, except one whose registration was replaced: by a load that
   is tried again or by two requests for one name.  What is registered is
   open, and leads where its name says, however many requests fail or overlap. *)
TunnelsAccountedFor ==
    /\ {t.id : t \in open} \ lost = {reg[n] : n \in Names} \ {0}
    /\ \A t \in open, n \in Names : reg[n] = t.id => t.name = n

(* The comment on the DELETE handler: "Close and remove any SSH tunnel for
   this connection" (routes/connections.ts:480). *)
DeleteClosesTunnels == [][
    \A h \in Handlers :
      (handler[h].kind = "delete" /\ handler'[h].at = "idle")
      => \A t \in open' : t.name # handler[h].name]_vars
=============================================================================

-------------------------- MODULE ConnectionsProofs --------------------------
(* What holds of the connection registry for any number of names, requests and
   tunnels. *)
EXTENDS Connections, TLAPS

(* What every action does to the requests in flight: it writes one of them. *)
Writes(h, r) ==
    /\ r \in HandlerState
    /\ handler' = [handler EXCEPT ![h] = r]

LEMMA IdleState ==
    ASSUME ConnectionsAssumption
    PROVE  /\ Idle \in HandlerState /\ Idle.kind = "none" /\ Idle.at = "idle"
           /\ Idle.name = None /\ Idle.tunnel = 0 /\ Idle.todo = {}
  BY DEF ConnectionsAssumption, Idle, HandlerState

LEMMA DialFields ==
    ASSUME NEW r \in HandlerState
    PROVE  /\ Dial(r) \in HandlerState
           /\ Dial(r).at \in {"dialling", "introspecting"}
           /\ Dial(r).kind = r.kind /\ Dial(r).name = r.name /\ Dial(r).cfg = r.cfg
           /\ Dial(r).todo = r.todo /\ Dial(r).table = r.table
  BY DEF Dial, HandlerState

(* The record a request is left with, action by action. *)
LEMMA StartLoadWrites ==
    ASSUME ConnectionsAssumption, TypeOK, NEW h \in Handlers, StartLoad(h)
    PROVE  \E r : /\ Writes(h, r) /\ r.kind = "load" /\ r.at = "picking" /\ r.table = row
                  /\ r.name = None
  <1>1. PICK i, names : /\ i = Idle /\ i \in HandlerState /\ i.name = None
                        /\ names = {n \in Names : row[n] # None} /\ names \subseteq Names
    BY IdleState
  <1> DEFINE r == [i EXCEPT !.kind = "load", !.at = "picking", !.table = row, !.todo = names]
  <1>2. /\ r \in HandlerState /\ r.kind = "load" /\ r.at = "picking" /\ r.table = row
        /\ r.name = None
    <2>1. row \in [Names -> Configs \union {None}]
      BY DEF TypeOK
    <2> QED
      BY <1>1, <2>1 DEF HandlerState
  <1>3. handler' = [handler EXCEPT ![h] = r]
    BY <1>1 DEF StartLoad
  <1> HIDE DEF r
  <1> QED
    BY <1>2, <1>3 DEF Writes

LEMMA PickNameWrites ==
    ASSUME ConnectionsAssumption, TypeOK, NEW h \in Handlers, NEW n \in Names, PickName(h, n)
    PROVE  \E r : /\ Writes(h, r) /\ r.kind = handler[h].kind /\ r.table = handler[h].table
                  /\ r.todo \subseteq handler[h].todo
                  /\ \/ r.at = "picking" /\ r.name = handler[h].name
                     \/ /\ r.at \in {"dialling", "introspecting"}
                        /\ r.name = n /\ n \in handler[h].todo /\ r.cfg = r.table[n]
  <1> DEFINE r == [handler[h] EXCEPT !.todo = @ \ {n}]
             s == [r EXCEPT !.name = n, !.cfg = r.table[n]]
  <1>1. PICK q : q = handler[h] /\ q \in HandlerState
    BY DEF TypeOK
  <1>2. r = [q EXCEPT !.todo = @ \ {n}]
    BY <1>1
  <1>3. /\ r \in HandlerState /\ r.kind = q.kind /\ r.table = q.table /\ r.todo \subseteq q.todo
        /\ r.at = q.at /\ r.name = q.name
    BY <1>1, <1>2 DEF HandlerState
  <1>4. PICK p : p = r
    OBVIOUS
  <1>5. s = [p EXCEPT !.name = n, !.cfg = p.table[n]]
    BY <1>4
  <1>6. /\ s \in HandlerState /\ s.kind = p.kind /\ s.table = p.table /\ s.todo = p.todo
        /\ s.name = n /\ s.cfg = s.table[n]
    BY <1>3, <1>4, <1>5 DEF HandlerState
  <1>7. handler' = [handler EXCEPT ![h] = IF n \in InMap THEN r ELSE Dial(s)]
    BY DEF PickName
  <1>8. n \in handler[h].todo /\ handler[h].at = "picking"
    BY DEF PickName
  <1> HIDE DEF r, s
  <1>9. CASE n \in InMap
    BY <1>1, <1>3, <1>7, <1>8, <1>9 DEF Writes
  <1>10. CASE n \notin InMap
    <2>1. Writes(h, Dial(s))
      BY <1>6, <1>7, <1>10, DialFields DEF Writes
    <2>2. /\ Dial(s).kind = handler[h].kind /\ Dial(s).table = handler[h].table
          /\ Dial(s).todo \subseteq handler[h].todo /\ Dial(s).name = n
          /\ Dial(s).cfg = Dial(s).table[n] /\ Dial(s).at \in {"dialling", "introspecting"}
      BY <1>1, <1>3, <1>4, <1>6, DialFields
    <2> QED
      BY <1>8, <2>1, <2>2
  <1> QED
    BY <1>9, <1>10

LEMMA StartPostWrites ==
    ASSUME ConnectionsAssumption, TypeOK, NEW h \in Handlers, NEW n \in Names, NEW c \in Configs,
           StartPost(h, n, c)
    PROVE  \E r : /\ Writes(h, r) /\ r.kind = "post" /\ r.name = n
                  /\ \/ r.at = "closing" /\ r.tunnel = reg[n] /\ reg[n] # 0
                     \/ r.at \in {"dialling", "introspecting"}
  <1>1. PICK i : i = Idle /\ i \in HandlerState
    BY IdleState
  <1> DEFINE r == [i EXCEPT !.kind = "post", !.name = n, !.cfg = c]
             s == [r EXCEPT !.at = "closing", !.tunnel = reg[n]]
  <1>2. r \in HandlerState /\ r.kind = "post" /\ r.name = n
    BY <1>1 DEF HandlerState
  <1>3. reg[n] \in Nat
    BY DEF TypeOK
  <1>4. /\ s \in HandlerState /\ s.kind = "post" /\ s.name = n /\ s.at = "closing"
        /\ s.tunnel = reg[n]
    <2>1. PICK q : q = r
      OBVIOUS
    <2>2. q \in HandlerState /\ q.kind = "post" /\ q.name = n
      BY <1>2, <2>1
    <2>3. s = [q EXCEPT !.at = "closing", !.tunnel = reg[n]]
      BY <2>1
    <2> HIDE DEF r, s
    <2> QED
      BY <1>3, <2>2, <2>3 DEF HandlerState
  <1>5. handler' = [handler EXCEPT ![h] = IF reg[n] # 0 THEN s ELSE Dial(r)]
    BY <1>1 DEF StartPost
  <1> HIDE DEF r, s
  <1> QED
    BY <1>2, <1>4, <1>5, DialFields DEF Writes

LEMMA StartDirectWrites ==
    ASSUME ConnectionsAssumption, TypeOK, NEW h \in Handlers, NEW n \in Names, NEW c \in Configs,
           NEW kind \in {"post", "connect"}, StartDirect(h, n, c, kind)
    PROVE  \E r : /\ Writes(h, r) /\ r.kind = kind /\ r.name = n /\ r.at = "introspecting"
  <1>1. PICK i : i = Idle /\ i \in HandlerState
    BY IdleState
  <1> DEFINE r == [i EXCEPT !.kind = kind, !.at = "introspecting", !.name = n, !.cfg = c]
  <1>2. r \in HandlerState /\ r.kind = kind /\ r.name = n /\ r.at = "introspecting"
    BY <1>1 DEF HandlerState
  <1>3. handler' = [handler EXCEPT ![h] = r]
    BY <1>1 DEF StartDirect
  <1> HIDE DEF r
  <1> QED
    BY <1>2, <1>3 DEF Writes

LEMMA StartDeleteWrites ==
    ASSUME ConnectionsAssumption, TypeOK, NEW h \in Handlers, NEW n \in Names, StartDelete(h, n)
    PROVE  \/ handler' = handler /\ Forget(n)
           \/ /\ UNCHANGED <<row, live, overtaken>>
              /\ \E r : /\ Writes(h, r) /\ r.kind = "delete" /\ r.name = n
                        /\ r.at = "closing" /\ r.tunnel = reg[n] /\ reg[n] # 0
  <1>1. PICK i : i = Idle /\ i \in HandlerState
    BY IdleState
  <1> DEFINE r == [i EXCEPT !.kind = "delete", !.at = "closing", !.name = n, !.tunnel = reg[n]]
  <1>2. reg[n] \in Nat
    BY DEF TypeOK
  <1>3. /\ r \in HandlerState /\ r.kind = "delete" /\ r.name = n /\ r.at = "closing"
        /\ r.tunnel = reg[n]
    BY <1>1, <1>2 DEF HandlerState
  <1>4. CASE reg[n] # 0
    <2>1. handler' = [handler EXCEPT ![h] = r] /\ UNCHANGED <<row, live, overtaken>>
      BY <1>1, <1>4 DEF StartDelete
    <2> HIDE DEF r
    <2> QED
      BY <1>3, <1>4, <2>1 DEF Writes
  <1>5. CASE reg[n] = 0
    BY <1>5 DEF StartDelete
  <1> QED
    BY <1>4, <1>5

LEMMA TunnelOpensWrites ==
    ASSUME TypeOK, NEW h \in Handlers, TunnelOpens(h)
    PROVE  \E r : /\ Writes(h, r) /\ r.at = "introspecting" /\ r.kind = handler[h].kind
                  /\ r.name = handler[h].name /\ r.cfg = handler[h].cfg
                  /\ r.table = handler[h].table /\ r.todo = handler[h].todo
  <1>1. PICK q : q = handler[h] /\ q \in HandlerState
    BY DEF TypeOK
  <1> DEFINE r == [q EXCEPT !.at = "introspecting"]
  <1>2. /\ r \in HandlerState /\ r.at = "introspecting" /\ r.kind = q.kind /\ r.name = q.name
        /\ r.cfg = q.cfg /\ r.table = q.table /\ r.todo = q.todo
    BY <1>1 DEF HandlerState
  <1>3. handler' = [handler EXCEPT ![h] = r]
    BY <1>1 DEF TunnelOpens
  <1> HIDE DEF r
  <1> QED
    BY <1>1, <1>2, <1>3 DEF Writes

(* How a request ends its turn with a name. *)
LEMMA FinishWrites ==
    ASSUME ConnectionsAssumption, TypeOK, NEW h \in Handlers, FinishOrNext(h)
    PROVE  \E r : /\ Writes(h, r)
                  /\ \/ r.kind = "none" /\ r.at = "idle"
                     \/ /\ r.kind = "load" /\ handler[h].kind = "load" /\ r.at = "picking"
                        /\ r.name = None /\ r.table = handler[h].table
                        /\ r.todo = handler[h].todo
  <1>1. PICK q : q = handler[h] /\ q \in HandlerState
    BY DEF TypeOK
  <1> DEFINE r == [q EXCEPT !.at = "picking", !.name = None, !.cfg = None]
  <1>2. /\ r \in HandlerState /\ r.at = "picking" /\ r.kind = q.kind /\ r.name = None
        /\ r.table = q.table /\ r.todo = q.todo
    BY <1>1 DEF HandlerState
  <1>3. CASE handler[h].kind = "load"
    <2>1. handler' = [handler EXCEPT ![h] = r]
      BY <1>1, <1>3 DEF FinishOrNext, NextName, TypeOK
    <2> HIDE DEF r
    <2> QED
      BY <1>1, <1>2, <1>3, <2>1 DEF Writes
  <1>4. CASE handler[h].kind # "load"
    BY <1>4, IdleState DEF FinishOrNext, Finish, Writes
  <1> QED
    BY <1>3, <1>4

LEMMA TunnelClosesWrites ==
    ASSUME ConnectionsAssumption, TypeOK, NEW h \in Handlers, TunnelCloses(h)
    PROVE  \E r : /\ Writes(h, r)
                  /\ \/ /\ r.kind = "none" /\ r.at = "idle" /\ Forget(handler[h].name)
                     \/ /\ r.at \in {"dialling", "introspecting"} /\ r.kind = handler[h].kind
                        /\ r.name = handler[h].name /\ r.kind # "delete"
                        /\ UNCHANGED <<row, live, overtaken>>
  <1>1. PICK q : q = handler[h] /\ q \in HandlerState
    BY DEF TypeOK
  <1> DEFINE r == [q EXCEPT !.tunnel = 0]
  <1>2. r \in HandlerState /\ r.kind = q.kind /\ r.name = q.name
    BY <1>1 DEF HandlerState
  <1>3. CASE handler[h].kind = "delete"
    BY <1>3, IdleState DEF TunnelCloses, Finish, Writes
  <1>4. CASE handler[h].kind # "delete"
    <2>1. handler' = [handler EXCEPT ![h] = Dial(r)]
      BY <1>1, <1>4 DEF TunnelCloses
    <2> HIDE DEF r
    <2>2. UNCHANGED <<row, live, overtaken>>
      BY <1>4 DEF TunnelCloses
    <2>3. PICK d : /\ d = Dial(r) /\ d \in HandlerState /\ d.at \in {"dialling", "introspecting"}
                   /\ d.kind = r.kind /\ d.name = r.name
      BY <1>2, DialFields
    <2> QED
      BY <1>1, <1>2, <1>4, <2>1, <2>2, <2>3 DEF Writes
  <1> QED
    BY <1>3, <1>4
----------------------------------------------------------------------------
(* A request past its first step is about a name; only a POST or a DELETE waits
   for a close, of the tunnel that was registered for its name and never for
   another one; a load works from the row it read. *)
HandlerOK(r) ==
    /\ r.at \in {"closing", "dialling", "introspecting"} => r.name \in Names
    /\ r.kind = "none" => r.at = "idle"
    /\ r.kind = "delete" => r.at = "closing"
    /\ r.kind = "load" => r.at # "closing"
    /\ r.kind = "load" /\ r.at \in {"dialling", "introspecting"} => r.cfg = r.table[r.name]

ClosesItsOwn(r) ==
    r.at = "closing" =>
      /\ r.tunnel \in 1..dialled
      /\ \A m \in Names : reg[m] = r.tunnel => m = r.name

(* The registrations are told apart by their tunnels. *)
RegDistinct == \A m, n \in Names : reg[m] = reg[n] /\ reg[m] # 0 => m = n

TypeInv == TypeOK /\ \A h \in Handlers : HandlerOK(handler[h])

TunnelInv ==
    /\ \A h \in Handlers : ClosesItsOwn(handler[h])
    /\ RegDistinct
    /\ TunnelsAccountedFor

(* A load that still holds a name holds the row the table has, or the name was
   overtaken. *)
LoadInv ==
    \A h \in Handlers, n \in Names \ overtaken :
      Holds(h, n) => handler[h].table[n] = row[n]

LEMMA TypeWrites ==
    ASSUME TypeInv, NEW h \in Handlers, NEW r, Writes(h, r), HandlerOK(r)
    PROVE  /\ handler' \in [Handlers -> HandlerState]
           /\ \A g \in Handlers : HandlerOK(handler'[g])
  BY DEF TypeInv, TypeOK, Writes

LEMMA TypeStep ==
    ASSUME ConnectionsAssumption, TypeInv, [Next]_vars
    PROVE  TypeInv'
  <1> USE DEF TypeInv
  <1>0. HandlerOK(Idle)
    BY IdleState DEF HandlerOK
  <1>1. ASSUME NEW h \in Handlers, StartLoad(h)  PROVE TypeInv'
    <2>1. PICK r : Writes(h, r) /\ r.kind = "load" /\ r.at = "picking"
      BY <1>1, StartLoadWrites
    <2>2. HandlerOK(r)
      BY <2>1 DEF HandlerOK
    <2> QED
      BY <1>1, <2>1, <2>2, TypeWrites DEF StartLoad, TypeOK, HandlerOK
  <1>2. ASSUME NEW h \in Handlers, EndLoad(h)  PROVE TypeInv'
    <2>1. Writes(h, Idle)
      BY <1>2, IdleState DEF EndLoad, Finish, Writes
    <2> QED
      BY <1>0, <1>2, <2>1, TypeWrites DEF EndLoad, TypeOK, HandlerOK
  <1>3. ASSUME NEW h \in Handlers, NEW n \in Names, PickName(h, n)  PROVE TypeInv'
    <2>1. PICK r : /\ Writes(h, r) /\ r.kind = handler[h].kind
                   /\ \/ r.at = "picking"
                      \/ r.at \in {"dialling", "introspecting"} /\ r.name = n /\ r.cfg = r.table[n]
      BY <1>3, PickNameWrites
    <2>2. HandlerOK(handler[h]) /\ handler[h].at = "picking"
      BY <1>3 DEF PickName
    <2>3. HandlerOK(r)
      BY <2>1, <2>2 DEF HandlerOK
    <2> QED
      BY <1>3, <2>1, <2>3, TypeWrites DEF PickName, TypeOK, HandlerOK
  <1>4. ASSUME NEW h \in Handlers, NEW n \in Names, NEW c \in Configs, StartPost(h, n, c)
        PROVE  TypeInv'
    <2>1. PICK r : /\ Writes(h, r) /\ r.kind = "post" /\ r.name = n
      BY <1>4, StartPostWrites
    <2>2. HandlerOK(r)
      BY <2>1 DEF HandlerOK
    <2> QED
      BY <1>4, <2>1, <2>2, TypeWrites DEF StartPost, TypeOK, HandlerOK
  <1>15. ASSUME NEW h \in Handlers, NEW n \in Names, NEW c \in Configs,
                NEW kind \in {"post", "connect"}, StartDirect(h, n, c, kind)
         PROVE  TypeInv'
    <2>1. PICK r : /\ Writes(h, r) /\ r.kind = kind /\ r.name = n /\ r.at = "introspecting"
      BY <1>15, StartDirectWrites
    <2>2. HandlerOK(r)
      BY <2>1 DEF HandlerOK
    <2> QED
      BY <1>15, <2>1, <2>2, TypeWrites DEF StartDirect, TypeOK, HandlerOK
  <1>5. ASSUME NEW n \in Names, Forget(n)
        PROVE  /\ row' \in [Names -> Configs \union {None}]
               /\ live' \in [Names -> Configs \union {None}] /\ overtaken' \subseteq Names
    BY <1>5 DEF TypeOK, Forget, Overtake
  <1>6. ASSUME NEW h \in Handlers, NEW n \in Names, StartDelete(h, n)  PROVE TypeInv'
    <2>1. UNCHANGED <<reg, open, dialled, lost>>
      BY <1>6 DEF StartDelete
    <2>2. CASE handler' = handler /\ Forget(n)
      BY <1>5, <2>1, <2>2 DEF TypeOK
    <2>3. ASSUME NEW r, Writes(h, r), r.kind = "delete", r.name = n, r.at = "closing",
                 UNCHANGED <<row, live, overtaken>>
          PROVE  TypeInv'
      <3>1. HandlerOK(r)
        BY <2>3 DEF HandlerOK
      <3> QED
        BY <2>1, <2>3, <3>1, TypeWrites DEF TypeOK
    <2> QED
      BY <1>6, <2>2, <2>3, StartDeleteWrites
  <1>7. ASSUME NEW h \in Handlers, TunnelOpens(h)  PROVE TypeInv'
    <2>1. PICK r : /\ Writes(h, r) /\ r.at = "introspecting" /\ r.kind = handler[h].kind
                   /\ r.name = handler[h].name /\ r.cfg = handler[h].cfg
                   /\ r.table = handler[h].table
      BY <1>7, TunnelOpensWrites
    <2>2. HandlerOK(handler[h]) /\ handler[h].at = "dialling"
      BY <1>7 DEF TunnelOpens
    <2>3. HandlerOK(r)
      BY <2>1, <2>2 DEF HandlerOK
    <2>4. PICK n \in Names : n = handler[h].name
      BY <2>2 DEF HandlerOK
    <2>5. /\ dialled \in Nat /\ dialled' = dialled + 1
          /\ open' = open \union {[id |-> dialled + 1, name |-> n]}
          /\ reg' = [reg EXCEPT ![n] = dialled + 1]
          /\ lost' = lost \union ({reg[n]} \ {0})
          /\ UNCHANGED <<row, live, overtaken>>
      BY <1>7, <2>4 DEF TypeOK, TunnelOpens
    <2>6. [id |-> dialled + 1, name |-> n] \in [id: 1..dialled', name: Names]
      BY <2>5
    <2>7. open' \subseteq [id: 1..dialled', name: Names]
      BY <2>5, <2>6 DEF TypeOK
    <2>8. reg' \in [Names -> 0..dialled'] /\ lost' \subseteq 1..dialled' /\ dialled' \in Nat
      <3>1. reg \in [Names -> 0..dialled] /\ lost \subseteq 1..dialled
        BY DEF TypeOK
      <3>2. 0..dialled \subseteq 0..dialled' /\ 1..dialled \subseteq 1..dialled'
            /\ dialled + 1 \in 1..dialled' /\ dialled + 1 \in 0..dialled' /\ dialled' \in Nat
        BY <2>5
      <3>3. reg[n] \in 0..dialled /\ (reg[n] # 0 => reg[n] \in 1..dialled)
        BY <2>5, <3>1
      <3> QED
        BY <2>5, <3>1, <3>2, <3>3
    <2> QED
      BY <2>1, <2>3, <2>5, <2>7, <2>8, TypeWrites DEF TypeOK
  <1>8. ASSUME NEW h \in Handlers, FinishOrNext(h)
        PROVE  /\ handler' \in [Handlers -> HandlerState]
               /\ \A g \in Handlers : HandlerOK(handler'[g])
    <2>1. PICK r : /\ Writes(h, r)
                   /\ \/ r.kind = "none" /\ r.at = "idle"
                      \/ r.kind = "load" /\ r.at = "picking"
      BY <1>8, FinishWrites
    <2>2. HandlerOK(r)
      BY <2>1 DEF HandlerOK
    <2> QED
      BY <2>1, <2>2, TypeWrites
  <1>9. ASSUME NEW h \in Handlers, ConnectFails(h)  PROVE TypeInv'
    BY <1>8, <1>9 DEF ConnectFails, TypeOK
  <1>10. ASSUME NEW h \in Handlers, Introspected(h)  PROVE TypeInv'
    <2>1. PICK n \in Names, c \in Configs \union {None} : n = handler[h].name /\ c = handler[h].cfg
      <3>1. handler[h].at = "introspecting" /\ HandlerOK(handler[h]) /\ handler[h] \in HandlerState
        BY <1>10 DEF Introspected, TypeOK
      <3>2. handler[h].name \in Names
        BY <3>1 DEF HandlerOK
      <3>3. handler[h].cfg \in Configs \union {None}
        BY <3>1 DEF HandlerState
      <3> QED
        BY <3>2, <3>3
    <2>2. /\ live' = [live EXCEPT ![n] = c] /\ FinishOrNext(h)
          /\ UNCHANGED <<reg, open, dialled, lost>>
          /\ \/ row' = [row EXCEPT ![n] = c] /\ Overtake(n)
             \/ UNCHANGED <<row, overtaken>>
      BY <1>10, <2>1 DEF Introspected
    <2> QED
      BY <1>8, <2>1, <2>2 DEF TypeOK, Overtake
  <1>11. ASSUME NEW h \in Handlers, TunnelCloses(h)  PROVE TypeInv'
    <2>1. PICK n \in Names : n = handler[h].name
      BY <1>11 DEF TunnelCloses, HandlerOK
    <2>2. /\ open' \subseteq open /\ reg' = [reg EXCEPT ![n] = 0]
          /\ lost' = lost \union ({reg[n]} \ {0, handler[h].tunnel}) /\ dialled' = dialled
      BY <1>11, <2>1 DEF TunnelCloses
    <2>3. PICK r : /\ Writes(h, r)
                   /\ \/ r.kind = "none" /\ r.at = "idle" /\ Forget(n)
                      \/ /\ r.at \in {"dialling", "introspecting"} /\ r.kind = handler[h].kind
                         /\ r.name = n /\ r.kind # "delete" /\ UNCHANGED <<row, live, overtaken>>
      BY <1>11, <2>1, TunnelClosesWrites
    <2>4. HandlerOK(r)
      <3>1. HandlerOK(handler[h]) /\ handler[h].at = "closing"
        BY <1>11 DEF TunnelCloses
      <3> QED
        BY <2>3, <3>1 DEF HandlerOK
    <2>5. /\ row' \in [Names -> Configs \union {None}]
          /\ live' \in [Names -> Configs \union {None}] /\ overtaken' \subseteq Names
      BY <1>5, <2>3 DEF TypeOK
    <2>6. reg' \in [Names -> 0..dialled'] /\ lost' \subseteq 1..dialled' /\ dialled' \in Nat
      <3>1. reg \in [Names -> 0..dialled] /\ lost \subseteq 1..dialled /\ dialled \in Nat
        BY DEF TypeOK
      <3>2. reg[n] \in 0..dialled /\ 0 \in 0..dialled /\ (reg[n] # 0 => reg[n] \in 1..dialled)
        BY <3>1
      <3> QED
        BY <2>2, <3>1, <3>2
    <2> QED
      BY <2>2, <2>3, <2>4, <2>5, <2>6, TypeWrites DEF TypeOK
  <1>16. ASSUME NEW h \in Handlers, Connected(h)  PROVE TypeInv'
    <2>1. PICK n \in Names, c \in Configs \union {None} : n = handler[h].name /\ c = handler[h].cfg
      <3>1. handler[h].at = "introspecting" /\ HandlerOK(handler[h]) /\ handler[h] \in HandlerState
        BY <1>16 DEF Connected, TypeOK
      <3> QED
        BY <3>1 DEF HandlerOK, HandlerState
    <2>2. PICK first \in Names : /\ live' = [live EXCEPT ![first] = c, ![n] = c]
                                /\ overtaken' = overtaken \union {first, n}
      BY <1>16, <2>1 DEF Connected, InMap, ConnectionsAssumption
    <2>3. FinishOrNext(h) /\ UNCHANGED <<row, reg, open, dialled, lost>>
      BY <1>16 DEF Connected, FinishOrNext
    <2> QED
      BY <1>8, <2>2, <2>3 DEF TypeOK
  <1>12. CASE Restart
    <2>1. handler' \in [Handlers -> HandlerState] /\ \A g \in Handlers : HandlerOK(handler'[g])
      BY <1>0, <1>12, IdleState DEF Restart
    <2> QED
      BY <1>12, <2>1 DEF Restart, TypeOK
  <1>13. CASE UNCHANGED vars
    BY <1>13 DEF vars, TypeOK, HandlerOK
  <1> QED
    BY <1>1, <1>2, <1>3, <1>4, <1>6, <1>7, <1>9, <1>10, <1>11, <1>12, <1>13, <1>15, <1>16
    DEF Next, Step

LEMMA TypeInvariant == Spec => []TypeInv
  <1>1. Init => TypeInv
    <2>1. Idle \in HandlerState /\ HandlerOK(Idle)
      BY ConnectionsAssumption, IdleState DEF HandlerOK
    <2>2. Init => \A h \in Handlers : handler[h] = Idle
      BY DEF Init
    <2> QED
      BY <2>1, <2>2 DEF Init, TypeInv, TypeOK
  <1>2. TypeInv /\ [Next]_vars => TypeInv'
    BY ConnectionsAssumption, TypeStep
  <1> QED
    BY <1>1, <1>2, PTL DEF Spec

(* The type invariant of the registry. *)
THEOREM TypeCorrect == Spec => []TypeOK
  <1>1. TypeInv => TypeOK
    BY DEF TypeInv
  <1> QED
    BY <1>1, TypeInvariant, PTL
----------------------------------------------------------------------------
(* Where a close is about to happen it stays about the tunnel of its name, as
   long as no old tunnel is registered anew. *)
LEMMA ClosesKept ==
    ASSUME TypeInv, NEW r, ClosesItsOwn(r),
           dialled' \in Nat, dialled <= dialled',
           \A m \in Names : reg'[m] = reg[m] \/ reg'[m] = 0 \/ reg'[m] = dialled + 1
    PROVE  ClosesItsOwn(r)'
  <1>1. dialled \in Nat
    BY DEF TypeInv, TypeOK
  <1>2. CASE r.at = "closing"
    <2>1. PICK t : t = r.tunnel /\ t \in 1..dialled /\ t # 0 /\ t # dialled + 1 /\ t \in 1..dialled'
      BY <1>1, <1>2 DEF ClosesItsOwn
    <2> QED
      BY <1>2, <2>1 DEF ClosesItsOwn
  <1> QED
    BY <1>2 DEF ClosesItsOwn

LEMMA TunnelStep ==
    ASSUME ConnectionsAssumption, TypeInv, TunnelInv, [Next]_vars
    PROVE  TunnelInv'
  <1>0. /\ dialled \in Nat /\ reg \in [Names -> 0..dialled] /\ lost \subseteq 1..dialled
        /\ open \subseteq [id: 1..dialled, name: Names]
    BY DEF TypeInv, TypeOK
  \* a request that waits for no close changes no tunnel
  <1>1. ASSUME NEW h \in Handlers, NEW r, Writes(h, r),
               UNCHANGED <<reg, open, dialled, lost>>,
               r.at # "closing" \/ ClosesItsOwn(r)
        PROVE  TunnelInv'
    <2>1. \A g \in Handlers : handler'[g] = IF g = h THEN r ELSE handler[g]
      BY <1>1 DEF Writes, TypeInv, TypeOK
    <2>2. ClosesItsOwn(r)
      BY <1>1 DEF ClosesItsOwn
    <2>3. \A g \in Handlers : ClosesItsOwn(handler'[g])
      BY <2>1, <2>2 DEF TunnelInv
    <2>4. \A g \in Handlers : ClosesItsOwn(handler[g])'
      BY <1>1, <2>3 DEF ClosesItsOwn
    <2> QED
      BY <1>1, <2>4 DEF TunnelInv, RegDistinct, TunnelsAccountedFor
  <1>2. ASSUME NEW h \in Handlers, StartLoad(h)  PROVE TunnelInv'
    <2>1. PICK r : Writes(h, r) /\ r.at # "closing"
      BY <1>2, StartLoadWrites DEF TypeInv
    <2> QED
      BY <1>1, <1>2, <2>1 DEF StartLoad
  <1>3. ASSUME NEW h \in Handlers, EndLoad(h)  PROVE TunnelInv'
    <2>1. Writes(h, Idle) /\ Idle.at # "closing"
      BY <1>3, IdleState DEF EndLoad, Finish, Writes
    <2> QED
      BY <1>1, <1>3, <2>1 DEF EndLoad
  <1>4. ASSUME NEW h \in Handlers, NEW n \in Names, PickName(h, n)  PROVE TunnelInv'
    <2>1. PICK r : Writes(h, r) /\ r.at # "closing"
      BY <1>4, PickNameWrites DEF TypeInv
    <2> QED
      BY <1>1, <1>4, <2>1 DEF PickName
  <1>5. ASSUME NEW r, NEW n \in Names, r.at = "closing", r.name = n, r.tunnel = reg[n], reg[n] # 0
        PROVE  ClosesItsOwn(r)
    BY <1>0, <1>5 DEF ClosesItsOwn, TunnelInv, RegDistinct
  <1>6. ASSUME NEW h \in Handlers, NEW n \in Names, NEW c \in Configs, StartPost(h, n, c)
        PROVE  TunnelInv'
    <2>1. PICK r : /\ Writes(h, r) /\ r.name = n
                   /\ \/ r.at = "closing" /\ r.tunnel = reg[n] /\ reg[n] # 0
                      \/ r.at \in {"dialling", "introspecting"}
      BY <1>6, StartPostWrites DEF TypeInv
    <2>2. r.at # "closing" \/ ClosesItsOwn(r)
      BY <1>5, <2>1
    <2> QED
      BY <1>1, <1>6, <2>1, <2>2 DEF StartPost
  <1>15. ASSUME NEW h \in Handlers, NEW n \in Names, NEW c \in Configs,
                NEW kind \in {"post", "connect"}, StartDirect(h, n, c, kind)
         PROVE  TunnelInv'
    <2>1. PICK r : Writes(h, r) /\ r.at = "introspecting"
      BY <1>15, StartDirectWrites DEF TypeInv
    <2> QED
      BY <1>1, <1>15, <2>1 DEF StartDirect
  <1>7. ASSUME NEW h \in Handlers, NEW n \in Names, StartDelete(h, n)  PROVE TunnelInv'
    <2>1. UNCHANGED <<reg, open, dialled, lost>>
      BY <1>7 DEF StartDelete
    <2>2. CASE handler' = handler
      BY <2>1, <2>2 DEF TunnelInv, RegDistinct, TunnelsAccountedFor, ClosesItsOwn
    <2>3. ASSUME NEW r, Writes(h, r), r.at = "closing", r.name = n, r.tunnel = reg[n], reg[n] # 0
          PROVE  TunnelInv'
      <3>1. ClosesItsOwn(r)
        BY <1>5, <2>3
      <3> QED
        BY <1>1, <2>1, <2>3, <3>1
    <2> QED
      BY <1>7, <2>2, <2>3, StartDeleteWrites DEF TypeInv
  <1>8. ASSUME NEW h \in Handlers, TunnelOpens(h)  PROVE TunnelInv'
    <2>1. PICK r : Writes(h, r) /\ r.at = "introspecting"
      BY <1>8, TunnelOpensWrites DEF TypeInv
    <2>2. PICK n \in Names : n = handler[h].name
      BY <1>8 DEF TypeInv, TunnelOpens, HandlerOK
    <2>3. PICK new : new = dialled + 1 /\ new \in Nat /\ new # 0 /\ new \notin 0..dialled
      BY <1>0
    <2> DEFINE made == [id |-> new, name |-> n]
    <2>4. PICK t : t = made /\ t.id = new
      <3>1. made.id = new
        OBVIOUS
      <3> HIDE DEF made
      <3> QED
        BY <3>1
    <2>5. /\ dialled' = new /\ open' = open \union {t}
          /\ reg' = [reg EXCEPT ![n] = new]
          /\ lost' = lost \union ({reg[n]} \ {0})
      BY <1>8, <2>2, <2>3, <2>4 DEF TunnelOpens
    <2>6. \A m \in Names : reg'[m] = IF m = n THEN new ELSE reg[m]
      BY <1>0, <2>5
    <2>7. \A g \in Handlers : ClosesItsOwn(handler[g])'
      <3>1. ClosesItsOwn(r)
        BY <2>1 DEF ClosesItsOwn
      <3>2. ASSUME NEW q, ClosesItsOwn(q)  PROVE ClosesItsOwn(q)'
        <4>1. dialled <= dialled' /\ dialled' \in Nat
          BY <1>0, <2>3, <2>5
        <4> QED
          BY <2>3, <2>6, <3>2, <4>1, ClosesKept
      <3>3. \A g \in Handlers : handler'[g] = IF g = h THEN r ELSE handler[g]
        BY <2>1 DEF Writes, TypeInv, TypeOK
      <3>4. \A g \in Handlers : ClosesItsOwn(handler'[g])
        BY <3>1, <3>3 DEF TunnelInv
      <3> QED
        BY <3>1, <3>2, <3>3 DEF TunnelInv, ClosesItsOwn
    <2>8. RegDistinct'
      BY <1>0, <2>3, <2>6 DEF TunnelInv, RegDistinct
    <2>9. /\ {u.id : u \in open'} = {u.id : u \in open} \union {new}
          /\ new \notin lost /\ new # reg[n]
      BY <1>0, <2>3, <2>4, <2>5
    <2>10. {reg'[m] : m \in Names} \ {0} = (({reg[m] : m \in Names} \ {0}) \ {reg[n]}) \union {new}
      BY <2>3, <2>6 DEF TunnelInv, RegDistinct
    <2>11. {u.id : u \in open'} \ lost' = (({u.id : u \in open} \ lost) \ ({reg[n]} \ {0})) \union {new}
      BY <2>5, <2>9
    <2>12. ASSUME NEW u \in open', NEW m \in Names, reg'[m] = u.id  PROVE u.name = m
      <3>1. made.name = n
        OBVIOUS
      <3> HIDE DEF made
      <3>2. u \in open => u.id # new
        BY <1>0, <2>3
      <3>3. CASE m = n
        BY <2>4, <2>5, <2>6, <2>12, <3>1, <3>2, <3>3
      <3>4. CASE m # n
        <4>1. reg[m] = u.id /\ reg[m] # new
          BY <1>0, <2>3, <2>6, <2>12, <3>4
        <4> QED
          BY <2>4, <2>5, <2>12, <4>1 DEF TunnelInv, TunnelsAccountedFor
      <3> QED
        BY <3>3, <3>4
    <2>13. TunnelsAccountedFor'
      BY <2>10, <2>11, <2>12 DEF TunnelInv, TunnelsAccountedFor
    <2> QED
      BY <2>7, <2>8, <2>13 DEF TunnelInv
  <1>9. ASSUME NEW h \in Handlers, FinishOrNext(h), UNCHANGED <<reg, open, dialled, lost>>
        PROVE  TunnelInv'
    <2>1. PICK r : Writes(h, r) /\ r.at # "closing"
      BY <1>9, FinishWrites DEF TypeInv
    <2> QED
      BY <1>1, <1>9, <2>1
  <1>10. ASSUME NEW h \in Handlers, ConnectFails(h)  PROVE TunnelInv'
    BY <1>9, <1>10 DEF ConnectFails
  <1>11. ASSUME NEW h \in Handlers, Introspected(h)  PROVE TunnelInv'
    BY <1>9, <1>11 DEF Introspected
  <1>16. ASSUME NEW h \in Handlers, Connected(h)  PROVE TunnelInv'
    BY <1>9, <1>16 DEF Connected, FinishOrNext
  <1>12. ASSUME NEW h \in Handlers, TunnelCloses(h)  PROVE TunnelInv'
    <2>1. PICK r : Writes(h, r) /\ r.at # "closing"
      BY <1>12, TunnelClosesWrites DEF TypeInv
    <2>2. /\ handler[h].at = "closing" /\ HandlerOK(handler[h]) /\ ClosesItsOwn(handler[h])
      BY <1>12 DEF TunnelCloses, TypeInv, TunnelInv
    <2>3. PICK n \in Names, t \in 1..dialled :
            /\ n = handler[h].name /\ t = handler[h].tunnel
            /\ \A m \in Names : reg[m] = t => m = n
      BY <2>2 DEF HandlerOK, ClosesItsOwn
    <2>4. /\ dialled' = dialled /\ open' = {u \in open : u.id # t}
          /\ reg' = [reg EXCEPT ![n] = 0]
          /\ lost' = lost \union ({reg[n]} \ {0, t})
      BY <1>12, <2>3 DEF TunnelCloses
    <2>5. \A m \in Names : reg'[m] = IF m = n THEN 0 ELSE reg[m]
      BY <1>0, <2>4
    <2>6. \A g \in Handlers : ClosesItsOwn(handler[g])'
      <3>1. ClosesItsOwn(r)
        BY <2>1 DEF ClosesItsOwn
      <3>2. ASSUME NEW q, ClosesItsOwn(q)  PROVE ClosesItsOwn(q)'
        <4>1. dialled <= dialled' /\ dialled' \in Nat
          BY <1>0, <2>4
        <4> QED
          BY <2>5, <3>2, <4>1, ClosesKept
      <3>3. \A g \in Handlers : handler'[g] = IF g = h THEN r ELSE handler[g]
        BY <2>1 DEF Writes, TypeInv, TypeOK
      <3> QED
        BY <3>1, <3>2, <3>3 DEF TunnelInv, ClosesItsOwn
    <2>7. RegDistinct'
      BY <2>5 DEF TunnelInv, RegDistinct
    <2>8. {reg'[m] : m \in Names} \ {0} = ({reg[m] : m \in Names} \ {0}) \ {reg[n], t}
      BY <2>3, <2>5 DEF TunnelInv, RegDistinct
    <2>9. {u.id : u \in open'} = {u.id : u \in open} \ {t}
      BY <2>4
    <2>10. {u.id : u \in open'} \ lost' = ({u.id : u \in open} \ lost) \ ({reg[n], t} \ {0})
      BY <1>0, <2>3, <2>4, <2>9
    <2>12. \A u \in open', m \in Names : reg'[m] = u.id => u.name = m
      BY <1>0, <2>4, <2>5 DEF TunnelInv, TunnelsAccountedFor
    <2>11. TunnelsAccountedFor'
      BY <2>8, <2>10, <2>12 DEF TunnelInv, TunnelsAccountedFor
    <2> QED
      BY <2>6, <2>7, <2>11 DEF TunnelInv
  <1>13. CASE Restart
    <2>1. \A h \in Handlers : ClosesItsOwn(handler[h])'
      BY <1>13, IdleState DEF Restart, ClosesItsOwn
    <2>2. RegDistinct' /\ TunnelsAccountedFor'
      BY <1>13 DEF Restart, RegDistinct, TunnelsAccountedFor
    <2> QED
      BY <2>1, <2>2 DEF TunnelInv
  <1>14. CASE UNCHANGED vars
    BY <1>14 DEF vars, TunnelInv, RegDistinct, TunnelsAccountedFor, ClosesItsOwn
  <1> QED
    BY <1>2, <1>3, <1>4, <1>6, <1>7, <1>8, <1>10, <1>11, <1>12, <1>13, <1>14, <1>15, <1>16
    DEF Next, Step

(* What the theorems about tunnels rest on. *)
LEMMA TunnelInvariant == Spec => []TunnelInv
  <1>1. Init => TunnelInv
    BY IdleState, ConnectionsAssumption
       DEF Init, TunnelInv, RegDistinct, TunnelsAccountedFor, ClosesItsOwn
  <1>2. TypeInv /\ TunnelInv /\ [Next]_vars => TunnelInv'
    BY ConnectionsAssumption, TunnelStep
  <1> QED
    BY <1>1, <1>2, TypeInvariant, PTL DEF Spec

(* Every open tunnel is registered under its name or was displaced, and what is
   registered is open: in any interleaving of loads, POSTs and DELETEs. *)
THEOREM TunnelsAreAccountedFor == Spec => []TunnelsAccountedFor
  <1>1. TunnelInv => TunnelsAccountedFor
    BY DEF TunnelInv
  <1> QED
    BY <1>1, TunnelInvariant, PTL

(* The last step of DELETE /api/connections/:name, with no tunnel to close or
   past the close. *)
DeleteEnds(h, n) ==
    \/ StartDelete(h, n) /\ reg[n] = 0
    \/ TunnelCloses(h) /\ handler[h].kind = "delete" /\ handler[h].name = n

(* What the DELETE handler keeps of its comment (see DeleteClosesTunnels): when
   it ends, no tunnel of the name is open but those whose registration another
   one had replaced, or that were registered while it waited for its close. *)
DeleteClosesRegistered ==
    \A h \in Handlers, n \in Names :
      DeleteEnds(h, n) => \A t \in open' : t.name = n => t.id \in lost'

(* A finished DELETE leaves only the tunnels that were displaced. *)
THEOREM DeletesLeaveOnlyDisplaced == Spec => [][DeleteClosesRegistered]_vars
  <1>1. TypeInv /\ TypeInv' /\ TunnelInv' /\ [Next]_vars => [DeleteClosesRegistered]_vars
    <2> SUFFICES ASSUME TypeInv, TypeInv', TunnelInv', Next,
                        NEW h \in Handlers, NEW n \in Names, DeleteEnds(h, n),
                        NEW t \in open', t.name = n, t.id \notin lost'
                 PROVE  FALSE
      BY DEF DeleteClosesRegistered
    <2>1. reg'[n] = 0
      BY DEF DeleteEnds, StartDelete, TunnelCloses, TypeInv, TypeOK
    <2>2. PICK m \in Names : reg'[m] = t.id /\ t.id # 0
      BY DEF TunnelInv, TunnelsAccountedFor
    <2>3. m = n
      BY <2>2 DEF TunnelInv, TunnelsAccountedFor
    <2> QED
      BY <2>1, <2>2, <2>3
  <1> QED
    BY <1>1, TypeInvariant, TunnelInvariant, PTL DEF Spec
----------------------------------------------------------------------------
(* The writes of the table and of the map. *)
LEMMA ForgetKeepsMap ==
    ASSUME TypeInv, LoadInv, MapMatchesTable, NEW n \in Names, Forget(n),
           \A h \in Handlers, m \in Names :
              Holds(h, m)' => Holds(h, m) /\ handler'[h].table = handler[h].table
    PROVE  LoadInv' /\ MapMatchesTable'
  <1>1. /\ row' = [row EXCEPT ![n] = None] /\ live' = [live EXCEPT ![n] = None]
        /\ row \in [Names -> Configs \union {None}] /\ live \in [Names -> Configs \union {None}]
    BY DEF Forget, TypeInv, TypeOK
  <1>2. /\ \A m \in Names \ {n} : row'[m] = row[m] /\ live'[m] = live[m]
        /\ row'[n] = None /\ live'[n] = None
    BY <1>1
  <1>3. \A m \in Names \ {n} : m \in overtaken <=> m \in overtaken'
    BY DEF Forget, Overtake
  <1>4. HeldByLoad(n) => n \in overtaken'
    BY DEF Forget, Overtake
  <1>5. ASSUME NEW h \in Handlers, NEW m \in Names \ overtaken', Holds(h, m)'
        PROVE  handler'[h].table[m] = row'[m]
    <2>1. Holds(h, m) /\ handler'[h].table = handler[h].table
      BY <1>5
    <2>2. m # n
      BY <1>4, <1>5, <2>1 DEF HeldByLoad
    <2> QED
      BY <1>2, <1>3, <1>5, <2>1, <2>2 DEF LoadInv
  <1>6. LoadInv'
    BY <1>5 DEF LoadInv
  <1>7. MapMatchesTable'
    BY <1>2, <1>3 DEF MapMatchesTable
  <1> QED
    BY <1>6, <1>7

(* A step that writes one request, which holds no more of the same table than
   before, and neither the map nor the table. *)
LEMMA HandlerKeepsMap ==
    ASSUME TypeInv, LoadInv, MapMatchesTable, NEW h \in Handlers, NEW r, Writes(h, r),
           UNCHANGED <<row, live, overtaken>>,
           \A n \in Names : r.kind = "load" /\ (n \in r.todo \/ r.name = n) =>
              \/ Holds(h, n) /\ r.table = handler[h].table
              \/ r.table = row
    PROVE  LoadInv' /\ MapMatchesTable'
  <1>1. \A g \in Handlers : handler'[g] = IF g = h THEN r ELSE handler[g]
    BY DEF Writes, TypeInv, TypeOK
  <1>2. ASSUME NEW g \in Handlers, NEW n \in Names \ overtaken', Holds(g, n)'
        PROVE  handler'[g].table[n] = row'[n]
    <2>1. CASE g = h
      BY <1>1, <1>2, <2>1 DEF Holds, LoadInv
    <2>2. CASE g # h
      BY <1>1, <1>2, <2>2 DEF Holds, LoadInv
    <2> QED
      BY <2>1, <2>2
  <1>3. LoadInv'
    BY <1>2 DEF LoadInv
  <1> QED
    BY <1>3 DEF MapMatchesTable

LEMMA MapStep ==
    ASSUME ConnectionsAssumption, TypeInv, LoadInv, MapMatchesTable, [Next]_vars
    PROVE  LoadInv' /\ MapMatchesTable'
  <1>0. TypeOK /\ None \notin Names
    BY DEF TypeInv, ConnectionsAssumption
  <1>1. ASSUME NEW h \in Handlers, StartLoad(h)  PROVE LoadInv' /\ MapMatchesTable'
    <2>1. PICK r : Writes(h, r) /\ r.table = row
      BY <1>0, <1>1, StartLoadWrites
    <2> QED
      BY <1>1, <2>1, HandlerKeepsMap DEF StartLoad
  <1>2. ASSUME NEW h \in Handlers, EndLoad(h)  PROVE LoadInv' /\ MapMatchesTable'
    <2>1. Writes(h, Idle) /\ Idle.kind # "load"
      BY <1>2, IdleState DEF EndLoad, Finish, Writes
    <2> QED
      BY <1>2, <2>1, HandlerKeepsMap DEF EndLoad
  <1>3. ASSUME NEW h \in Handlers, NEW n \in Names, PickName(h, n)
        PROVE  LoadInv' /\ MapMatchesTable'
    <2>1. PICK r : /\ Writes(h, r) /\ r.kind = handler[h].kind /\ r.table = handler[h].table
                   /\ r.todo \subseteq handler[h].todo
                   /\ \/ r.name = handler[h].name
                      \/ r.name = n /\ n \in handler[h].todo
      BY <1>0, <1>3, PickNameWrites
    <2>2. \A m \in Names : r.kind = "load" /\ (m \in r.todo \/ r.name = m) => Holds(h, m)
      BY <2>1 DEF Holds
    <2>3. UNCHANGED <<row, live, overtaken>>
      BY <1>3 DEF PickName
    <2> QED
      BY <2>1, <2>2, <2>3, HandlerKeepsMap
  <1>4. ASSUME NEW h \in Handlers, NEW n \in Names, NEW c \in Configs, StartPost(h, n, c)
        PROVE  LoadInv' /\ MapMatchesTable'
    <2>1. PICK r : Writes(h, r) /\ r.kind = "post"
      BY <1>0, <1>4, StartPostWrites
    <2> QED
      BY <1>4, <2>1, HandlerKeepsMap DEF StartPost
  <1>13. ASSUME NEW h \in Handlers, NEW n \in Names, NEW c \in Configs,
                NEW kind \in {"post", "connect"}, StartDirect(h, n, c, kind)
         PROVE  LoadInv' /\ MapMatchesTable'
    <2>1. PICK r : Writes(h, r) /\ r.kind = kind
      BY <1>0, <1>13, StartDirectWrites
    <2> QED
      BY <1>13, <2>1, HandlerKeepsMap DEF StartDirect
  <1>5. ASSUME NEW h \in Handlers, NEW n \in Names, StartDelete(h, n)
        PROVE  LoadInv' /\ MapMatchesTable'
    <2>1. CASE handler' = handler /\ Forget(n)
      <3>1. \A g \in Handlers, m \in Names :
               Holds(g, m)' => Holds(g, m) /\ handler'[g].table = handler[g].table
        BY <2>1 DEF Holds
      <3> QED
        BY <2>1, <3>1, ForgetKeepsMap
    <2>2. ASSUME NEW r, Writes(h, r), r.kind = "delete", UNCHANGED <<row, live, overtaken>>
          PROVE  LoadInv' /\ MapMatchesTable'
      BY <2>2, HandlerKeepsMap
    <2> QED
      BY <1>0, <1>5, <2>1, <2>2, StartDeleteWrites
  <1>6. ASSUME NEW h \in Handlers, TunnelOpens(h)  PROVE LoadInv' /\ MapMatchesTable'
    <2>1. PICK r : /\ Writes(h, r) /\ r.kind = handler[h].kind /\ r.name = handler[h].name
                   /\ r.table = handler[h].table /\ r.todo = handler[h].todo
      BY <1>0, <1>6, TunnelOpensWrites
    <2>2. \A m \in Names : r.kind = "load" /\ (m \in r.todo \/ r.name = m) => Holds(h, m)
      BY <2>1 DEF Holds
    <2>3. UNCHANGED <<row, live, overtaken>>
      BY <1>6 DEF TunnelOpens
    <2> QED
      BY <2>1, <2>2, <2>3, HandlerKeepsMap
  <1>7. ASSUME NEW h \in Handlers, FinishOrNext(h)
        PROVE  \E r : /\ Writes(h, r)
                      /\ \A m \in Names : r.kind = "load" /\ (m \in r.todo \/ r.name = m) =>
                            Holds(h, m) /\ r.table = handler[h].table
    <2>1. PICK r : /\ Writes(h, r)
                   /\ \/ r.kind = "none"
                      \/ /\ r.kind = "load" /\ handler[h].kind = "load"
                         /\ r.name = None /\ r.table = handler[h].table
                         /\ r.todo = handler[h].todo
      BY <1>0, <1>7, FinishWrites
    <2> QED
      BY <1>0, <2>1 DEF Holds
  <1>8. ASSUME NEW h \in Handlers, ConnectFails(h)  PROVE LoadInv' /\ MapMatchesTable'
    <2>1. PICK r : /\ Writes(h, r)
                   /\ \A m \in Names : r.kind = "load" /\ (m \in r.todo \/ r.name = m) =>
                         Holds(h, m) /\ r.table = handler[h].table
      BY <1>7, <1>8 DEF ConnectFails
    <2>2. UNCHANGED <<row, live, overtaken>>
      BY <1>8 DEF ConnectFails
    <2> QED
      BY <2>1, <2>2, HandlerKeepsMap
  <1>9. ASSUME NEW h \in Handlers, Introspected(h)  PROVE LoadInv' /\ MapMatchesTable'
    <2>1. PICK r : /\ Writes(h, r)
                   /\ \A m \in Names : r.kind = "load" /\ (m \in r.todo \/ r.name = m) =>
                         Holds(h, m) /\ r.table = handler[h].table
      BY <1>7, <1>9 DEF Introspected
    <2>2. \A g \in Handlers, m \in Names :
             Holds(g, m)' => Holds(g, m) /\ handler'[g].table = handler[g].table
      <3>1. \A g \in Handlers : handler'[g] = IF g = h THEN r ELSE handler[g]
        BY <1>0, <2>1 DEF Writes, TypeOK
      <3> QED
        BY <2>1, <3>1 DEF Holds
    <2>3. PICK n \in Names, c \in Configs \union {None} : n = handler[h].name /\ c = handler[h].cfg
      <3>1. handler[h].at = "introspecting" /\ HandlerOK(handler[h]) /\ handler[h] \in HandlerState
        BY <1>0, <1>9 DEF Introspected, TypeInv, TypeOK
      <3> QED
        BY <3>1 DEF HandlerOK, HandlerState
    <2>4. /\ live' = [live EXCEPT ![n] = c]
          /\ row \in [Names -> Configs \union {None}] /\ live \in [Names -> Configs \union {None}]
      BY <1>0, <1>9, <2>3 DEF Introspected, TypeOK
    <2>5. CASE handler[h].kind = "post"
      <3>1. row' = [row EXCEPT ![n] = c] /\ Overtake(n)
        BY <1>9, <2>3, <2>5 DEF Introspected
      <3>2. /\ \A m \in Names \ {n} : row'[m] = row[m] /\ live'[m] = live[m]
            /\ row'[n] = c /\ live'[n] = c
        BY <2>4, <3>1
      <3>3. /\ \A m \in Names \ {n} : m \in overtaken <=> m \in overtaken'
            /\ HeldByLoad(n) => n \in overtaken'
        BY <3>1 DEF Overtake
      <3>4. ASSUME NEW g \in Handlers, NEW m \in Names \ overtaken', Holds(g, m)'
            PROVE  handler'[g].table[m] = row'[m]
        <4>1. Holds(g, m) /\ handler'[g].table = handler[g].table
          BY <2>2, <3>4
        <4>2. m # n
          BY <3>3, <3>4, <4>1 DEF HeldByLoad
        <4> QED
          BY <3>2, <3>3, <3>4, <4>1, <4>2 DEF LoadInv
      <3>5. LoadInv'
        BY <3>4 DEF LoadInv
      <3>6. MapMatchesTable'
        BY <3>2, <3>3 DEF MapMatchesTable
      <3> QED
        BY <3>5, <3>6
    <2>6. CASE handler[h].kind # "post"
      <3>1. row' = row /\ overtaken' = overtaken
        BY <1>9, <2>6 DEF Introspected
      <3>2. handler[h].kind = "load" /\ c = handler[h].table[n]
        <4>1. /\ handler[h].at = "introspecting" /\ handler[h].kind # "connect"
              /\ handler[h] \in HandlerState /\ HandlerOK(handler[h])
          BY <1>9 DEF Introspected, TypeInv, TypeOK
        <4>2. handler[h].kind = "load"
          BY <2>6, <4>1 DEF HandlerState, HandlerOK
        <4> QED
          BY <2>3, <4>1, <4>2 DEF HandlerOK
      <3>3. n \notin overtaken => c = row[n]
        BY <2>3, <3>2 DEF Holds, LoadInv
      <3>4. LoadInv'
        BY <2>2, <3>1 DEF LoadInv
      <3>5. MapMatchesTable'
        BY <2>4, <3>1, <3>3 DEF MapMatchesTable
      <3> QED
        BY <3>4, <3>5
    <2> QED
      BY <2>5, <2>6
  <1>14. ASSUME NEW h \in Handlers, Connected(h)  PROVE LoadInv' /\ MapMatchesTable'
    <2>1. Writes(h, Idle) /\ Idle.kind # "load"
      BY <1>14, IdleState DEF Connected, Finish, Writes
    <2>2. PICK first \in Names, n \in Names, c \in Configs \union {None} :
            /\ live' = [live EXCEPT ![first] = c, ![n] = c]
            /\ overtaken' = overtaken \union {first, n}
            /\ row' = row
      <3>0. handler[h].at = "introspecting" /\ HandlerOK(handler[h]) /\ handler[h] \in HandlerState
        BY <1>0, <1>14 DEF Connected, TypeInv, TypeOK
      <3>1. handler[h].name \in Names /\ handler[h].cfg \in Configs \union {None}
        BY <3>0 DEF HandlerOK, HandlerState
      <3>2. PICK first \in IF InMap = {} THEN {Default} ELSE InMap :
              /\ live' = [live EXCEPT ![first] = handler[h].cfg, ![handler[h].name] = handler[h].cfg]
              /\ overtaken' = overtaken \union {first, handler[h].name}
        BY <1>14 DEF Connected
      <3>3. first \in Names /\ row' = row
        BY <1>14, <3>2 DEF Connected, InMap, ConnectionsAssumption
      <3> QED
        BY <3>1, <3>2, <3>3
    <2>3. \A m \in Names \ overtaken' : live'[m] = live[m]
      BY <1>0, <2>2 DEF TypeOK
    <2>4. \A g \in Handlers : handler'[g] = IF g = h THEN Idle ELSE handler[g]
      BY <1>0, <2>1 DEF Writes, TypeOK
    <2>5. \A g \in Handlers, m \in Names :
             Holds(g, m)' => Holds(g, m) /\ handler'[g].table = handler[g].table
      BY <2>1, <2>4 DEF Holds
    <2>6. LoadInv'
      BY <2>2, <2>5 DEF LoadInv
    <2>7. MapMatchesTable'
      BY <2>2, <2>3 DEF MapMatchesTable
    <2> QED
      BY <2>6, <2>7
  <1>10. ASSUME NEW h \in Handlers, TunnelCloses(h)  PROVE LoadInv' /\ MapMatchesTable'
    <2>1. PICK n \in Names : n = handler[h].name /\ handler[h].kind # "load"
      BY <1>10 DEF TunnelCloses, TypeInv, HandlerOK
    <2>2. PICK r : /\ Writes(h, r)
                   /\ \/ r.kind = "none" /\ Forget(n)
                      \/ r.kind = handler[h].kind /\ UNCHANGED <<row, live, overtaken>>
      BY <1>0, <1>10, <2>1, TunnelClosesWrites
    <2>3. r.kind # "load"
      BY <2>1, <2>2
    <2>4. CASE Forget(n)
      <3>1. \A g \in Handlers : handler'[g] = IF g = h THEN r ELSE handler[g]
        BY <1>0, <2>2 DEF Writes, TypeOK
      <3>2. \A g \in Handlers, m \in Names :
               Holds(g, m)' => Holds(g, m) /\ handler'[g].table = handler[g].table
        BY <2>3, <3>1 DEF Holds
      <3> QED
        BY <2>4, <3>2, ForgetKeepsMap
    <2>5. CASE UNCHANGED <<row, live, overtaken>>
      BY <2>2, <2>3, <2>5, HandlerKeepsMap
    <2> QED
      BY <2>2, <2>4, <2>5
  <1>11. CASE Restart
    <2>1. \A h \in Handlers, n \in Names : ~Holds(h, n)'
      BY <1>11, IdleState DEF Restart, Holds
    <2>2. \A n \in Names : live'[n] = None
      BY <1>11 DEF Restart
    <2> QED
      BY <2>1, <2>2 DEF LoadInv, MapMatchesTable
  <1>12. CASE UNCHANGED vars
    BY <1>12 DEF vars, LoadInv, MapMatchesTable, Holds
  <1> QED
    BY <1>1, <1>2, <1>3, <1>4, <1>5, <1>6, <1>8, <1>9, <1>10, <1>11, <1>12, <1>13, <1>14
    DEF Next, Step

(* Requests query the configuration of the table, but for the names written
   under a load or by POST /api/connect. *)
THEOREM MapFollowsTable == Spec => []MapMatchesTable
  <1>1. Init => LoadInv /\ MapMatchesTable
    BY IdleState, ConnectionsAssumption DEF Init, LoadInv, MapMatchesTable, Holds
  <1>2. TypeInv /\ LoadInv /\ MapMatchesTable /\ [Next]_vars => LoadInv' /\ MapMatchesTable'
    BY ConnectionsAssumption, MapStep
  <1> QED
    BY <1>1, <1>2, TypeInvariant, PTL DEF Spec
=============================================================================

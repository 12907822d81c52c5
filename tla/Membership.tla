----------------------------- MODULE Membership -----------------------------
(***************************************************************************)
(* The proxies' nodes under /slsfs/proxy in ZooKeeper: each proxy          *)
(* announces itself, beats every two seconds and watches the next one on   *)
(* the ring, which it starts again when that has not beaten for 20 s; the  *)
(* clients learn from the nodes whom to connect to.                        *)
(*                                                                         *)
(* A request to ZooKeeper is one step, and those of one session are served *)
(* in order.  There is one proxy on each host.  A node is old when it was  *)
(* not written for 20 s: that of a proxy that runs is so only if the proxy *)
(* is late.                                                                *)
(***************************************************************************)
EXTENDS Integers, FiniteSets

CONSTANTS Host,
          Location,   \* --server-id of a host's proxy, in thousandths
          Client,
          Scenarios,  \* which hosts and clients there are; whose clock is ahead;
                      \* how many crashes, late proxies, failed launches, shutdowns
          MaxChecks   \* bound: start_check_alive calls of a proxy at a time

\* server_id.front() for a --server-id in 0..1; the other bytes are 0.  Without
\* one the id comes from the announced address, all 16 bytes of it, and a
\* relaunch, which passes a --server-id, never keeps it: not modelled.
front(location) == (location * 255) \div 1000

\* Slip: truncated, not rounded.
remote_server_id_trunc(id) == (100 * id) \div 255

\* The --server-id of the proxy with an id, rounded to hundredths.
remote_server_id(id) == (200 * id + 255) \div 510

\* The id that a proxy gets when another one starts it again.
Relaunched(id) == front(10 * remote_server_id(id))

Ids(h) == {front(Location[h]), Relaunched(front(Location[h]))}

ASSUME MembershipAssumption ==
    /\ Location \in [Host -> 0..1000]
    /\ \A g, h \in Host : g # h => Ids(g) \cap Ids(h) = {}
    /\ Scenarios \subseteq [hosts : SUBSET Host, ahead : SUBSET Host, clients : SUBSET Client,
                            crash : Nat, late : Nat, fail : Nat, stop : Nat]
    /\ MaxChecks \in Nat \ {0}

VARIABLES
    sc,       \* the member of Scenarios
    faults,   \* how many of its crashes, ... are left
    znode,    \* nodes: id -> [live, old]
    proc,     \* the process on each host
    checks,   \* start_check_alive calls in progress: [Host -> [slot -> check]]
    phase,    \* clients: "new", "built" (reconfigured), "watching"
    watch,    \* a client's watch on the children: "none", "set", "fired"
    pending,  \* clients whose watch handler has to call reconfigure
    cache,    \* uuid_cache_ of a client
    proxys,   \* proxys_ of a client: ids it has a socket for
    broken,   \* those whose connection is lost; the socket stays open
    missed    \* history: nodes that appeared before a client's first watch

clientVars == <<phase, watch, pending, cache, proxys, broken, missed>>
vars == <<sc, faults, znode, proc, checks, clientVars>>

\* The ids that proxies may have.
Id == UNION {Ids(h) : h \in Host}

Fault == {"crash", "late", "fail", "stop"}
Idle == [step |-> "idle"]
Check == [step : {"details", "mark", "launch", "flag"}, id : Id, seen : SUBSET Id]
Process == [state : {"new", "setup", "on", "closing", "closed", "down"},
            id : Id, box : {"first", "again"}, cache : SUBSET Id]

TypeOK ==
    /\ sc \in Scenarios
    /\ faults \in [Fault -> Nat]
    /\ DOMAIN znode \subseteq Id
    /\ znode \in [DOMAIN znode -> [live : {-1, 0, 1}, old : BOOLEAN]]
    /\ proc \in [Host -> Process] /\ \A h \in Host : proc[h].id \in Ids(h)
    /\ checks \in [Host -> [1..MaxChecks -> {Idle} \cup Check]]
    /\ phase \in [Client -> {"new", "built", "watching"}]
    /\ watch \in [Client -> {"none", "set", "fired"}]
    /\ pending \subseteq Client
    /\ cache \in [Client -> SUBSET Id] /\ proxys \in [Client -> SUBSET Id]
    /\ broken \in [Client -> SUBSET Id] /\ missed \in [Client -> SUBSET Id]

Init ==
    /\ sc \in Scenarios
    /\ faults = [f \in Fault |-> sc[f]]
    /\ znode = [id \in {} |-> Idle]
    /\ proc = [h \in Host |-> [state |-> "new", id |-> front(Location[h]), box |-> "first", cache |-> {}]]
    /\ checks = [h \in Host |-> [k \in 1..MaxChecks |-> Idle]]
    /\ phase = [c \in Client |-> "new"]
    /\ watch = [c \in Client |-> "none"]
    /\ pending = {}
    /\ cache = [c \in Client |-> {}]
    /\ proxys = [c \in Client |-> {}]
    /\ broken = [c \in Client |-> {}]
    /\ missed = [c \in Client |-> {}]

-----------------------------------------------------------------------------
Occurs(f) == faults[f] > 0 /\ faults' = [faults EXCEPT ![f] = @ - 1]

HostOf(id) == CHOOSE h \in Host : id \in Ids(h)

Runs(h) == proc[h].state \notin {"new", "down"}

\* set on a node; it fails if there is none.
Written(nodes, id, live) ==
    [i \in DOMAIN nodes |-> IF i = id THEN [live |-> live, old |-> FALSE] ELSE nodes[i]]

\* ZooKeeper tells those who watch the children when these have changed.
Notify ==
    LET new == DOMAIN znode' \ DOMAIN znode
    IN  /\ watch' = [c \in Client |->
                IF watch[c] = "set" /\ DOMAIN znode' # DOMAIN znode THEN "fired" ELSE watch[c]]
        /\ missed' = [c \in Client |-> IF phase[c] = "built" THEN missed[c] \cup new ELSE missed[c]]
        /\ UNCHANGED <<phase, pending, cache, proxys>>

\* The process on h is gone, with its calls and its connections.
Gone(h) ==
    /\ checks' = [checks EXCEPT ![h] = [k \in 1..MaxChecks |-> Idle]]
    /\ broken' = [c \in Client |-> broken[c] \cup (proxys[c] \cap Ids(h))]

-----------------------------------------------------------------------------
\* The proxies.

\* main, as the operator starts it.
Start(h) ==
    /\ h \in sc.hosts
    /\ proc[h].state = "new"
    /\ proc' = [proc EXCEPT ![h].state = "setup"]
    /\ UNCHANGED <<sc, faults, znode, checks, clientVars>>

\* start_setup: the node is made, if it is not there; then the first heartbeat.
start_setup(h) ==
    LET id == proc[h].id IN
    /\ proc[h].state = "setup"
    /\ proc' = [proc EXCEPT ![h].state = "on"]
    /\ znode' = [i \in DOMAIN znode \cup {id} |->
                    IF i = id THEN [live |-> 1, old |-> FALSE] ELSE znode[i]]
    /\ Notify
    /\ UNCHANGED <<sc, faults, checks, broken>>

\* Slip: the last proxy is not the only one whose next is the first.
Following_first(ids, id) == CHOOSE i \in ids : \A k \in ids : i <= k

\* Slip: lower_bound.
Following_lower(ids, id) ==
    LET above == {i \in ids : i >= id}
        from == IF above = {} THEN ids ELSE above
    IN  CHOOSE i \in from : \A k \in from : i <= k

\* upper_bound in the sorted list, or its begin.
Following(ids, id) ==
    LET above == {i \in ids : i > id}
        from == IF above = {} THEN ids ELSE above
    IN  CHOOSE i \in from : \A k \in from : i <= k

\* The timer: start_heartbeat, unless the proxy is closed, and start_check_alive,
\* which looks up the next proxy on the ring and goes on if its node is old.
\* local_zk_diff_ is added, not subtracted: a proxy whose clock is ten seconds
\* ahead finds every node old.
Beat(h) ==
    LET id == proc[h].id
        seen == DOMAIN znode
        free == {k \in 1..MaxChecks : checks[h][k] = Idle}
        slot == CHOOSE k \in free : \A n \in free : k <= n
        next == Following(seen, id)
    IN  /\ proc[h].state \in {"on", "closing"}
        /\ free # {}
        /\ \/ /\ proc[h].state = "on"
              /\ znode' = Written(znode, id, 1)
              /\ UNCHANGED proc
           \/ /\ proc[h].state = "closing"
              /\ proc' = [proc EXCEPT ![h].state = "closed"]
              /\ UNCHANGED znode
        /\ checks' = IF seen \ {id} # {} /\ (znode[next].old \/ h \in sc.ahead)
                     THEN [checks EXCEPT ![h][slot] = [step |-> "details", id |-> next, seen |-> seen]]
                     ELSE checks
        /\ UNCHANGED <<sc, faults, clientVars>>

\* What a call of start_check_alive does next, and where it goes on.
To(h, k, step) ==
    checks' = [checks EXCEPT ![h][k] = IF step = "end" THEN Idle ELSE [@ EXCEPT !.step = step]]

\* ... get_details, which returns 0 for an id that it has in its cache.
get_details(h, k) ==
    LET id == checks[h][k].id IN
    /\ checks[h][k].step = "details"
    /\ \/ /\ id \in proc[h].cache
          /\ To(h, k, "launch")
          /\ UNCHANGED proc
       \/ /\ id \notin proc[h].cache /\ id \in DOMAIN znode
          /\ proc' = [proc EXCEPT ![h].cache = @ \cup {id}]
          /\ To(h, k, CASE znode[id].live = 1 -> "mark"
                        [] znode[id].live = 0 -> "launch"
                        [] znode[id].live = -1 -> "end")
       \/ /\ id \notin proc[h].cache \cup DOMAIN znode
          /\ To(h, k, "end")
          /\ UNCHANGED proc
    /\ UNCHANGED <<sc, faults, znode, clientVars>>

\* ... The flag of a proxy taken for dead is set to 0, and that of one that is
\* launched to -1.
Flag(h, k) ==
    /\ checks[h][k].step \in {"mark", "flag"}
    /\ znode' = Written(znode, checks[h][k].id, IF checks[h][k].step = "mark" THEN 0 ELSE -1)
    /\ To(h, k, "end")
    /\ UNCHANGED <<sc, faults, proc, clientVars>>

\* ... ssh and start-proxy-script.sh: a container of that name is removed and
\* run again.  The container that the operator started has another name; as
\* long as that runs, the new one finds its port taken and ends.
Launch(h, k) ==
    LET id == checks[h][k].id
        g == HostOf(id)
        rest == [checks EXCEPT ![h][k].step = "flag"]
    IN  /\ checks[h][k].step = "launch"
        /\ \/ /\ ~(Runs(g) /\ proc[g].box = "first")
              /\ proc' = [proc EXCEPT ![g] = [state |-> "setup", id |-> Relaunched(id),
                                              box |-> "again", cache |-> {}]]
              /\ checks' = [rest EXCEPT ![g] = [n \in 1..MaxChecks |-> Idle]]
              /\ broken' = [c \in Client |-> broken[c] \cup (proxys[c] \cap Ids(g))]
              /\ UNCHANGED faults
           \/ /\ Runs(g) /\ proc[g].box = "first"
              /\ checks' = rest
              /\ UNCHANGED <<proc, broken, faults>>
           \/ /\ Occurs("fail")
              /\ checks' = rest
              /\ UNCHANGED <<proc, broken>>
        /\ UNCHANGED <<sc, znode, phase, watch, pending, cache, proxys, missed>>

\* shutdown erases the node; by the timer of --shutdown the process goes on
\* without heartbeats, by a signal it ends.
shutdown(h) ==
    /\ Occurs("stop")
    /\ proc[h].state = "on"
    /\ znode' = [i \in DOMAIN znode \ {proc[h].id} |-> znode[i]]
    /\ \/ proc' = [proc EXCEPT ![h].state = "closing"] /\ UNCHANGED <<checks, broken>>
       \/ proc' = [proc EXCEPT ![h].state = "down"] /\ Gone(h)
    /\ Notify
    /\ UNCHANGED sc

Crash(h) ==
    /\ Occurs("crash")
    /\ Runs(h)
    /\ proc' = [proc EXCEPT ![h].state = "down"]
    /\ Gone(h)
    /\ UNCHANGED <<sc, znode, phase, watch, pending, cache, proxys, missed>>

\* 20 s go by since a node was written.
Age(id) ==
    /\ id \in DOMAIN znode /\ ~znode[id].old
    /\ znode' = [znode EXCEPT ![id].old = TRUE]
    /\ IF \E h \in Host : proc[h].id = id /\ proc[h].state \in {"setup", "on"}
       THEN Occurs("late") ELSE UNCHANGED faults
    /\ UNCHANGED <<sc, proc, checks, clientVars>>

-----------------------------------------------------------------------------
\* The clients.

\* reconfigure: the proxies whose flag is 1, and 0 is what get_details says of
\* the flag of those it has in its cache.  The socket of a proxy that is kept
\* is kept; others are connected, which throws if a proxy does not run.
Listed(c) == {id \in DOMAIN znode \ cache[c] : znode[id].live = 1}

Connects(c) == \A id \in Listed(c) \ proxys[c] : Runs(HostOf(id)) /\ proc[HostOf(id)].id = id

Reconfigured(c) ==
    /\ cache' = [cache EXCEPT ![c] = @ \cup DOMAIN znode]
    /\ IF Connects(c)
       THEN /\ proxys' = [proxys EXCEPT ![c] = Listed(c)]
            /\ broken' = [broken EXCEPT ![c] = @ \cap Listed(c)]
       ELSE UNCHANGED <<proxys, broken>>

\* The constructor: reconfigure, which must not throw, ...
Build(c) ==
    /\ c \in sc.clients
    /\ phase[c] = "new" /\ Connects(c)
    /\ phase' = [phase EXCEPT ![c] = "built"]
    /\ Reconfigured(c)
    /\ UNCHANGED <<sc, faults, znode, proc, checks, watch, pending, missed>>

\* ... and start_watch.
start_watch(c) ==
    /\ phase[c] # "new" /\ watch[c] = "none"
    /\ phase' = [phase EXCEPT ![c] = "watching"]
    /\ watch' = [watch EXCEPT ![c] = "set"]
    /\ UNCHANGED <<sc, faults, znode, proc, checks, pending, cache, proxys, broken, missed>>

\* Slip: reconfigure comes first.
Rearmed_later(c) == [watch EXCEPT ![c] = "none"]

\* start_watch in the handler of the watch.
Rearmed(c) == [watch EXCEPT ![c] = "set"]

\* The handler: start_watch, ...
OnEvent(c) ==
    /\ watch[c] = "fired"
    /\ watch' = Rearmed(c)
    /\ pending' = pending \cup {c}
    /\ UNCHANGED <<sc, faults, znode, proc, checks, phase, cache, proxys, broken, missed>>

\* ... then reconfigure.
reconfigure(c) ==
    /\ c \in pending
    /\ pending' = pending \ {c}
    /\ Reconfigured(c)
    /\ UNCHANGED <<sc, faults, znode, proc, checks, phase, watch, missed>>

-----------------------------------------------------------------------------
CheckStep(h, k) == get_details(h, k) \/ Flag(h, k) \/ Launch(h, k)

ClientStep(c) == Build(c) \/ start_watch(c) \/ OnEvent(c) \/ reconfigure(c)

Next ==
    \/ \E h \in Host : Start(h) \/ start_setup(h) \/ Beat(h) \/ shutdown(h) \/ Crash(h)
    \/ \E h \in Host, k \in 1..MaxChecks : CheckStep(h, k)
    \/ \E id \in DOMAIN znode : Age(id)
    \/ \E c \in Client : ClientStep(c)

Spec == Init /\ [][Next]_vars

\* Timers expire, ZooKeeper answers, and time goes on.
FairSpec ==
    /\ Spec
    /\ \A h \in Host : WF_vars(start_setup(h)) /\ WF_vars(Beat(h))
    /\ \A h \in Host, k \in 1..MaxChecks : WF_vars(CheckStep(h, k))
    /\ \A h \in Host : \A id \in Ids(h) :
          WF_vars(Age(id) /\ ~\E g \in Host : proc[g].id = id /\ proc[g].state \in {"setup", "on"})

-----------------------------------------------------------------------------
\* Two proxies that check, and may start, the same one have not seen the same
\* list of proxies, or one of them is not in the list, because it shuts down:
\* only a proxy that joins or leaves can give one two watchers.
WatchedByOne ==
    \A g, h \in Host : \A k, n \in 1..MaxChecks :
        g # h /\ checks[g][k] # Idle /\ checks[h][n] # Idle /\ checks[g][k].id = checks[h][n].id
            => \/ checks[g][k].seen # checks[h][n].seen
               \/ {proc[g].id, proc[h].id} \ checks[g][k].seen # {}

\* A client that watches the children and has handled every event knows every
\* proxy, but for those that joined between the end of its constructor's
\* reconfigure and its first watch: start_watch comes before reconfigure.
NoJoinMissed ==
    \A c \in Client : watch[c] = "set" /\ c \notin pending
        => DOMAIN znode \subseteq cache[c] \cup missed[c]

\* The ring repairs itself: when there are no more crashes and a proxy runs on,
\* every proxy that has a node will run for ever, with its flag at 1, though
\* the one that watches it had crashed as well, a launch fails, proxies are
\* late, or two calls start the same proxy; if --server-id is in hundredths
\* and no clock is ahead.
RingRepaired ==
    (/\ sc.ahead = {} /\ \A h \in sc.hosts : Location[h] % 10 = 0
     /\ <>[](\E h \in Host : proc[h].state = "on"))
        => <>[](\A id \in DOMAIN znode : /\ proc[HostOf(id)].state = "on"
                                         /\ proc[HostOf(id)].id = id
                                         /\ znode[id].live = 1)
=============================================================================

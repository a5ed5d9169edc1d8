----------------------------- MODULE A2ARegistry -----------------------------
(***************************************************************************)
(* backend/a2a/registry.py with what keeps it up to date and what reads it *)
(* (discovery/heartbeat.py, healthcheck.py and discovery.py, broker.py,    *)
(* router.py, channels/multicast.py).                                      *)
(*                                                                         *)
(* Redis holds a record per agent, whose key expires AgentTtl after it was *)
(* last written, and per type and per capability an index, a set of agent  *)
(* ids, whose key expires IndexTtl after the last registration in it.      *)
(* Every index works alike and on its own, so the model has one, in which  *)
(* all agents are.  An agent registers, writes its record again at every   *)
(* heartbeat, and deregisters when its heartbeats are stopped; the health  *)
(* check deregisters whom it has found stale; a lookup reads the index and *)
(* then the records, one after another.                                    *)
(*                                                                         *)
(* Time comes in ticks.  An agent that is not slow sleeps Interval between *)
(* two heartbeats, and its commands take no time: time does not go on      *)
(* while it is at one, or past the end of its sleep.                       *)
(***************************************************************************)
EXTENDS Naturals

CONSTANTS
  Agents,
  Lookups,    \* coroutines that look for agents and send to those found
  Interval,   \* HeartbeatManager.interval          (30 seconds)
  AgentTtl,   \* _AGENT_TTL and _STALE_THRESHOLD    (120 seconds)
  IndexTtl,   \* 2 * _AGENT_TTL
  Nobody,     \* the health check is deregistering nobody
  MaxEvents   \* bound: registrations, faults, checks and lookups of one behaviour

ASSUME RegistryAssumption ==
  /\ Interval \in Nat /\ AgentTtl \in Nat /\ IndexTtl \in Nat
  /\ Interval < AgentTtl
  /\ AgentTtl < IndexTtl
  /\ Nobody \notin Agents
  /\ MaxEvents \in Nat

VARIABLES
  ttl,       \* ttl[a]: ticks a's record has left; 0 if there is none
  age,       \* age[a]: ticks since the last_seen that is in the record
  members,   \* the index
  index_ttl, \* ticks it has left, Forever without an expiry, 0 if there is none
  life,      \* life[a]: where a's process is
  timer,     \* timer[a]: ticks since a went to sleep, or crashed
  hand,      \* hand[a]: ticks since the last_seen a is about to write
  since,     \* since[a]: ticks since a's registration was complete (history)
  slow,      \* agents whose process or connection hangs
  check,     \* where the health check is
  todo,      \* agents the health check has to look at, then to deregister
  stale,     \* agents it found stale
  victim,    \* the agent it is deregistering
  pruned,    \* agents it deregistered, until they register again (history)
  lookup,    \* lookup[l]: where lookup l is
  ids,       \* ids[l]: what it read from the index and has not looked at
  found,     \* found[l]: the agents whose records it got
  gone,      \* gone[l]: agents that had stopped when it began, and did not
             \* register since (history)
  events     \* registrations, faults, checks and lookups so far (bound)

redisVars  == <<ttl, age, members, index_ttl>>
agentVars  == <<life, timer, hand, since, slow>>
checkVars  == <<check, todo, stale, victim, pruned>>
lookupVars == <<lookup, ids, found, gone>>
vars == <<redisVars, agentVars, checkVars, lookupVars, events>>

LifeStates == {"off", "register", "index", "expire", "get", "set", "sleep",
               "stop_get", "stop_srem", "stop_delete", "stopped", "crashed"}
Down == {"off", "stopped", "crashed"}
AtWork == {"register", "index", "expire", "get", "set"}
Beating == {"get", "set", "sleep"}
Forever == IndexTtl + 1

(* Faulty variant: the record is given the expiry of the index. *)
WriteForLong(a, seen) ==
  /\ ttl' = [ttl EXCEPT ![a] = IndexTtl]
  /\ age' = [age EXCEPT ![a] = seen]
  /\ UNCHANGED <<members, index_ttl>>

(* Faulty variant: SET with KEEPTTL, so that a heartbeat renews nothing. *)
WriteKeepTtl(a, seen) ==
  /\ ttl' = [ttl EXCEPT ![a] = IF @ = 0 THEN AgentTtl ELSE @]
  /\ age' = [age EXCEPT ![a] = seen]
  /\ UNCHANGED <<members, index_ttl>>

Write(a, seen) ==
  /\ ttl' = [ttl EXCEPT ![a] = AgentTtl]
  /\ age' = [age EXCEPT ![a] = seen]
  /\ UNCHANGED <<members, index_ttl>>

(* a's process goes to at, where a clock that does not matter stands at 0. *)
Go(a, at) ==
  /\ life' = [life EXCEPT ![a] = at]
  /\ timer' = [timer EXCEPT ![a] = 0]
  /\ hand' = [hand EXCEPT ![a] = 0]
  /\ since' = [since EXCEPT ![a] = IF {at, life[a]} \subseteq Beating THEN @ ELSE 0]

Stay == UNCHANGED <<slow, checkVars, lookupVars, events>>

Count == events < MaxEvents /\ events' = events + 1

-----------------------------------------------------------------------------
(* ServiceDiscovery.announce: the record, the index, the index's expiry. *)
Announce(a) ==
  /\ Count
  /\ life[a] \in Down
  /\ Go(a, "register")
  /\ slow' = slow \ {a}
  /\ gone' = [l \in Lookups |-> gone[l] \ {a}]
  /\ pruned' = pruned \ {a}
  /\ UNCHANGED <<redisVars, check, todo, stale, victim, lookup, ids, found>>

Register(a) ==
  /\ life[a] = "register"
  /\ Write(a, hand[a])
  /\ Go(a, "index")
  /\ Stay

AddToIndex(a) ==
  /\ life[a] = "index"
  /\ members' = members \cup {a}
  /\ index_ttl' = IF index_ttl = 0 THEN Forever ELSE index_ttl
  /\ Go(a, "expire")
  /\ UNCHANGED <<ttl, age>>
  /\ Stay

(* Faulty variant: EXPIRE with NX, which leaves an expiry as it is. *)
ExpireIndexOnce(a) ==
  /\ life[a] = "expire"
  /\ index_ttl' = IF index_ttl = Forever THEN IndexTtl ELSE index_ttl
  /\ Go(a, "get")
  /\ UNCHANGED <<ttl, age, members>>
  /\ Stay

(* Then the heartbeats start.  An index that is gone gets no expiry. *)
ExpireIndex(a) ==
  /\ life[a] = "expire"
  /\ index_ttl' = IF index_ttl = 0 THEN 0 ELSE IndexTtl
  /\ Go(a, "get")
  /\ UNCHANGED <<ttl, age, members>>
  /\ Stay

(* _heartbeat_loop: read the record, write it back with the time of now,   *)
(* sleep.  An agent that is not known any more only logs that.             *)
Get(a) ==
  /\ life[a] = "get"
  /\ Go(a, IF ttl[a] = 0 THEN "sleep" ELSE "set")
  /\ UNCHANGED redisVars
  /\ Stay

Set(a) ==
  /\ life[a] = "set"
  /\ Write(a, hand[a])
  /\ Go(a, "sleep")
  /\ Stay

Wake(a) ==
  /\ life[a] = "sleep"
  /\ timer[a] >= Interval
  /\ Go(a, "get")
  /\ UNCHANGED redisVars
  /\ Stay

(* A command that fails is logged, and the loop goes on. *)
BeatFails(a) ==
  /\ life[a] \in {"get", "set"}
  /\ a \in slow
  /\ Go(a, "sleep")
  /\ UNCHANGED redisVars
  /\ Stay

(* HeartbeatManager.stop: the loop is cancelled first (a command on its    *)
(* way is carried out or not), then the agent is deregistered.             *)
Stop(a) ==
  /\ life[a] \in Beating
  /\ Go(a, "stop_get")
  /\ \/ life[a] = "set" /\ Write(a, hand[a])
     \/ UNCHANGED redisVars
  /\ Stay

(* deregister: without a record the index is left as it is. *)
StopGet(a) ==
  /\ life[a] = "stop_get"
  /\ Go(a, IF ttl[a] = 0 THEN "stop_delete" ELSE "stop_srem")
  /\ UNCHANGED redisVars
  /\ Stay

RemoveFromIndex(a) ==
  /\ members' = members \ {a}
  /\ index_ttl' = IF members \subseteq {a} THEN 0 ELSE index_ttl
  /\ UNCHANGED <<ttl, age>>

Delete(a) ==
  /\ ttl' = [ttl EXCEPT ![a] = 0]
  /\ age' = [age EXCEPT ![a] = 0]
  /\ UNCHANGED <<members, index_ttl>>

StopSrem(a) ==
  /\ life[a] = "stop_srem"
  /\ RemoveFromIndex(a)
  /\ Go(a, "stop_delete")
  /\ Stay

(* Faulty variant: stop does not wait for the heartbeat it cancels, whose  *)
(* SET may come after the DELETE.                                          *)
StopDeleteEarly(a) ==
  /\ life[a] = "stop_delete"
  /\ Delete(a) \/ Write(a, hand[a])
  /\ Go(a, "stopped")
  /\ Stay

StopDelete(a) ==
  /\ life[a] = "stop_delete"
  /\ Delete(a)
  /\ Go(a, "stopped")
  /\ Stay

Crash(a) ==
  /\ Count
  /\ life[a] \notin Down
  /\ Go(a, "crashed")
  /\ UNCHANGED <<redisVars, slow, checkVars, lookupVars>>

Hang(a) ==
  /\ Count
  /\ life[a] \notin Down
  /\ a \notin slow
  /\ slow' = slow \cup {a}
  /\ UNCHANGED <<redisVars, life, timer, hand, since, checkVars, lookupVars>>

-----------------------------------------------------------------------------
(* prune_stale_agents: list the keys, look at each record, then deregister *)
(* those that were stale when it looked, one after another.                *)
StartCheck ==
  /\ Count
  /\ check = "idle"
  /\ check' = "look"
  /\ todo' = {a \in Agents : ttl[a] > 0}
  /\ UNCHANGED <<redisVars, agentVars, stale, victim, pruned, lookupVars>>

(* Faulty variant: the check writes the record back, with a new expiry. *)
CheckAgentTouches(a) ==
  /\ a \in todo
  /\ todo' = todo \ {a}
  /\ stale' = IF ttl[a] > 0 /\ age[a] >= AgentTtl THEN stale \cup {a} ELSE stale
  /\ IF ttl[a] > 0 THEN Write(a, age[a]) ELSE UNCHANGED redisVars
  /\ UNCHANGED <<agentVars, check, victim, pruned, lookupVars, events>>

CheckAgent(a) ==
  /\ a \in todo
  /\ todo' = todo \ {a}
  /\ stale' = IF ttl[a] > 0 /\ age[a] >= AgentTtl THEN stale \cup {a} ELSE stale
  /\ UNCHANGED <<redisVars, agentVars, check, victim, pruned, lookupVars, events>>

PruneGet(a) ==
  /\ check = "look"
  /\ todo = {}
  /\ a \in stale
  /\ victim' = a
  /\ check' = IF ttl[a] = 0 THEN "delete" ELSE "srem"
  /\ UNCHANGED <<redisVars, agentVars, todo, stale, pruned, lookupVars, events>>

PruneSrem ==
  /\ check = "srem"
  /\ RemoveFromIndex(victim)
  /\ check' = "delete"
  /\ pruned' = pruned \cup {victim}
  /\ UNCHANGED <<agentVars, todo, stale, victim, lookupVars, events>>

PruneDelete ==
  /\ check = "delete"
  /\ Delete(victim)
  /\ check' = "look"
  /\ stale' = stale \ {victim}
  /\ victim' = Nobody
  /\ pruned' = pruned \cup {victim}
  /\ UNCHANGED <<agentVars, todo, lookupVars, events>>

EndCheck ==
  /\ check = "look"
  /\ todo = {}
  /\ stale = {}
  /\ check' = "idle"
  /\ UNCHANGED <<redisVars, agentVars, todo, stale, victim, pruned, lookupVars, events>>

-----------------------------------------------------------------------------
(* find_by_type, find_by_capability: the ids, then record by record.       *)
ReadIndex(l) ==
  /\ Count
  /\ lookup[l] = "idle"
  /\ lookup' = [lookup EXCEPT ![l] = "look"]
  /\ ids' = [ids EXCEPT ![l] = members]
  /\ gone' = [gone EXCEPT ![l] = {a \in Agents : life[a] = "stopped"}]
  /\ UNCHANGED <<redisVars, agentVars, checkVars, found>>

ReadRecord(l, a) ==
  /\ a \in ids[l]
  /\ ids' = [ids EXCEPT ![l] = @ \ {a}]
  /\ found' = IF ttl[a] > 0 THEN [found EXCEPT ![l] = @ \cup {a}] ELSE found
  /\ UNCHANGED <<redisVars, agentVars, checkVars, lookup, gone, events>>

(* The lookup returns found[l], of which the caller sends to one (the one  *)
(* that fits best), to all, or to all but itself.                          *)
Choose(l) ==
  /\ lookup[l] = "look"
  /\ ids[l] = {}
  /\ lookup' = [lookup EXCEPT ![l] = "idle"]
  /\ found' = [found EXCEPT ![l] = {}]
  /\ gone' = [gone EXCEPT ![l] = {}]
  /\ UNCHANGED <<redisVars, agentVars, checkVars, ids, events>>

-----------------------------------------------------------------------------
(* Time goes on unless an agent that is not slow has something to do.      *)
InTime(a) ==
  /\ life[a] \notin AtWork
  /\ life[a] = "sleep" => timer[a] < Interval

Aging(clock, states, cap) ==
  [a \in Agents |-> IF life[a] \in states /\ clock[a] < cap THEN clock[a] + 1 ELSE clock[a]]

Sooner(n) == IF n > 0 THEN n - 1 ELSE n

Tick ==
  /\ \A a \in Agents \ slow : InTime(a)
  /\ ttl' = [a \in Agents |-> Sooner(ttl[a])]
  /\ age' = [a \in Agents |-> CASE ttl[a] <= 1 -> 0
                               [] ttl[a] > 1 /\ age[a] < AgentTtl -> age[a] + 1
                               [] OTHER -> age[a]]
  /\ index_ttl' = IF index_ttl = Forever THEN Forever ELSE Sooner(index_ttl)
  /\ members' = IF index_ttl' = 0 THEN {} ELSE members
  /\ timer' = Aging(timer, {"sleep", "crashed"}, AgentTtl)
  /\ hand' = Aging(hand, {"register", "set"}, AgentTtl)
  /\ since' = Aging(since, Beating, IndexTtl)
  /\ UNCHANGED <<life, slow, checkVars, lookupVars, events>>

Init ==
  /\ ttl = [a \in Agents |-> 0]
  /\ age = [a \in Agents |-> 0]
  /\ members = {}
  /\ index_ttl = 0
  /\ life = [a \in Agents |-> "off"]
  /\ timer = [a \in Agents |-> 0]
  /\ hand = [a \in Agents |-> 0]
  /\ since = [a \in Agents |-> 0]
  /\ slow = {}
  /\ check = "idle"
  /\ todo = {}
  /\ stale = {}
  /\ victim = Nobody
  /\ pruned = {}
  /\ lookup = [l \in Lookups |-> "idle"]
  /\ ids = [l \in Lookups |-> {}]
  /\ found = [l \in Lookups |-> {}]
  /\ gone = [l \in Lookups |-> {}]
  /\ events = 0

AgentStep(a) ==
  Register(a) \/ AddToIndex(a) \/ ExpireIndex(a) \/ Get(a) \/ Set(a) \/ Wake(a)

Next ==
  \/ Tick
  \/ \E a \in Agents : Announce(a) \/ AgentStep(a) \/ BeatFails(a) \/ Stop(a) \/ StopGet(a)
                      \/ StopSrem(a) \/ StopDelete(a) \/ Crash(a) \/ Hang(a) \/ CheckAgent(a) \/ PruneGet(a)
  \/ StartCheck \/ PruneSrem \/ PruneDelete \/ EndCheck
  \/ \E l \in Lookups : ReadIndex(l) \/ Choose(l) \/ \E a \in Agents : ReadRecord(l, a)

Spec == Init /\ [][Next]_vars

-----------------------------------------------------------------------------
TypeOK ==
  /\ ttl \in [Agents -> 0 .. AgentTtl] /\ age \in [Agents -> 0 .. AgentTtl]
  /\ members \subseteq Agents /\ index_ttl \in 0 .. Forever
  /\ index_ttl = 0 <=> members = {}
  /\ life \in [Agents -> LifeStates]
  /\ timer \in [Agents -> 0 .. AgentTtl] /\ hand \in [Agents -> 0 .. AgentTtl]
  /\ since \in [Agents -> 0 .. IndexTtl]
  /\ slow \subseteq Agents
  /\ check \in {"idle", "look", "srem", "delete"}
  /\ todo \subseteq Agents /\ stale \subseteq Agents /\ pruned \subseteq Agents
  /\ victim \in Agents \cup {Nobody}
  /\ lookup \in [Lookups -> {"idle", "look"}]
  /\ ids \in [Lookups -> SUBSET Agents] /\ found \in [Lookups -> SUBSET Agents]
  /\ gone \in [Lookups -> SUBSET Agents]
  /\ events \in 0 .. MaxEvents

(* Registered, with heartbeats in time, and not hit by a health check that *)
(* had found it stale in an earlier life.                                  *)
Healthy(a) == life[a] \in Beating /\ a \notin slow \cup pruned \cup stale

(* registry.py:103-112, healthcheck.py:55-60: an agent whose heartbeats are *)
(* in time is known all the time, never looks stale, and is not pruned.    *)
TimelyIsKnown == \A a \in Agents : Healthy(a) => ttl[a] > 0 /\ age[a] < AgentTtl

(* registry.py:74-94, 114-121: from its registration until the index may   *)
(* expire, such an agent is in the index, whoever else comes, goes, or     *)
(* fails between two commands.                                             *)
FreshIsFindable ==
  \A a \in Agents : Healthy(a) /\ since[a] < IndexTtl => a \in members

(* heartbeat.py:39-48, registry.py:85-94: once stop has returned, neither  *)
(* a late heartbeat nor a leftover in the index brings the agent back: no  *)
(* lookup that begins then finds it or sends to it, until it registers.    *)
StoppedIsGone ==
  \A l \in Lookups : found[l] \cap gone[l] = {}

(* registry.py:77, 111: an agent that died is forgotten when its record's  *)
(* expiry is over, whatever command of its life was the last.              *)
DeadIsForgotten ==
  \A a \in Agents : life[a] = "crashed" /\ timer[a] = AgentTtl => ttl[a] = 0
=============================================================================

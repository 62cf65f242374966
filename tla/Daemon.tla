------------------------------- MODULE Daemon -------------------------------
(***************************************************************************)
(* The daemon (src/src/daemon.rs): one process that serves requests over a *)
(* socket, keeps a warm pool of sessions and a peer list.  Its tasks (the  *)
(* background filler, one task for each request, and the accept loop,      *)
(* which saves the peer list when it stops) share three things:            *)
(*                                                                         *)
(* - pool, the installed pool or NoPool, read and written at once;         *)
(* - fill, the mutex that lets one task dial sessions into a pool;         *)
(* - lock, the reader-writer lock of the peer list, which an upload or a   *)
(*   fetch holds for as long as it runs.                                   *)
(* A task is [op, pc, pool, cands, goal, ...]; a step goes from one await  *)
(* of the code to the next.  Both locks are the fair ones of the runtime.  *)
(***************************************************************************)
EXTENDS Integers, Sequences, FiniteSets, SequencesExt

CONSTANTS
  Requests,    \* the connections the daemon accepts
  Workloads,   \* what they may ask for: functions from Requests to operations
  Peers,       \* the peers that exist
  Listed,      \* the ones in the peer list file at start
  Hive,        \* the ones a discovery can find
  Target,      \* pool_target
  Bootstrap,   \* EAGER_FILL_BOOTSTRAP, the most a first fill opens (64)
  MinRefill,   \* the least a maintenance tick opens (8)
  MaxPools     \* bound: pools built

VARIABLES
  task,     \* task[t]
  serving,  \* the accept loop: "up", "stopping", "down"
  pool,     \* State.pool: the number of the installed pool, or NoPool
  built,    \* pools built so far
  entries,  \* entries[n] = [live, dead, opened]: the sessions of pool n
  fill,     \* State.fill_lock
  lock,     \* the lock of State.peers
  peers,    \* State.peers: [known, seen]: the peers, and those with a dial on record
  file,     \* the peer list file, same shape
  log,      \* the transport's reachability_log: peers whose last dial is not applied
  dialled   \* history: the peers dialled and answered or failed

vars == <<task, serving, pool, built, entries, fill, lock, peers, file, log, dialled>>
pools == <<pool, built, entries>>
lists == <<peers, file, log, dialled>>

NoPool == 0
Filler == "filler"
Server == "server"
Tasks == Requests \cup {Filler}
Users == {"upload", "collection", "fetch"}

-----------------------------------------------------------------------------
(* The runtime's fair locks: a waiter is served in order of arrival, and   *)
(* readers that arrive behind a waiting writer wait for it.                *)

Free == [held |-> {}, queue |-> <<>>]

\* The waiters that can hold the lock beside the present holders.
Granted(l) ==
  LET first == {l.queue[i] : i \in 1..1 \cap DOMAIN l.queue}
      readers == {i \in DOMAIN l.queue : \A j \in 1..i : l.queue[j].mode = "read"}
  IN CASE \E h \in l.held : h.mode = "write" -> {}
       [] l.held = {} /\ readers = {} -> first
       [] OTHER -> {l.queue[i] : i \in readers}

Settle(l) ==
  LET g == Granted(l) IN
  [held |-> l.held \cup g, queue |-> SubSeq(l.queue, Cardinality(g) + 1, Len(l.queue))]

Acquire(l, t, m) == Settle([l EXCEPT !.queue = Append(@, [task |-> t, mode |-> m])])

Release(l, t) == Settle([l EXCEPT !.held = {h \in @ : h.task # t}])

Holds(l, t) == \E h \in l.held : h.task = t

Waits(l, t) == \E i \in DOMAIN l.queue : l.queue[i].task = t

-----------------------------------------------------------------------------
Idle(op) == [op |-> op, pc |-> "start", pool |-> NoPool, cands |-> {}, goal |-> 0,
             added |-> 0, fresh |-> {}, loaded |-> [known |-> {}, seen |-> {}], tick |-> FALSE]

Init ==
  /\ \E w \in Workloads : task = [t \in Tasks |-> Idle(IF t = Filler THEN "filler" ELSE w[t])]
  /\ serving = "up"
  /\ pool = NoPool
  /\ built = 0
  /\ entries = [n \in 1..MaxPools |-> [live |-> {}, dead |-> {}, opened |-> FALSE]]
  /\ fill = Free
  /\ lock = Free
  /\ file = [known |-> Listed, seen |-> {}]
  /\ peers = file
  /\ log = {}
  /\ dialled = {}

Size(n) == Cardinality(entries[n].live) + Cardinality(entries[n].dead)

At(t, pc) == serving # "down" /\ task[t].pc = pc

Go(t, pc) == task' = [task EXCEPT ![t].pc = pc]

\* The request's response frame is written and its task is over.
Answer(t) == task' = [task EXCEPT ![t] = [Idle(@.op) EXCEPT !.pc = "answered"]]

-----------------------------------------------------------------------------
(* ensure_pool: what the filler runs at start, and an upload before it     *)
(* pushes.                                                                 *)

\* The pool is there: the upload goes on to take the peer list, the filler
\* to its maintenance loop.
Ensured(t, n) ==
  IF t = Filler
  THEN /\ Go(t, "tick")
       /\ UNCHANGED lock
  ELSE /\ task' = [task EXCEPT ![t].pc = "push", ![t].pool = n]
       /\ lock' = Acquire(lock, t, "read")

\* Mutant: the upload takes the peer list before the pool, and keeps it.
EnsureHolding(t) ==
  /\ At(t, "start")
  /\ task[t].op \in {"upload", "filler"}
  /\ lock' = IF t = Filler THEN lock ELSE Acquire(lock, t, "read")
  /\ fill' = Acquire(fill, t, "write")
  /\ Go(t, "build")
  /\ UNCHANGED <<serving, pools, lists>>

\* The first check, without the fill lock.
Ensure(t) ==
  /\ At(t, "start")
  /\ task[t].op \in {"upload", "filler"}
  /\ IF pool # NoPool /\ Size(pool) > 0
     THEN Ensured(t, pool) /\ UNCHANGED fill
     ELSE /\ fill' = Acquire(fill, t, "write")
          /\ Go(t, "build")
          /\ UNCHANGED lock
  /\ UNCHANGED <<serving, pools, lists>>

\* The second check, under it; a new empty pool is installed before the fill.
Build(t) ==
  /\ At(t, "build")
  /\ Holds(fill, t)
  /\ IF pool # NoPool /\ Size(pool) > 0
     THEN Ensured(t, pool) /\ fill' = Release(fill, t) /\ UNCHANGED <<pool, built>>
     ELSE /\ built < MaxPools
          /\ built' = built + 1
          /\ pool' = built'
          /\ task' = [task EXCEPT ![t].pc = "warm", ![t].pool = built']
          /\ lock' = Acquire(lock, t, "read")
          /\ UNCHANGED fill
  /\ UNCHANGED <<serving, entries, lists>>

\* Enough fresh known-good peers on the list, or no resolver configured: the
\* fill goes ahead from the list.  Otherwise the bootnodes are asked first.
SkipDiscover(t) ==
  /\ At(t, "warm")
  /\ Holds(lock, t)
  /\ lock' = Acquire(Release(lock, t), t, "read")
  /\ Go(t, "snapshot")
  /\ UNCHANGED <<serving, fill, pools, lists>>

Discover(t) ==
  /\ At(t, "warm")
  /\ Holds(lock, t)
  /\ lock' = Release(lock, t)
  /\ Go(t, "discover")
  /\ UNCHANGED <<serving, fill, pools, lists>>

Discovered(t) ==
  /\ At(t, "discover")
  /\ \E fresh \in {{}, Hive} :
       IF fresh = {}
       THEN Go(t, "snapshot") /\ lock' = Acquire(lock, t, "read")
       ELSE /\ task' = [task EXCEPT ![t].pc = "upsert", ![t].fresh = fresh]
            /\ lock' = Acquire(lock, t, "write")
  /\ UNCHANGED <<serving, fill, pools, lists>>

Upsert(t) ==
  /\ At(t, "upsert")
  /\ Holds(lock, t)
  /\ peers' = [peers EXCEPT !.known = @ \cup task[t].fresh]
  /\ lock' = Acquire(Release(lock, t), t, "read")
  /\ task' = [task EXCEPT ![t].pc = "snapshot", ![t].fresh = {}]
  /\ UNCHANGED <<serving, fill, pools, file, log, dialled>>

\* The list is copied, its lock dropped, and the dials begin: top_up opens
\* what is missing to the goal, from the peers the pool does not hold yet.
Snapshot(t, goal) ==
  /\ At(t, "snapshot")
  /\ Holds(lock, t)
  /\ lock' = Release(lock, t)
  /\ LET n == task[t].pool IN
     task' = [task EXCEPT ![t].pc = "dial", ![t].added = 0,
                          ![t].goal = IF goal > Size(n) THEN goal - Size(n) ELSE 0,
                          ![t].cands = peers.known \ (entries[n].live \cup entries[n].dead)]
  /\ UNCHANGED <<serving, fill, pools, lists>>

Dialling(t) == task[t].pc = "dial"

\* A dial ends.  Its result goes to the log, its session into the pool at once.
Dial(t) ==
  /\ At(t, "dial")
  /\ task[t].added < task[t].goal
  /\ \E p \in task[t].cands, ok \in BOOLEAN :
       /\ task' = [task EXCEPT ![t].cands = @ \ {p}, ![t].added = IF ok THEN @ + 1 ELSE @]
       /\ entries' = IF ok THEN [entries EXCEPT ![task[t].pool].live = @ \cup {p},
                                                ![task[t].pool].opened = TRUE]
                     ELSE entries
       /\ log' = log \cup {p}
       /\ dialled' = dialled \cup {p}
  /\ UNCHANGED <<serving, pool, built, fill, lock, peers, file>>

\* The fill is over: the goal is reached or nobody is left to dial.
FillOver(t) == task[t].added = task[t].goal \/ task[t].cands = {}

\* Nothing was opened: the pool is uninstalled, so that the next caller builds one.
NothingOpened(t) == NoPool

Filled(t) ==
  /\ At(t, "dial")
  /\ ~ (t = Filler /\ task[t].tick)
  /\ FillOver(t)
  /\ fill' = Release(fill, t)
  /\ IF task[t].added = 0 /\ Size(task[t].pool) = 0
     THEN /\ pool' = NothingOpened(t)
          /\ IF t = Filler THEN Go(t, "gone") ELSE Answer(t)
          /\ UNCHANGED lock
     ELSE Ensured(t, task[t].pool) /\ UNCHANGED pool
  /\ UNCHANGED <<serving, built, entries, lists>>

-----------------------------------------------------------------------------
(* maintain_pool: the filler's loop once its first fill has succeeded.     *)

\* try_lock.
TryFill == fill.held = {}

\* At most max_per_tick sessions a tick.
RefillTarget(after_prune) ==
  LET max_per_tick == IF Target \div 8 > MinRefill THEN Target \div 8 ELSE MinRefill
      full == after_prune + max_per_tick
  IN IF full < Target THEN full ELSE Target

Tick ==
  /\ At(Filler, "tick")
  /\ pool # NoPool
  /\ TryFill
  /\ LET left == entries[pool].live IN
     /\ entries[pool].dead # {} \/ Cardinality(left) < Target
     /\ entries' = [entries EXCEPT ![pool].dead = {}]
     /\ fill' = Acquire(fill, Filler, "write")
     /\ lock' = Acquire(lock, Filler, "read")
     /\ task' = [task EXCEPT ![Filler].pc = "snapshot", ![Filler].pool = pool, ![Filler].tick = TRUE,
                          ![Filler].goal = RefillTarget(Cardinality(left))]
  /\ UNCHANGED <<serving, pool, built, lists>>

\* The tick's fill ends by itself or at TOP_UP_DEADLINE; what is open stays.
TickEnds ==
  /\ At(Filler, "dial")
  /\ task[Filler].tick
  /\ fill' = Release(fill, Filler)
  /\ task' = [task EXCEPT ![Filler] = [Idle("filler") EXCEPT !.pc = "tick"]]
  /\ UNCHANGED <<serving, lock, pools, lists>>

\* A peer closes the connection of a session.
Dies(n) ==
  /\ serving # "down"
  /\ \E p \in entries[n].live :
       entries' = [entries EXCEPT ![n].live = @ \ {p}, ![n].dead = @ \cup {p}]
  /\ UNCHANGED <<task, serving, pool, built, fill, lock, lists>>

-----------------------------------------------------------------------------
(* The requests.                                                           *)

\* A key, file, level or path that is no good is refused before anything is taken.
Refuse(t) ==
  /\ At(t, "start")
  /\ task[t].op \in Users
  /\ Answer(t)
  /\ UNCHANGED <<serving, fill, lock, pools, lists>>

\* A collection and a fetch take the list at once; an upload comes here with
\* its pool.  Each holds the list until it is done.
Use(t) ==
  /\ At(t, "start")
  /\ task[t].op \in {"collection", "fetch"}
  /\ lock' = Acquire(lock, t, "read")
  /\ Go(t, "push")
  /\ UNCHANGED <<serving, fill, pools, lists>>

Used(t) ==
  /\ At(t, "push")
  /\ Holds(lock, t)
  /\ lock' = Release(lock, t)
  /\ Answer(t)
  /\ UNCHANGED <<serving, fill, pools, lists>>

\* ReloadPeers reads the file before it asks for the lock.
Reload(t) ==
  /\ At(t, "start")
  /\ task[t].op = "reload"
  /\ task' = [task EXCEPT ![t].pc = "reload", ![t].loaded = file]
  /\ lock' = Acquire(lock, t, "write")
  /\ UNCHANGED <<serving, fill, pools, lists>>

Reloaded(t) ==
  /\ At(t, "reload")
  /\ Holds(lock, t)
  /\ peers' = task[t].loaded
  /\ lock' = Release(lock, t)
  /\ Go(t, "drop")
  /\ UNCHANGED <<serving, fill, pools, file, log, dialled>>

DropPool(t) ==
  /\ At(t, "drop")
  /\ pool' = NoPool
  /\ Answer(t)
  /\ UNCHANGED <<serving, built, entries, fill, lock, lists>>

\* apply_log: the results of the peers on the list are recorded, the log is
\* drained either way.
apply_log(l) == [l EXCEPT !.seen = @ \cup (log \cap l.known)]

Save(t) ==
  /\ At(t, "start")
  /\ task[t].op = "save"
  /\ lock' = Acquire(lock, t, "write")
  /\ Go(t, "save")
  /\ UNCHANGED <<serving, fill, pools, lists>>

Saved(t) ==
  /\ At(t, "save")
  /\ Holds(lock, t)
  /\ peers' = apply_log(peers)
  /\ log' = {}
  /\ file' \in {peers', file}
  /\ Answer(t)
  /\ lock' = Release(lock, t)
  /\ UNCHANGED <<serving, fill, pools, dialled>>

\* The pool is read at once, the list after its lock.
Status(t) ==
  /\ At(t, "start")
  /\ task[t].op = "status"
  /\ lock' = Acquire(lock, t, "read")
  /\ Go(t, "status")
  /\ UNCHANGED <<serving, fill, pools, lists>>

Reported(t) ==
  /\ At(t, "status")
  /\ Holds(lock, t)
  /\ lock' = Release(lock, t)
  /\ Answer(t)
  /\ UNCHANGED <<serving, fill, pools, lists>>

\* The accept loop leaves and asks for the list; no request is accepted any more.
Shutdown(t) ==
  /\ At(t, "start")
  /\ task[t].op = "shutdown"
  /\ serving = "up"
  /\ serving' = "stopping"
  /\ lock' = Acquire(lock, Server, "write")
  /\ Answer(t)
  /\ UNCHANGED <<fill, pools, lists>>

\* Mutant: the log is applied to a copy, and the list saved without it.
AppliedToCopy(l) == l

Applied(l) == apply_log(l)

\* The list is saved with the log applied, and the process ends; a save that
\* fails is only logged.
Exit ==
  /\ serving = "stopping"
  /\ Holds(lock, Server)
  /\ peers' = Applied(peers)
  /\ log' = {}
  /\ file' \in {peers', file}
  /\ serving' = "down"
  /\ UNCHANGED <<task, fill, lock, pools, dialled>>

Next ==
  \/ \E t \in Tasks :
       \/ Ensure(t) \/ Build(t) \/ SkipDiscover(t) \/ Discover(t) \/ Discovered(t) \/ Upsert(t)
       \/ Dial(t) \/ Filled(t)
       \/ Snapshot(t, IF task[t].tick THEN task[t].goal
                      ELSE IF Target < Bootstrap THEN Target ELSE Bootstrap)
       \/ Refuse(t) \/ Use(t) \/ Used(t) \/ Reload(t) \/ Reloaded(t) \/ DropPool(t) \/ Save(t) \/ Saved(t)
       \/ Status(t) \/ Reported(t) \/ Shutdown(t)
  \/ Tick \/ TickEnds \/ Exit
  \/ \E n \in 1..built : Dies(n)

Spec == Init /\ [][Next]_vars

-----------------------------------------------------------------------------
\* The types of the daemon's state.
TypeOK ==
  /\ serving \in {"up", "stopping", "down"}
  /\ pool \in 0..MaxPools /\ built \in 0..MaxPools
  /\ log \subseteq Peers /\ peers.known \subseteq Peers /\ file.known \subseteq Peers
  /\ \A n \in 1..MaxPools : entries[n].live \cap entries[n].dead = {}
  /\ \A t \in Tasks : task[t].cands \subseteq Peers /\ task[t].added <= task[t].goal

\* The task a task waits for: a holder of the lock it is queued on, or
\* somebody queued before it.
Before(l, t) ==
  {h.task : h \in l.held}
    \cup {l.queue[i].task : i \in {i \in DOMAIN l.queue : \E j \in DOMAIN l.queue :
                                     j > i /\ l.queue[j].task = t}}

WaitsFor(t) ==
  (IF Waits(fill, t) THEN Before(fill, t) ELSE {}) \cup (IF Waits(lock, t) THEN Before(lock, t) ELSE {})

\* Some task of every set of waiting tasks waits for none of them: a fill that
\* needs the peer list, an upload that needs a fill, a save behind both and the
\* shutdown behind the save never close a circle (the order in which
\* ensure_pool, run_upload and maintain_pool take fill_lock and peers).
WaitsEnd ==
  LET waiting == {t \in Tasks \cup {Server} : Waits(fill, t) \/ Waits(lock, t)} IN
  \A S \in SUBSET waiting \ {{}} : \E t \in S : WaitsFor(t) \cap S = {}

\* One dial wave at a time: while a fill runs, neither another upload nor a
\* maintenance tick dials as well (fill_lock, try_lock).
OneDialWave == Cardinality({t \in Tasks : Dialling(t)}) <= 1

\* A pool that stays installed when nobody fills it has held a session: a fill
\* that opened nothing never leaves a permanently empty pool behind
\* (ensure_pool's uninstall).
InstalledWasFilled == pool # NoPool /\ fill.held = {} => entries[pool].opened

\* When the daemon has stopped and could write its file, every dial result it
\* ever learned about a listed peer is in the file, unless the list was
\* replaced by a reload on the way (the persist at the end of run).
LearnedIsSaved ==
  serving = "down" /\ file = peers /\ (\A t \in Requests : task[t].op # "reload")
    => dialled \cap file.known \subseteq file.seen
=============================================================================

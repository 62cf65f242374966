----------------------------- MODULE StreamPool -----------------------------
(***************************************************************************)
(* The stream pool (src/src/protocols/stream_pool/) of one swarm that      *)
(* talks to one peer, as a session uses it, and the inbound service of a   *)
(* swarm that listens (src/src/inbound.rs).                                *)
(*                                                                         *)
(* A caller of open_stream puts its request into a channel: that of an     *)
(* established connection, or the pending one of the peer, whose receiver  *)
(* goes to the next connection.  The handler of a connection, a task of    *)
(* its own, takes requests out of its channel and negotiates them, several *)
(* at a time.  Callers and swarm share one task, so an open_stream up to   *)
(* its first wait, and what the swarm does on one event, are one step      *)
(* each.                                                                   *)
(***************************************************************************)
EXTENDS Integers, Sequences, FiniteSets, Functions

CONSTANTS
  Callers,     \* calls of open_stream
  Protocols,   \* the inbound protocols
  MaxUpgrades, \* max_concurrent_upgrades
  MaxConns,    \* bound: connections
  MaxInbound   \* bound: inbound streams of each protocol

VARIABLES
  call,      \* call[r] = "idle", "waiting", "open", "unsupported", "failed"
  channel,   \* channel[k]: the requests in channel k, a sequence; channels are numbered
  receiver,  \* the channels whose receiver exists
  pending,   \* pending_channels[peer]: a channel, or 0
  senders,   \* senders: connection -> channel
  conns,     \* connections: the connections the swarm has reported
  handler,   \* handler[c] = [upgrades, next] of the connections whose task runs
  wire,      \* the negotiations under way: [conn, id, call]
  asked,     \* an item waits in dial_receiver
  dialling,  \* the swarm dials the peer
  slot,      \* supported_inbound_protocols: protocol -> "empty", "full"
  inbound,   \* inbound[p] = [opened, dropped, running]

  lost       \* history: calls whose answer went to another caller

vars == <<call, channel, receiver, pending, senders, conns, handler, wire, asked, dialling,
          slot, inbound, lost>>
out == <<call, channel, receiver, pending, senders, conns, handler, wire, asked, dialling, lost>>
in == <<slot, inbound>>

\* accept: each protocol is registered once, when the swarm is set up; the
\* caller of the swarm has asked it to dial.
Init ==
  /\ call = [r \in Callers |-> "idle"]
  /\ channel = <<>>
  /\ receiver = {}
  /\ pending = 0
  /\ senders = <<>>
  /\ conns = {}
  /\ handler = <<>>
  /\ wire = {}
  /\ asked = FALSE
  /\ dialling = TRUE
  /\ slot = [p \in Protocols |-> "empty"]
  /\ inbound = [p \in Protocols |-> [opened |-> 0, dropped |-> 0, running |-> 0]]
  /\ lost = {}

-----------------------------------------------------------------------------
(* Callers.                                                                *)

\* sender: the channel of a reported connection, or the pending channel, which
\* is created on demand and for which a dial is asked.
open_stream(r) ==
  /\ call[r] = "idle"
  /\ \/ \E c \in conns :
          LET k == senders[c] IN
          /\ IF k \in receiver
             THEN channel' = [channel EXCEPT ![k] = Append(@, r)] /\ call' = [call EXCEPT ![r] = "waiting"]
             ELSE call' = [call EXCEPT ![r] = "failed"] /\ UNCHANGED channel
          /\ UNCHANGED <<receiver, pending, asked>>
     \/ /\ conns = {}
        /\ IF pending = 0
           THEN /\ pending' = Len(channel) + 1
                /\ receiver' = receiver \cup {pending'}
                /\ channel' = Append(channel, <<r>>)
           ELSE /\ channel' = [channel EXCEPT ![pending] = Append(@, r)]
                /\ UNCHANGED <<pending, receiver>>
        /\ asked' = TRUE
        /\ call' = [call EXCEPT ![r] = "waiting"]
  /\ UNCHANGED <<senders, conns, handler, wire, dialling, lost, in>>

-----------------------------------------------------------------------------
(* The swarm.                                                              *)

\* Behaviour::poll: the dial is refused when the peer is connected or dialled
\* already, which nobody is told.
PollDial ==
  /\ asked
  /\ asked' = FALSE
  /\ dialling' = (dialling \/ conns = {})
  /\ UNCHANGED <<call, channel, receiver, pending, senders, conns, handler, wire, lost, in>>

\* A connection is established.  Its handler gets the receiver of the pending
\* channel if there is one (Shared::receiver, on_connection_established).
Established ==
  LET c == Len(senders) + 1 IN
  /\ dialling
  /\ c <= MaxConns
  /\ dialling' = FALSE
  /\ IF pending # 0
     THEN senders' = Append(senders, pending) /\ pending' = 0 /\ UNCHANGED <<channel, receiver>>
     ELSE /\ channel' = Append(channel, <<>>)
          /\ senders' = Append(senders, Len(channel'))
          /\ receiver' = receiver \cup {Len(channel')}
          /\ UNCHANGED pending
  /\ conns' = conns \cup {c}
  /\ handler' = [d \in DOMAIN handler \cup {c} |->
                   IF d = c THEN [upgrades |-> <<>>, next |-> 0] ELSE handler[d]]
  /\ UNCHANGED <<call, wire, asked, lost, in>>

\* Mutant: the requests of the pending channel are forgotten with it.
on_dial_failureSilent == UNCHANGED call

\* on_dial_failure: every request of the pending channel is told.
on_dial_failure ==
  call' = [r \in Callers |->
             IF pending # 0 /\ \E i \in DOMAIN channel[pending] : channel[pending][i] = r
             THEN "failed" ELSE call[r]]

DialFails ==
  /\ dialling
  /\ dialling' = FALSE
  /\ on_dial_failure
  /\ channel' = IF pending # 0 THEN [channel EXCEPT ![pending] = <<>>] ELSE channel
  /\ receiver' = receiver \ {pending}
  /\ pending' = 0
  /\ UNCHANGED <<senders, conns, handler, wire, asked, lost, in>>

\* The connection's task ends: its channel and its upgrades go with it, and
\* their callers see a reset.  The swarm has not noticed yet.
Drops(c) ==
  /\ c \in DOMAIN handler
  /\ LET k == senders[c]
         gone == Range(channel[k]) \cup Range(handler[c].upgrades) IN
     /\ call' = [r \in Callers |-> IF r \in gone THEN "failed" ELSE call[r]]
     /\ channel' = [channel EXCEPT ![k] = <<>>]
     /\ receiver' = receiver \ {k}
  /\ handler' = [d \in DOMAIN handler \ {c} |-> handler[d]]
  /\ wire' = {w \in wire : w.conn # c}
  /\ UNCHANGED <<pending, senders, conns, asked, dialling, lost, in>>

on_connection_closed(c) ==
  /\ c \in conns \ DOMAIN handler
  /\ conns' = conns \ {c}
  /\ UNCHANGED <<call, channel, receiver, pending, senders, handler, wire, asked, dialling, lost, in>>

-----------------------------------------------------------------------------
(* The handler of a connection.                                            *)

\* alloc_id: the ids of a handler are never used again (a wrapping u64).
alloc_id(c) == handler[c].next

HasRoom(c) == Cardinality(DOMAIN handler[c].upgrades) < MaxUpgrades

\* poll: a request is taken out of the channel and goes out as a substream
\* request that carries the id.  (pending_emit is always empty: a request that
\* could be queued there is emitted at once.)  An entry of the table that is
\* written over loses its caller.
poll(c) ==
  LET k == senders[c]
      id == alloc_id(c)
      r == Head(channel[k])
      up == handler[c].upgrades
  IN /\ c \in DOMAIN handler
     /\ HasRoom(c)
     /\ channel[k] # <<>>
     /\ channel' = [channel EXCEPT ![k] = Tail(@)]
     /\ handler' = [handler EXCEPT ![c] =
                      [upgrades |-> [i \in DOMAIN up \cup {id} |-> IF i = id THEN r ELSE up[i]],
                       next |-> id + 1]]
     /\ wire' = wire \cup {[conn |-> c, id |-> id, call |-> r]}
     /\ call' = IF id \in DOMAIN up THEN [call EXCEPT ![up[id]] = "failed"] ELSE call
     /\ UNCHANGED <<receiver, pending, senders, conns, asked, dialling, lost, in>>

\* on_connection_event: a negotiation ends with a stream, without support for
\* the protocol, or with a timeout or an I/O error.  The table says who asked.
Negotiated(c) ==
  \E w \in wire, how \in {"open", "unsupported", "failed"} :
    LET up == handler[c].upgrades IN
    /\ w.conn = c
    /\ wire' = wire \ {w}
    /\ w.id \in DOMAIN up
    /\ call' = [call EXCEPT ![up[w.id]] = how]
    /\ lost' = IF up[w.id] # w.call THEN lost \cup {up[w.id]} ELSE lost
    /\ handler' = [handler EXCEPT ![c].upgrades = [i \in DOMAIN up \ {w.id} |-> up[i]]]
    /\ UNCHANGED <<channel, receiver, pending, senders, conns, asked, dialling, in>>

-----------------------------------------------------------------------------
(* The inbound service: one arm of its loop for each protocol.             *)

\* A full channel drops the stream and stays registered.
AfterFull(p) == "full"

\* on_inbound_stream, from a handler: the channel holds one stream.
on_inbound_stream(p) ==
  /\ inbound[p].opened < MaxInbound
  /\ CASE slot[p] = "empty" ->
            /\ slot' = [slot EXCEPT ![p] = "full"]
            /\ inbound' = [inbound EXCEPT ![p].opened = @ + 1]
       [] OTHER ->
            /\ slot' = [slot EXCEPT ![p] = AfterFull(p)]
            /\ inbound' = [inbound EXCEPT ![p].opened = @ + 1, ![p].dropped = @ + 1]
  /\ UNCHANGED out

\* The loop takes a stream and spawns its responder.
Respond(p) ==
  /\ slot[p] = "full"
  /\ slot' = [slot EXCEPT ![p] = "empty"]
  /\ inbound' = [inbound EXCEPT ![p].running = @ + 1]
  /\ UNCHANGED out

\* A responder is done, failed, or cut off at op_timeout.
Responded(p) ==
  /\ inbound[p].running > 0
  /\ inbound' = [inbound EXCEPT ![p].running = @ - 1]
  /\ UNCHANGED <<slot, out>>

Next ==
  \/ \E r \in Callers : open_stream(r)
  \/ PollDial \/ Established \/ DialFails
  \/ \E c \in 1..Len(senders) : Drops(c) \/ on_connection_closed(c) \/ poll(c) \/ Negotiated(c)
  \/ \E p \in Protocols : on_inbound_stream(p) \/ Respond(p) \/ Responded(p)

Spec == Init /\ [][Next]_vars

-----------------------------------------------------------------------------
\* The types of the pool's state.
TypeOK ==
  /\ call \in [Callers -> {"idle", "waiting", "open", "unsupported", "failed"}]
  /\ receiver \subseteq DOMAIN channel /\ pending \in {0} \cup receiver
  /\ conns \subseteq DOMAIN senders /\ DOMAIN handler \subseteq DOMAIN senders
  /\ \A p \in Protocols : inbound[p].dropped <= inbound[p].opened

\* A caller that waits will be answered: its request is in the channel of a
\* connection whose handler runs, in that handler's table, or in the pending
\* channel while a dial is asked or under way; nobody waits in a channel that
\* no connection and no dial failure will ever empty (Shared::sender, receiver,
\* on_dial_failure).
WaitingHasAnswerer ==
  \A r \in Callers : call[r] = "waiting" =>
    \/ \E c \in DOMAIN handler : r \in Range(channel[senders[c]]) \cup Range(handler[c].upgrades)
    \/ pending # 0 /\ r \in Range(channel[pending]) /\ (asked \/ dialling)

\* A negotiation's result reaches the caller that asked for it, whatever the
\* order in which several of one connection end (alloc_id, pending_upgrades).
ReplyToRequester ==
  /\ lost = {}
  /\ \A w \in wire : w.id \in DOMAIN handler[w.conn].upgrades
                       /\ handler[w.conn].upgrades[w.id] = w.call

\* A connection never negotiates more streams at a time than it may
\* (max_concurrent_upgrades).
UpgradesWithinCap ==
  \A c \in DOMAIN handler : Cardinality({w \in wire : w.conn = c}) <= MaxUpgrades

\* However many streams of a protocol arrive before the service looks, the
\* protocol stays registered and the next stream finds a place
\* (on_inbound_stream drops the stream of a full channel, not the entry).
StaysRegistered == \A p \in Protocols : slot[p] \in {"empty", "full"}
=============================================================================

------------------------------ MODULE Connect ------------------------------
(***************************************************************************)
(* Opening a connection (src/src/transport.rs): PeerSession::connect,      *)
(* which leaves a session behind, and Transport::discover_peers, which     *)
(* listens for the peers the other side broadcasts and hangs up.  Both go  *)
(* through prep_connection, do_handshake and do_pricing; what they do      *)
(* about a peer that is slow differs.                                      *)
(*                                                                         *)
(* The peer answers a stage, refuses it, or says nothing while time        *)
(* passes.  The exchanges themselves are in module Exchange, the pacing of *)
(* dials before connect in module Limiters.                                *)
(***************************************************************************)
EXTENDS Integers

CONSTANTS
  Budget,   \* config.dial_timeout
  Timeout,  \* config.timeout
  Wait,     \* discover_peers' wait
  Quiet,    \* QUIET_FOR
  MaxTime,  \* bound: the clock stops here
  MaxBatch  \* bound: broadcasts

VARIABLES
  kind,     \* "session", "discover"
  speaks,   \* the handshake versions the peer speaks
  pays,     \* a chequebook is configured and the peer's address was recovered
  pc,       \* the stage; "open", "found" and "failed" are final
  clock,    \* ticks since the deadline in force was set
  calm,     \* ticks since a broadcast was read
  version,  \* the handshake version in use, 0 before
  done,     \* what was accomplished
  waiting,  \* a broadcast stream waits to be read
  batches,  \* broadcasts read
  dropped   \* the connection has closed

vars == <<kind, speaks, pays, pc, clock, calm, version, done, waiting, batches, dropped>>
fixed == <<kind, speaks, pays>>
gossip == <<calm, waiting, batches>>

Final == {"open", "found", "failed"}
Forever == MaxTime + 1

\* connect sets one deadline for everything.  discover_peers has one for the
\* connection, one for their price and one for the broadcasts, and none for the
\* handshake, for our price and for a broadcast that is being read.
Deadline(stage) ==
  CASE kind = "session" -> Budget
    [] stage \in {"dial", "identify", "push", "their_price"} -> Timeout
    [] stage = "gossip" -> Wait
    [] OTHER -> Forever
Resets(stage) == kind = "discover" /\ stage \in {"open15", "their_price", "our_price", "gossip"}

Init ==
  /\ kind \in {"session", "discover"}
  /\ speaks \in {{14}, {15}, {14, 15}, {}}
  /\ pays \in BOOLEAN
  /\ pc = "dial"
  /\ clock = 0 /\ calm = 0
  /\ version = 0
  /\ done = {}
  /\ waiting = FALSE
  /\ batches = 0
  /\ dropped = FALSE

Go(stage) ==
  /\ pc' = stage
  /\ clock' = IF Resets(stage) THEN 0 ELSE clock
  /\ UNCHANGED <<fixed, gossip, dropped>>

-----------------------------------------------------------------------------
\* prep_connection: the connection, their identify, our push acknowledged.
prep_connection ==
  /\ \/ pc = "dial" /\ Go("identify") /\ done' = done \cup {"connected"}
     \/ pc = "identify" /\ Go("push") /\ done' = done \cup {"identified"}
     \/ pc = "push" /\ Go("open15") /\ done' = done \cup {"pushed"}
  /\ UNCHANGED version

is_unsupported_protocol(error) == error = "UnsupportedProtocol"

\* What opening a stream of a version may end with: refused if the peer does
\* not speak it, an error of another kind at any time.
Opened(v) == IF v \in speaks THEN {"ok", "io"} ELSE {"UnsupportedProtocol", "io"}

\* do_handshake, the choice of the version.
open_handshake ==
  /\ \/ /\ pc = "open15"
        /\ \E answer \in Opened(15) :
             CASE answer = "ok" -> Go("handshake") /\ version' = 15
               [] answer # "ok" /\ is_unsupported_protocol(answer) -> Go("open14") /\ UNCHANGED version
               [] OTHER -> Go("failed") /\ UNCHANGED version
     \/ /\ pc = "open14"
        /\ \E answer \in Opened(14) :
             IF answer = "ok" THEN Go("handshake") /\ version' = 14
             ELSE Go("failed") /\ UNCHANGED version
  /\ UNCHANGED done

\* do_handshake, the rest: our handshake, and one of the peer's that is
\* answered in between, successfully or not; meanwhile ours does not go on.
do_handshake ==
  /\ \/ pc = "handshake" /\ Go("their_price") /\ done' = done \cup {"handshake"}
     \/ pc = "handshake" /\ Go("dial_back") /\ UNCHANGED done
     \/ pc = "dial_back" /\ Go("handshake") /\ UNCHANGED done
  /\ UNCHANGED version

AfterPricing == IF kind = "session" THEN "hive" ELSE "gossip"

\* do_pricing: their announcement first, understood or not, then ours.
do_pricing ==
  /\ \/ pc = "their_price" /\ Go("our_price") /\ done' = done \cup {"theirs"}
     \/ pc = "our_price" /\ Go(AfterPricing) /\ done' = done \cup {"ours"}
  /\ UNCHANGED version

hive_version == IF version = 14 THEN 1 ELSE 2

\* Mutant: an announcement that fails takes the session with it.
do_hive_announceStrict ==
  /\ pc = "hive"
  /\ \/ Go("failed") /\ UNCHANGED done
     \/ /\ Go(IF pays THEN "swap" ELSE "open")
        /\ done' = done \cup {IF hive_version = 1 THEN "hive1" ELSE "hive2"}
  /\ UNCHANGED version

\* do_hive_announce: made or not, the session goes on.
do_hive_announce ==
  /\ pc = "hive"
  /\ Go(IF pays THEN "swap" ELSE "open")
  /\ done' \in {done, done \cup {IF hive_version = 1 THEN "hive1" ELSE "hive2"}}
  /\ UNCHANGED version

\* do_swap_handshake: without it the session settles by pseudosettle alone.
do_swap_handshake ==
  /\ pc = "swap"
  /\ Go("open")
  /\ done' \in {done, done \cup {"swap"}}
  /\ UNCHANGED version

-----------------------------------------------------------------------------
(* discover_peers, after the pricing.                                      *)

\* The peer opens a stream for its next broadcast.
Broadcast ==
  /\ pc \in {"gossip", "reading"}
  /\ ~dropped /\ ~waiting
  /\ waiting' = TRUE
  /\ UNCHANGED <<fixed, pc, clock, calm, version, done, batches, dropped>>

TakeBatch ==
  /\ pc = "gossip"
  /\ waiting
  /\ pc' = "reading"
  /\ waiting' = FALSE
  /\ UNCHANGED <<fixed, clock, calm, version, done, batches, dropped>>

AfterBatch == "gossip"

\* The broadcast is read to its end, or fails and counts for nothing.
ReadBatch ==
  /\ pc = "reading"
  /\ \/ batches < MaxBatch /\ batches' = batches + 1 /\ calm' = 0 /\ pc' = AfterBatch
     \/ pc' = "gossip" /\ UNCHANGED <<batches, calm>>
  /\ UNCHANGED <<fixed, clock, version, done, waiting, dropped>>

\* The burst is over.
FallsQuiet ==
  /\ pc = "gossip"
  /\ batches > 0
  /\ calm >= Quiet
  /\ Go("found")
  /\ UNCHANGED <<version, done>>

-----------------------------------------------------------------------------
\* A stage fails: the peer refuses, or the connection closes.  The two last
\* steps of connect_inner and the handshake of the peer's do not count.
StageFails ==
  /\ pc \in {"dial", "identify", "push", "handshake", "our_price"}
  /\ Go("failed")
  /\ UNCHANGED <<version, done>>

\* The connection closes while broadcasts are awaited.
Closes ==
  /\ pc = "gossip"
  /\ dropped' = TRUE
  /\ pc' = "found"
  /\ UNCHANGED <<fixed, clock, gossip, version, done>>

\* The deadline in force passes.
TimesOut ==
  /\ pc \notin Final
  /\ clock >= Deadline(pc)
  /\ Go(IF pc = "gossip" THEN "found" ELSE "failed")
  /\ UNCHANGED <<version, done>>

Tick ==
  /\ pc \notin Final
  /\ clock < Deadline(pc)
  /\ clock < MaxTime \/ calm < MaxTime
  /\ clock' = IF clock < MaxTime THEN clock + 1 ELSE clock
  /\ calm' = IF pc \in {"gossip", "reading"} /\ calm < MaxTime THEN calm + 1 ELSE calm
  /\ UNCHANGED <<fixed, pc, version, done, waiting, batches, dropped>>

Next ==
  \/ prep_connection \/ open_handshake \/ do_handshake \/ do_pricing
  \/ do_hive_announce \/ do_swap_handshake
  \/ Broadcast \/ TakeBatch \/ ReadBatch \/ FallsQuiet
  \/ StageFails \/ Closes \/ TimesOut \/ Tick

Spec == Init /\ [][Next]_vars

-----------------------------------------------------------------------------
\* The types of a connection.
TypeOK ==
  /\ version \in {0, 14, 15} /\ clock \in 0..MaxTime /\ calm \in 0..MaxTime
  /\ batches \in 0..MaxBatch
  /\ pc \in Final \cup {"dial", "identify", "push", "open15", "open14", "handshake", "dial_back",
                        "their_price", "our_price", "hive", "swap", "gossip", "reading"}
  /\ kind = "session" => ~waiting /\ pc \notin {"gossip", "reading", "found"}

\* A session that is handed out has been through everything a push depends on,
\* in a version the peer speaks, and what it announced of itself is in the format
\* that belongs to that version (connect_inner; a record of the other format
\* carries a signature the peer rejects).
SessionIsReady ==
  pc = "open" =>
    /\ {"connected", "identified", "pushed", "handshake", "theirs", "ours"} \subseteq done
    /\ version \in speaks
    /\ version = 14 => "hive2" \notin done
    /\ version = 15 => "hive1" \notin done

\* The older handshake is used only with a peer that does not speak the newer
\* one: no other failure is taken for a matter of versions (do_handshake,
\* is_unsupported_protocol).
FallbackOnlyUnsupported == version = 14 \/ pc = "open14" => 15 \notin speaks

\* Listening for broadcasts ends because time is up, the burst is over or the
\* connection closed, and never merely because something was heard
\* (discover_peers: "Breaking after the first batch ... lost 50-80% of the peers").
HeardOut ==
  pc = "found" => dropped \/ clock >= Wait \/ (batches > 0 /\ calm >= Quiet)

\* Once the prices are exchanged only the deadline of the whole dial can keep
\* connect from returning a session: no error of the hive or the swap stream does
\* (connect_inner; a peer that says nothing on them still uses up the deadline).
LostToTimeOnly ==
  kind = "session" /\ pc = "failed" /\ "ours" \in done => clock >= Budget
=============================================================================

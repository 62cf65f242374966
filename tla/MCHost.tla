------------------------------- MODULE MCHost -------------------------------
(***************************************************************************)
(* The process around the protocols, for TLC: the daemon, an upload's      *)
(* progress stream, the search for anchors, the stream pool and the        *)
(* inbound service, the peer store and the pool fill, the wire exchanges,  *)
(* opening a connection, and discovery.  A behaviour runs one of them; the *)
(* variables of the others stay Off.                                       *)
(***************************************************************************)
EXTENDS Integers, Sequences, FiniteSets, TLC

CONSTANTS Off, r1, r2, r3, p1, p2, p3, b1, b2

VARIABLES
  part,
  d_task, d_serving, d_pool, d_built, d_entries, d_fill, d_lock, d_peers, d_file, d_log, d_dialled,
  u_wanted, u_upload, u_sent, u_channel, u_open, u_loop, u_client, u_socket, u_shown,
  a_targets, a_current, a_overlays, a_next_file,
  s_call, s_channel, s_receiver, s_pending, s_senders, s_conns, s_handler, s_wire, s_asked, s_dialling, s_slot, s_inbound, s_lost,
  p_store, p_now, p_pool, p_log, p_wave, p_waves, p_last,
  x_ex, x_at, x_inbox, x_end, x_took,
  c_kind, c_speaks, c_pays, c_pc, c_clock, c_calm, c_version, c_done, c_waiting, c_batches, c_dropped,
  r_state, r_round, r_frontier, r_inflight, r_next, r_seen, r_dials, r_heard

dvars == <<d_task, d_serving, d_pool, d_built, d_entries, d_fill, d_lock, d_peers, d_file, d_log, d_dialled>>
uvars == <<u_wanted, u_upload, u_sent, u_channel, u_open, u_loop, u_client, u_socket, u_shown>>
avars == <<a_targets, a_current, a_overlays, a_next_file>>
svars == <<s_call, s_channel, s_receiver, s_pending, s_senders, s_conns, s_handler, s_wire, s_asked, s_dialling, s_slot, s_inbound, s_lost>>
pvars == <<p_store, p_now, p_pool, p_log, p_wave, p_waves, p_last>>
xvars == <<x_ex, x_at, x_inbox, x_end, x_took>>
cvars == <<c_kind, c_speaks, c_pays, c_pc, c_clock, c_calm, c_version, c_done, c_waiting, c_batches, c_dropped>>
rvars == <<r_state, r_round, r_frontier, r_inflight, r_next, r_seen, r_dials, r_heard>>

Load(x, y, z) == r1 :> x @@ r2 :> y @@ r3 :> z
Past(success, failure, strikes, rtt) ==
  [success |-> success, failure |-> failure, strikes |-> strikes, rtt |-> rtt]
Of(p, underlay) == [peer |-> p, underlay |-> underlay]

-----------------------------------------------------------------------------
\* Up to three requests at a daemon whose list names one of two peers.
D == INSTANCE Daemon WITH
       task <- d_task, serving <- d_serving, pool <- d_pool, built <- d_built, entries
       <- d_entries, fill <- d_fill, lock <- d_lock, peers <- d_peers, file <- d_file,
       log <- d_log, dialled <- d_dialled,
       Requests <- {r1, r2, r3}, Workloads <- {Load("upload", "upload", "none"), Load("upload", "save", "shutdown"),
                     Load("upload", "reload", "none"), Load("fetch", "reload", "none"),
                     Load("collection", "status", "none"), Load("fetch", "shutdown", "none")},
       Peers <- {p1, p2}, Listed <- {p1}, Hive <- {p1, p2}, Target <- 2, Bootstrap <- 1,
       MinRefill <- 1, MaxPools <- 2

\* An upload that reports three times.
G == INSTANCE UploadStream WITH
       wanted <- u_wanted, upload <- u_upload, sent <- u_sent, channel <- u_channel,
       open <- u_open, loop <- u_loop, client <- u_client, socket <- u_socket, shown <-
       u_shown,
       Total <- 3

\* Overlays of three bits, two targets, two attempts.
A == INSTANCE Anchors WITH
       targets <- a_targets, current <- a_current, overlays <- a_overlays, next_file <-
       a_next_file,
       Bits <- 3, Attempts <- 2, MaxPo <- 3

\* Three callers on a connection that may negotiate two streams, and one that replaces it.
S == INSTANCE StreamPool WITH
       call <- s_call, channel <- s_channel, receiver <- s_receiver, pending <-
       s_pending, senders <- s_senders, conns <- s_conns, handler <- s_handler, wire <-
       s_wire, asked <- s_asked, dialling <- s_dialling, slot <- s_slot, inbound <-
       s_inbound, lost <- s_lost,
       Callers <- {r1, r2, r3}, Protocols <- {"handshake"}, MaxUpgrades <- 2, MaxConns <- 2, MaxInbound <- 2

\* Three peers, two of them in one bin: new, known good, or failed three times.
P == INSTANCE PeerPool WITH
       store <- p_store, now <- p_now, pool <- p_pool, log <- p_log, wave <- p_wave,
       waves <- p_waves, last <- p_last,
       N <- 3, Bin <- <<1, 1, 2>>, Histories <- {Past(0, 0, 0, 1000000), Past(1, 0, 0, 2), Past(0, 1, 3, 1000000)},
       Rtts <- {1}, Target <- 2, ConnPerPeer <- 1, Window <- 2, MaxWaves <- 2, MaxNow <- 3

\* Every exchange, each end against the other.
X == INSTANCE Exchange WITH
       ex <- x_ex, at <- x_at, inbox <- x_inbox, end <- x_end, took <- x_took

\* A peer that speaks either version, both or none.
C == INSTANCE Connect WITH
       kind <- c_kind, speaks <- c_speaks, pays <- c_pays, pc <- c_pc, clock <- c_clock,
       calm <- c_calm, version <- c_version, done <- c_done, waiting <- c_waiting,
       batches <- c_batches, dropped <- c_dropped,
       Budget <- 2, Timeout <- 2, Wait <- 3, Quiet <- 1, MaxTime <- 4, MaxBatch <- 2

\* Two bootstrap peers, three others described well and badly.
R == INSTANCE Discover WITH
       state <- r_state, round <- r_round, frontier <- r_frontier, inflight <-
       r_inflight, next <- r_next, seen <- r_seen, dials <- r_dials, heard <- r_heard,
       Peers <- {b1, b2, p1, p2, p3}, Boot <- {b1, b2},
       Says <- b1 :> {Of(p1, "dialable"), Of(p2, "other"), Of(p3, "private")}
            @@ b2 :> {Of(b1, "dialable"), Of(p2, "dialable")}
            @@ p1 :> {Of(p2, "dialable"), Of(p3, "dialable"), Of(b1, "dialable")}
            @@ p2 :> {Of(p1, "dialable"), Of(p3, "other")}
            @@ p3 :> {Of(p2, "private")},
       MaxRounds <- 4, Concurrency <- 2

-----------------------------------------------------------------------------
HostInit ==
  /\ part \in {"daemon", "progress", "anchors", "streams", "peers", "exchange", "connect", "discover"}
  /\ IF part = "daemon" THEN D!Init
     ELSE d_task = Off /\ d_serving = Off /\ d_pool = Off /\ d_built = Off /\ d_entries = Off
          /\ d_fill = Off /\ d_lock = Off /\ d_peers = Off /\ d_file = Off /\ d_log = Off /\
          d_dialled = Off
  /\ IF part = "progress" THEN G!SInit
     ELSE u_wanted = Off /\ u_upload = Off /\ u_sent = Off /\ u_channel = Off /\ u_open = Off
          /\ u_loop = Off /\ u_client = Off /\ u_socket = Off /\ u_shown = Off
  /\ IF part = "anchors" THEN A!AInit
     ELSE a_targets = Off /\ a_current = Off /\ a_overlays = Off /\ a_next_file = Off
  /\ IF part = "streams" THEN S!Init
     ELSE s_call = Off /\ s_channel = Off /\ s_receiver = Off /\ s_pending = Off /\ s_senders
          = Off /\ s_conns = Off /\ s_handler = Off /\ s_wire = Off /\ s_asked = Off /\
          s_dialling = Off /\ s_slot = Off /\ s_inbound = Off /\ s_lost = Off
  /\ IF part = "peers" THEN P!Init
     ELSE p_store = Off /\ p_now = Off /\ p_pool = Off /\ p_log = Off /\ p_wave = Off /\
          p_waves = Off /\ p_last = Off
  /\ IF part = "exchange" THEN X!Init
     ELSE x_ex = Off /\ x_at = Off /\ x_inbox = Off /\ x_end = Off /\ x_took = Off
  /\ IF part = "connect" THEN C!Init
     ELSE c_kind = Off /\ c_speaks = Off /\ c_pays = Off /\ c_pc = Off /\ c_clock = Off /\
          c_calm = Off /\ c_version = Off /\ c_done = Off /\ c_waiting = Off /\ c_batches =
          Off /\ c_dropped = Off
  /\ IF part = "discover" THEN R!Init
     ELSE r_state = Off /\ r_round = Off /\ r_frontier = Off /\ r_inflight = Off /\ r_next =
          Off /\ r_seen = Off /\ r_dials = Off /\ r_heard = Off

HostNext ==
  /\ UNCHANGED part
  /\ \/ part = "daemon" /\ D!Next /\ UNCHANGED <<uvars, avars, svars, pvars, xvars, cvars, rvars>>
     \/ part = "progress" /\ G!SNext /\ UNCHANGED <<dvars, avars, svars, pvars, xvars, cvars, rvars>>
     \/ part = "anchors" /\ A!ANext /\ UNCHANGED <<dvars, uvars, svars, pvars, xvars, cvars, rvars>>
     \/ part = "streams" /\ S!Next /\ UNCHANGED <<dvars, uvars, avars, pvars, xvars, cvars, rvars>>
     \/ part = "peers" /\ P!Next /\ UNCHANGED <<dvars, uvars, avars, svars, xvars, cvars, rvars>>
     \/ part = "exchange" /\ X!Next /\ UNCHANGED <<dvars, uvars, avars, svars, pvars, cvars, rvars>>
     \/ part = "connect" /\ C!Next /\ UNCHANGED <<dvars, uvars, avars, svars, pvars, xvars, rvars>>
     \/ part = "discover" /\ R!Next /\ UNCHANGED <<dvars, uvars, avars, svars, pvars, xvars, cvars>>

HostSpec == HostInit /\ [][HostNext]_<<part, dvars, uvars, avars, svars, pvars, xvars, cvars, rvars>>

-----------------------------------------------------------------------------
\* Daemon: no set of tasks waits for locks that only its members hold.
WaitsEnd == part = "daemon" => D!WaitsEnd

\* Daemon: one dial wave fills a pool at a time, an installed pool has been
\* filled, and what the dials taught is on disk when the daemon exits.
PoolKept ==
  part = "daemon" => D!TypeOK /\ D!OneDialWave /\ D!InstalledWasFilled /\ D!LearnedIsSaved

\* Progress: a finished upload's loop always gets on, and every update is shown
\* before the result.
ProgressDelivered == part = "progress" => G!STypeOK /\ G!NeverSpins /\ G!AllShown

\* Anchors: a suggested overlay is better where it matters.
SuggestionImproves == part = "anchors" => A!ATypeOK /\ A!SuggestionImproves

\* Streams: whoever waits for a stream will be answered, with the stream that
\* was asked for, within the cap; and a flood does not unregister a protocol.
StreamsServed ==
  part = "streams" => S!TypeOK /\ S!WaitingHasAnswerer /\ S!ReplyToRequester
                        /\ S!UpgradesWithinCap /\ S!StaysRegistered

\* Peers: a fill that ends short has tried everybody, dials who failed just now
\* after the others, and gives no peer more sessions than it may have.
FillSound ==
  part = "peers" => P!TypeOK /\ P!ShortMeansExhausted /\ P!RecentFailuresLast /\ P!PerPeerCap

\* Exchange: the two ends never wait for each other or take one message for
\* another, and success means an answer that holds what was asked for.
ExchangesAgree ==
  part = "exchange" => X!TypeOK /\ X!NoMutualWait /\ X!FramesAsExpected /\ X!AnswerIsGood

\* Connect: a session has been through every stage it needs in versions the
\* peer speaks, only time can fail it after the prices, and a peer that
\* broadcasts is heard out.
ConnectSound ==
  part = "connect" => C!TypeOK /\ C!SessionIsReady /\ C!FallbackOnlyUnsupported
                        /\ C!LostToTimeOnly /\ C!HeardOut

\* Discover: nobody is asked twice but the bootstrap peers, everybody is asked,
\* and nothing heard is lost.
DiscoverySound ==
  part = "discover" => R!TypeOK /\ R!DialledOnce /\ R!AsksEverybody /\ R!ReturnsWhatWasHeard
=============================================================================

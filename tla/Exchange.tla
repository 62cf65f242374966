------------------------------ MODULE Exchange ------------------------------
(***************************************************************************)
(* The message exchanges of the bee protocols (src/src/protocols/ and the  *)
(* responders in src/src/transport.rs): what each end of a stream writes   *)
(* and reads, in which order, and when it gives up.                        *)
(*                                                                         *)
(* The frames carry no type on the wire and protobuf decodes almost any    *)
(* bytes, so an end that reads at the wrong moment takes one message for   *)
(* another.  Both ends of most exchanges are in the repository: they are   *)
(* run against each other here.  The ends of a bee node are external.  A   *)
(* message is [kind, good]; what a good one is depends on the kind: a      *)
(* SynAck of our network, a receipt for the chunk we pushed, headers with  *)
(* an exchange rate, a delivery with data.                                 *)
(***************************************************************************)
EXTENDS Integers, Sequences

VARIABLES
  ex,    \* the exchange: the scripts of its two ends
  at,    \* at[s]: the step end s is at
  inbox, \* inbox[s]: the frames on their way to s
  end,   \* end[s] = "run", "ok", "err"
  took   \* took[s]: a frame that s accepted was not good

vars == <<ex, at, inbox, end, took>>

Sides == {"dialer", "listener"}
Other(s) == IF s = "dialer" THEN "listener" ELSE "dialer"

\* The steps of a script: write a frame, read one, read one and give up unless
\* it is good, read frames until the stream ends; a check or a signature of one's
\* own, which may fail.
W(kind) == [op |-> "write", kind |-> kind]
R(kind) == [op |-> "read", kind |-> kind]
Checked(kind) == [op |-> "check", kind |-> kind]
Drain(kind) == [op |-> "drain", kind |-> kind]
Local == [op |-> "local", kind |-> "none"]

-----------------------------------------------------------------------------
(* Headers: the preamble of every protocol but the handshake.              *)
write_then_read_empty_headers == <<W("Headers"), R("Headers")>>
read_then_write_empty_headers == <<R("Headers"), W("Headers")>>

(* Handshake: our record is signed before the Ack, their overlay is looked at *)
(* after it.                                                               *)
handshake_run == <<W("Syn"), Checked("SynAck"), Local, W("Ack"), Local>>
respond_to_handshake == <<R("Syn"), Local, W("SynAck"), R("Ack")>>

(* Pricing.                                                                *)
announce == <<W("AnnouncePaymentThreshold")>>
read_announcement == <<R("AnnouncePaymentThreshold")>>
respond_announcement == read_then_write_empty_headers \o read_announcement

(* Hive: our announcement, the peers a bee node broadcasts, our answer.    *)
announce_self == write_then_read_empty_headers \o <<W("Peers")>>
read_peers == read_then_write_empty_headers \o <<Drain("Peers")>>
respond_empty == read_then_write_empty_headers \o <<W("Peers")>>
BroadcastPeers == write_then_read_empty_headers \o <<W("Peers"), W("Peers")>>

(* Status.                                                                 *)
status_request == write_then_read_empty_headers \o <<W("Get"), R("Snapshot")>>

\* Mutant: the responder waits for the request before it answers the headers.
status_respondLate == <<R("Headers"), R("Get"), W("Headers"), W("Snapshot")>>
status_respond == read_then_write_empty_headers \o <<R("Get"), W("Snapshot")>>

(* Retrieval.                                                              *)
fetch == write_then_read_empty_headers \o <<W("Request"), Checked("Delivery")>>
retrieval_respond == read_then_write_empty_headers \o <<R("Request"), W("Delivery")>>

(* Pushsync: the receipt has no error and names the chunk.                 *)
push == write_then_read_empty_headers \o <<W("Delivery"), Checked("Receipt")>>
HandlePush == read_then_write_empty_headers \o <<R("Delivery"), W("Receipt")>>

(* Pseudosettle.                                                           *)
pay == <<W("Payment"), R("PaymentAck")>>
HandlePayment == read_then_write_empty_headers \o <<R("Payment"), W("PaymentAck")>>

(* Swap: the beneficiary, and a cheque at the rates of the answer's headers.*)
send_handshake == write_then_read_empty_headers \o <<W("Handshake")>>
HandleHandshake == read_then_write_empty_headers \o <<R("Handshake")>>
read_settlement_rates == <<W("Headers"), Checked("Headers")>>
emit_cheque == <<W("EmitCheque")>>
HandleCheque == read_then_write_empty_headers \o <<R("EmitCheque")>>

Exchanges ==
  {[dialer |-> handshake_run, listener |-> respond_to_handshake],
   [dialer |-> write_then_read_empty_headers \o announce, listener |-> respond_announcement],
   [dialer |-> announce_self, listener |-> respond_empty],
   [dialer |-> BroadcastPeers, listener |-> read_peers],
   [dialer |-> BroadcastPeers, listener |-> respond_empty],
   [dialer |-> status_request, listener |-> status_respond],
   [dialer |-> fetch, listener |-> retrieval_respond],
   [dialer |-> push, listener |-> HandlePush],
   [dialer |-> write_then_read_empty_headers \o pay, listener |-> HandlePayment],
   [dialer |-> send_handshake, listener |-> HandleHandshake],
   [dialer |-> read_settlement_rates \o emit_cheque, listener |-> HandleCheque]}

-----------------------------------------------------------------------------
Init ==
  /\ ex \in Exchanges
  /\ at = [s \in Sides |-> 1]
  /\ inbox = [s \in Sides |-> <<>>]
  /\ end = [s \in Sides |-> "run"]
  /\ took = [s \in Sides |-> FALSE]

Running(s) == end[s] = "run"
StepOf(s) == ex[s][at[s]]
Reads(s) == StepOf(s).op \in {"read", "check", "drain"}
Advanced(s) ==
  /\ at' = [at EXCEPT ![s] = @ + 1]
  /\ end' = IF at[s] = Len(ex[s]) THEN [end EXCEPT ![s] = "ok"] ELSE end

\* write_message, also to an end that no longer reads.
write_message(s) ==
  /\ Running(s)
  /\ StepOf(s).op = "write"
  /\ \E good \in BOOLEAN :
       inbox' = [inbox EXCEPT ![Other(s)] =
                   IF Running(Other(s)) THEN Append(@, [kind |-> StepOf(s).kind, good |-> good])
                   ELSE @]
  /\ Advanced(s)
  /\ UNCHANGED <<ex, took>>

\* read_message: the next frame, whatever it was meant to be.
read_message(s) ==
  LET frame == Head(inbox[s]) IN
  /\ Running(s)
  /\ Reads(s)
  /\ inbox[s] # <<>>
  /\ inbox' = [inbox EXCEPT ![s] = Tail(@)]
  /\ CASE StepOf(s).op = "check" /\ ~frame.good ->
            end' = [end EXCEPT ![s] = "err"] /\ UNCHANGED <<at, took>>
       [] StepOf(s).op = "drain" ->
            /\ end' \in {end} \cup IF frame.good THEN {} ELSE {[end EXCEPT ![s] = "err"]}
            /\ UNCHANGED <<at, took>>
       [] OTHER ->
            /\ Advanced(s)
            /\ took' = [took EXCEPT ![s] = @ \/ (~frame.good /\ at[s] = Len(ex[s]))]
  /\ UNCHANGED ex

LocalStep(s) ==
  /\ Running(s)
  /\ StepOf(s).op = "local"
  /\ Advanced(s) \/ (end' = [end EXCEPT ![s] = "err"] /\ UNCHANGED at)
  /\ UNCHANGED <<ex, inbox, took>>

\* The stream has ended: an error, but the natural end of read_peers.
ReadEnds(s) ==
  /\ Running(s)
  /\ Reads(s)
  /\ inbox[s] = <<>>
  /\ ~Running(Other(s))
  /\ end' = [end EXCEPT ![s] = IF StepOf(s).op = "drain" THEN "ok" ELSE "err"]
  /\ UNCHANGED <<ex, at, inbox, took>>

\* The connection breaks, or the caller's timeout drops the exchange.
Breaks(s) ==
  /\ Running(s)
  /\ end' = [end EXCEPT ![s] = "err"]
  /\ UNCHANGED <<ex, at, inbox, took>>

Next == \E s \in Sides : write_message(s) \/ read_message(s) \/ LocalStep(s) \/ ReadEnds(s) \/ Breaks(s)

Spec == Init /\ [][Next]_vars

-----------------------------------------------------------------------------
\* The types of an exchange.
TypeOK ==
  /\ \A s \in Sides : Running(s) => at[s] \in 1..Len(ex[s])
  /\ end \in [Sides -> {"run", "ok", "err"}]

\* The two ends never wait for each other: somebody writes, or a frame is on
\* its way, or one end is done and the other will see the stream end (the order
\* of the headers, requests and answers in the protocols).
NoMutualWait ==
  ~\A s \in Sides : Running(s) /\ Reads(s) /\ inbox[s] = <<>>

\* A frame is read by the code that expects its kind: no end decodes one
\* message as another (read_message takes whatever comes next).
FramesAsExpected ==
  \A s \in Sides :
    Running(s) /\ Reads(s) /\ inbox[s] # <<>> => Head(inbox[s]).kind = StepOf(s).kind

\* A push or a fetch succeeds only on an answer that holds what was asked for:
\* a receipt without error for this chunk, a delivery with data (push,
\* fetch_inner).
AnswerIsGood ==
  end["dialer"] = "ok" /\ ex["dialer"][Len(ex["dialer"])].kind \in {"Receipt", "Delivery"}
    => ~took["dialer"]
=============================================================================

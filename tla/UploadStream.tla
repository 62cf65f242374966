---------------------------- MODULE UploadStream ----------------------------
(***************************************************************************)
(* One upload through the daemon as its client sees it (src/src/daemon.rs: *)
(* handle_upload_streaming, drive_upload, call_upload): the upload sends   *)
(* progress updates into a channel, drive_upload writes them to the socket *)
(* as frames while it polls the upload, and the terminal frame comes last. *)
(***************************************************************************)
EXTENDS Integers, Sequences

CONSTANTS Total   \* the updates an upload sends

VARIABLES
  wanted,    \* the client asked for progress frames
  upload,    \* "running", "done": the upload future
  sent,      \* updates sent by the upload so far
  channel,   \* the updates not yet taken out of the channel
  open,      \* progress_open
  loop,      \* "select", "drain", "last", "over"
  client,    \* the client: "reading", "gone", or the terminal frame it returned
  socket,    \* the frames written and not yet read
  shown      \* the updates the client has shown

svars == <<wanted, upload, sent, channel, open, loop, client, socket, shown>>

SInit ==
  /\ wanted \in BOOLEAN
  /\ upload = "running"
  /\ sent = 0
  /\ channel = <<>>
  /\ open = TRUE
  /\ loop = "select"
  /\ client = "reading"
  /\ socket = <<>>
  /\ shown = <<>>

\* The channel is closed from the start when nobody wants progress: the only
\* sender was dropped.  Otherwise the callback keeps it open to the end.
Closed == ~ wanted

\* A worker of the upload reports: the callback never blocks.
Report ==
  /\ upload = "running"
  /\ sent < Total
  /\ sent' = sent + 1
  /\ channel' = IF wanted THEN Append(channel, sent') ELSE channel
  /\ UNCHANGED <<wanted, upload, open, loop, client, socket, shown>>

\* Nothing keeps the upload from completing when it is polled next.
Finishes ==
  /\ upload = "running"
  /\ upload' = "done"
  /\ UNCHANGED <<wanted, sent, channel, open, loop, client, socket, shown>>

TerminalFrame == 0

\* write_frame: a frame for a client that hung up is lost.
Written(f) == IF client = "reading" THEN Append(socket, f) ELSE socket

Drain(pc) ==
  /\ loop = pc
  /\ channel # <<>>
  /\ socket' = Written(Head(channel))
  /\ channel' = Tail(channel)
  /\ UNCHANGED <<wanted, upload, sent, open, loop, client, shown>>

\* recv returns None: the arm is disabled.
NoMore ==
  /\ loop = "select"
  /\ open
  /\ channel = <<>>
  /\ Closed
  /\ open' = FALSE
  /\ UNCHANGED <<wanted, upload, sent, channel, loop, client, socket, shown>>

\* Mutant: the loop is left for the terminal frame at once.
AfterLast == "last"

AfterLoop == "drain"

\* The select is biased: the upload is polled when the first arm has nothing,
\* no update and no end of the channel.  The poll that completes it may report
\* once more.
Poll ==
  /\ loop = "select"
  /\ ~ (open /\ (channel # <<>> \/ Closed))
  /\ upload = "done"
  /\ loop' = AfterLoop
  /\ sent' \in {sent, sent + 1} \cap 0..Total
  /\ channel' = IF wanted /\ sent' > sent THEN Append(channel, sent') ELSE channel
  /\ UNCHANGED <<wanted, upload, open, client, socket, shown>>

Drained ==
  /\ loop = "drain"
  /\ channel = <<>>
  /\ loop' = "last"
  /\ UNCHANGED <<wanted, upload, sent, channel, open, client, socket, shown>>

Terminal ==
  /\ loop = "last"
  /\ socket' = Written(TerminalFrame)
  /\ loop' = "over"
  /\ UNCHANGED <<wanted, upload, sent, channel, open, client, shown>>

\* call_upload: progress frames are shown, the first other frame is the result.
Read ==
  /\ client = "reading"
  /\ socket # <<>>
  /\ socket' = Tail(socket)
  /\ IF Head(socket) = TerminalFrame
     THEN client' = "terminal" /\ UNCHANGED shown
     ELSE shown' = Append(shown, Head(socket)) /\ UNCHANGED client
  /\ UNCHANGED <<wanted, upload, sent, channel, open, loop>>

HangUp ==
  /\ client = "reading"
  /\ client' = "gone"
  /\ UNCHANGED <<wanted, upload, sent, channel, open, loop, socket, shown>>

Drive == Drain("select") \/ NoMore \/ Poll \/ Drain("drain") \/ Drained \/ Terminal

SNext == Report \/ Finishes \/ Drive \/ Read \/ HangUp

-----------------------------------------------------------------------------
\* The types of the stream's state.
STypeOK ==
  /\ wanted \in BOOLEAN /\ open \in BOOLEAN
  /\ upload \in {"running", "done"}
  /\ loop \in {"select", "drain", "last", "over"}
  /\ client \in {"reading", "gone", "terminal"}
  /\ Len(channel) <= Total /\ Len(shown) <= Total

\* A finished upload always gets its terminal frame out: whatever the client
\* asked for and whether it is still there, the loop has a step to make that is
\* not the one it has just made (drive_upload disables the closed arm).
NeverSpins == upload = "done" /\ loop # "over" => ENABLED <<Drive>>_svars

\* A client that got its result has shown every update before it, in order and
\* once each: the bar is at its end when the upload is (the drain after the loop).
AllShown == client = "terminal" /\ wanted => shown = [i \in 1..sent |-> i]
=============================================================================

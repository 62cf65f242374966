---------------------------- MODULE MCRelayParts ----------------------------
(***************************************************************************)
(* The parts of the relay around its ledger, for TLC: the rate limiters,   *)
(* the standing of batches and the push endpoint; and the ledger itself    *)
(* with several accounts in soft mode.  They share no state, so a          *)
(* behaviour runs one of them and leaves the others as they start.         *)
(***************************************************************************)
EXTENDS Limiters, Standing, RelayPush, TLC

CONSTANTS k1, k2, r1, r2, b1, b2, t1, t2, a1, a2, q1, NoAccount

VARIABLES
  part,
  ledger, reserved, disk, post, pay, billed, paid, drawn

lvars == <<ledger, reserved, disk, post, pay, billed, paid, drawn>>

\* A POST whose frames alternate between two batches.
MCFrames == {<<b1, b2, b1>>}

F(a, b) == [addr |-> a, batch |-> b]

\* Two frames of one chunk, two batches in one POST, and a frame of a batch
\* that is not in standing.
MCBodies == {<<F(a1, b1), F(a1, b1)>>, <<F(a2, b1), F(a1, b2)>>, <<F(a2, "bad")>>}

MCSize == a1 :> 700 @@ a2 :> 1100

\* Two accounts with a chequebook each; admission on credit is not refused.
L == INSTANCE RelayLedger WITH
       Price <- 1, MinCheque <- 1, SettleEvery <- 2, MaxOutstanding <- 3, CreditRatio <- 1,
       Accounts <- {a1, a2}, Books <- {b1, b2}, Issuer <- (b1 :> a1 @@ b2 :> a2),
       Posts <- {r1, r2}, Pays <- {q1}, Bodies <- {1024}, Values <- {2}, HardMode <- FALSE,
       MaxLive <- 2, MaxCumulative <- 2, MaxBilled <- 2

\* Keys of the limiter are interchangeable, and so are requests and push tasks.
PartsAlike == Permutations({k1, k2}) \cup Permutations({r1, r2}) \cup Permutations({t1, t2})

PartsInit ==
  /\ part \in {"limiters", "standing", "push", "ledger"}
  /\ RInit /\ SInit /\ PInit /\ L!Init
  /\ part # "standing" => \A b \in {b1, b2} : chain[b].is = "funded"

PartsNext ==
  /\ UNCHANGED part
  /\ \/ part = "limiters" /\ RNext /\ UNCHANGED <<svars, pvars, lvars>>
     \/ part = "standing" /\ SNext /\ UNCHANGED <<rvars, pvars, lvars>>
     \/ part = "push" /\ PNext /\ UNCHANGED <<rvars, svars, lvars>>
     \/ part = "ledger" /\ L!Next /\ UNCHANGED <<rvars, svars, pvars>>

PartsSpec == PartsInit /\ [][PartsNext]_<<part, rvars, svars, pvars, lvars>>

\* Ledger: reservations, bills and cheques of one account do not touch those of
\* the other, whatever the two do at the same time and whenever the relay
\* restarts.
LedgersApart == L!LedgersApart
=============================================================================

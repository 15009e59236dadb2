------------------------- MODULE MCGraphQLWebSocket -------------------------
(***************************************************************************)
(* The instances TLC checks.  The bounds are in the .cfg files; here are   *)
(* the facts about ids that are checked by evaluation.                     *)
(***************************************************************************)
EXTENDS GraphQLWebSocket

\* The id `subscribe` writes is read back as the number it was, for every id up
\* to three hexadecimal digits.
ASSUME HexRoundTrip == \A n \in 1 .. 4095 : MessageId(UpperHex(n)) = n

\* The id the resend loop writes is read back as another number from 10 on.
ASSUME DecimalMisread == \A n \in 1 .. 999 : (MessageId(Decimal(n)) = n) <=> n < 10

\* The two forms of an id of one digit are the same string: with DecimalMisread and
\* HexRoundTrip this is where IdsReadBack holds of more than one connection.
ASSUME SmallIdsAgree == \A n \in 1 .. 999 : Decimal(n) = UpperHex(n) <=> n < 10

\* The sender of connection g is past its loop, the receiver past its own.
SenderGone(g) == sender[g] \in {"closing", "ended", "panicked"}
ReceiverGone(g) == receiver[g] \in {"reconnect", "stopped"}

\* A bound: one connection at a time has a ping to be answered.
OnePing == Cardinality({g \in Conn : waiting[g] /\ ~SenderGone(g)}) <= 1

\* The states TLC tells apart: not by what no step and no property of the run reads
\* again, which is the flag and the queue of a sender past its loop, whether its ping was
\* answered when no signal waits, and how the socket of a receiver past its loop ended.
LiveView ==
    <<tableVars, connVars, sender, todo,
      [g \in Conn |-> IF SenderGone(g) THEN <<>> ELSE outq[g]],
      [g \in Conn |-> waiting[g] /\ ~SenderGone(g)],
      [g \in Conn |-> answered[g] \/ (SenderGone(g) /\ ~die[g])],
      receiverVars,
      [g \in Conn |-> IF ReceiverGone(g) /\ link[g] # "up" THEN "closed" ELSE link[g]],
      handshake, ops, started, pinged, callerVars, taskVars>>

\* A bound for liveness, on the server, which owes nothing: it acknowledges no
\* ConnectionInit and sends no keepalive but the pongs it was asked for.
QuietServer == \A g \in Conn : handshake'[g] # "acked" /\ (pinged'[g] => waiting'[g])
=============================================================================

-------------------------- MODULE ClientHeartbeat --------------------------
(***************************************************************************)
(* The heartbeat of a client that stays connected: CONNECT and PINGREQ set *)
(* heartTimeout to the keep-alive interval, the dispatcher takes one off   *)
(* once a second and means to close the connection when it is less than 0. *)
(* The dispatcher does so without the lock, in two accesses between which  *)
(* the goroutine of the connection may write the field as well.            *)
(***************************************************************************)
EXTENDS Integers

CONSTANTS
  Intervals, \* the keep-alive intervals a client may ask for, 1 or more
  Width,     \* values of a uint16, 2^16 in the code
  MaxSilence \* bound on the seconds counted

VARIABLES
  pingperiod,
  heartTimeout,
  tick,     \* the value the tick read, or -1 between ticks
  closed,
  silence   \* history: seconds since the last packet

vars == <<pingperiod, heartTimeout, tick, closed, silence>>

\* After CONNECT.
Init ==
  /\ pingperiod \in Intervals
  /\ heartTimeout = pingperiod
  /\ tick = -1
  /\ closed = FALSE
  /\ silence = 0

PingReq ==
  /\ ~ closed
  /\ heartTimeout' = pingperiod
  /\ silence' = 0
  /\ UNCHANGED <<pingperiod, tick, closed>>

\* client.heartTimeout-- reads, ...
TickRead ==
  /\ tick = -1
  /\ silence < MaxSilence
  /\ silence' = silence + 1
  /\ tick' = heartTimeout
  /\ UNCHANGED <<pingperiod, heartTimeout, closed>>

\* ... and writes; a closed connection is closed again.
TickWrite ==
  LET left == (tick + Width - 1) % Width IN
  /\ tick # -1
  /\ heartTimeout' = left
  /\ closed' = (closed \/ left < 0)
  /\ tick' = -1
  /\ UNCHANGED <<pingperiod, silence>>

Next == PingReq \/ TickRead \/ TickWrite

Spec == Init /\ [][Next]_vars

-----------------------------------------------------------------------------
TypeOK ==
  /\ pingperiod \in Intervals
  /\ heartTimeout \in 0..Width - 1
  /\ tick \in -1..Width - 1
  /\ closed \in BOOLEAN
  /\ silence \in 0..MaxSilence

(* "client [%s] heart timeout" (clients_MsgDispatch_Center.go:309): a       *)
(* client that is silent for longer than its keep-alive interval is closed. *)
SilentIsClosed == silence > pingperiod + 1 /\ tick = -1 => closed

(* A ping gives the client its whole interval again, or one second less if  *)
(* a tick was under way.                                                    *)
PingIsKept ==
  silence < pingperiod /\ tick = -1 =>
    heartTimeout >= pingperiod - silence - 1

=============================================================================

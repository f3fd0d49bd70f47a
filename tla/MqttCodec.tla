------------------------------ MODULE MqttCodec ------------------------------
(***************************************************************************)
(* The packets of package protocol_stack: what the server understands of a *)
(* packet a client sends, what it answers, and what a subscriber gets of a *)
(* message that is passed on.  What MQTT 3.1.1 says of the same packets is *)
(* below, in the operators named Std.                                      *)
(*                                                                         *)
(* A packet is a sequence of bytes and a string is one, too.  A packet     *)
(* arrives with one Read, whole and alone.                                 *)
(***************************************************************************)
EXTENDS Integers, Sequences, FiniteSetsExt

CONSTANTS
  Requests,  \* the packets clients send, records with the fields below
  Ids,       \* packet ids the server draws
  ReadSize   \* 1024: length of read_buf

CONNECT == 1
CONNACK == 2
PUBLISH == 3
PUBACK == 4
PUBREC == 5
PUBREL == 6
PUBCOMP == 7
SUBSCRIBE == 8
SUBACK == 9
UNSUBSCRIBE == 10
UNSUBACK == 11
PINGREQ == 12
PINGRESP == 13

Empty == <<>>

VARIABLES
  request,     \* the packet the client sends, as the client means it
  wire,        \* its bytes
  understood,  \* what the server made of it
  answer,      \* the bytes the client gets back
  forward,     \* the bytes a subscriber gets
  phase        \* "new", "sent", "read", "forwarded", or "panic"

vars == <<request, wire, understood, answer, forward, phase>>

-----------------------------------------------------------------------------
(* MQTT 3.1.1.                                                              *)

\* Two bytes, the high one first; the code writes them alike.
Word(n) == <<n \div 256, n % 256>>

StdLength(n) ==
  CASE n < 128       -> <<n>>
    [] n < 128 * 128 -> <<128 + (n % 128), n \div 128>>

StdString(s) == Word(Len(s)) \o s

Flag(b, weight) == IF b THEN weight ELSE 0

StdPacket(type, flags, body) ==
  <<type * 16 + flags>> \o StdLength(Len(body)) \o body

\* The bytes f[1], f[2], ... one after the other.
RECURSIVE Joined(_)
Joined(f) == IF f = Empty THEN Empty ELSE f[1] \o Joined(Tail(f))

\* r.will is empty or topic and message, of QoS 0.
StdConnect(r) ==
  StdPacket(CONNECT, 0,
    StdString(<<77, 81, 84, 84>>) \o <<4>>   \* "MQTT"
    \o <<2 * r.clean + Flag(r.will # Empty, 4)
         + Flag(r.name # Empty, 128) + Flag(r.word # Empty, 64)>>
    \o Word(r.keepAlive) \o StdString(r.client)
    \o Joined([i \in DOMAIN r.will |-> StdString(r.will[i])])
    \o (IF r.name # Empty THEN StdString(r.name) ELSE Empty)
    \o (IF r.word # Empty THEN StdString(r.word) ELSE Empty))

StdPublish(r) ==
  StdPacket(PUBLISH, r.dup * 8 + r.qos * 2 + r.retained,
    StdString(r.topic) \o (IF r.qos > 0 THEN Word(r.id) ELSE Empty)
    \o r.payload)

StdAck(type, id) == StdPacket(type, Flag(type = PUBREL, 2), Word(id))

Std(r) ==
  CASE r.type = CONNECT -> StdConnect(r)
    [] r.type = PUBLISH -> StdPublish(r)
    [] r.type = SUBSCRIBE ->
         StdPacket(SUBSCRIBE, 2, Word(r.id) \o
           Joined([i \in DOMAIN r.topics |->
                     StdString(r.topics[i]) \o <<r.qos[i]>>]))
    [] r.type = UNSUBSCRIBE ->
         StdPacket(UNSUBSCRIBE, 2, Word(r.id) \o
           Joined([i \in DOMAIN r.topics |-> StdString(r.topics[i])]))
    [] r.type = PINGREQ -> StdPacket(PINGREQ, 0, Empty)
    [] OTHER -> StdAck(r.type, r.id)

ASSUME MqttCodecAssumption ==
  /\ \A r \in Requests : Len(Std(r)) <= ReadSize
  /\ Ids \subseteq 0..65535

-----------------------------------------------------------------------------
(* Reading.  p.at is the code's index, p.got the values read so far; p.ok   *)
(* is FALSE after an index out of range, which is a panic.                  *)

Start(buf) == [buf |-> buf, at |-> 1, got |-> Empty, ok |-> TRUE]

Got(p, n, v) == [p EXCEPT !.at = @ + n, !.got = Append(@, v)]
OutOfRange(p) == [p EXCEPT !.ok = FALSE]

\* data[index], of the whole read_buf: beyond the packet there are zeros.
At(p, i) == IF p.at + i < Len(p.buf) THEN p.buf[p.at + i + 1] ELSE 0

ReadByte(p) ==
  IF p.ok /\ p.at < ReadSize THEN Got(p, 1, At(p, 0)) ELSE OutOfRange(p)

ReadWord(p) ==
  IF p.ok /\ p.at + 1 < ReadSize
  THEN Got(p, 2, At(p, 0) * 256 + At(p, 1)) ELSE OutOfRange(p)

\* Slip: a length of one byte.
mqttPacket_decode_OneByte(p) ==
  IF p.ok /\ p.at < Len(p.buf) THEN [p EXCEPT !.at = @ + 1] ELSE OutOfRange(p)

\* The remaining length is read past; nothing uses its value.  A fifth byte
\* is not looked at: then the index stays where it is.
mqttPacket_decode(p) ==
  LET left == SubSeq(p.buf, p.at + 1, Len(p.buf))
      ends == {i \in 1..4 : i <= Len(left) /\ left[i] < 128}
  IN
  IF p.ok /\ ends # {} THEN [p EXCEPT !.at = @ + Min(ends)]
  ELSE IF Len(left) >= 4 THEN p ELSE OutOfRange(p)

\* Slip: the two bytes of the length are not skipped.
mqttPacket_readString_Skip(p) ==
  LET len == ((At(p, 0) * 256) % 256) + At(p, 1) IN
  IF p.ok /\ p.at + 2 <= Len(p.buf) /\ p.at + 2 + len <= Len(p.buf)
  THEN Got(p, len, SubSeq(p.buf, p.at + 3, p.at + 2 + len))
  ELSE OutOfRange(p)

\* data[0] << 8 is a byte and loses all its bits.
mqttPacket_readString(p) ==
  LET len == ((At(p, 0) * 256) % 256) + At(p, 1) IN
  IF p.ok /\ p.at + 2 <= Len(p.buf) /\ p.at + 2 + len <= Len(p.buf)
  THEN Got(p, 2 + len, SubSeq(p.buf, p.at + 3, p.at + 2 + len))
  ELSE OutOfRange(p)

\* The version must be within the packet, unlike another byte.
mqttPacket_readProtocol(p) ==
  LET q == mqttPacket_readString(p) IN
  IF q.ok /\ q.at < Len(q.buf) THEN Got(q, 1, At(q, 0)) ELSE OutOfRange(q)

Bits(byte, weight, n) == (byte \div weight) % n

Panic == [ok |-> FALSE]

AfterLength(buf) == mqttPacket_decode(Start(buf))

\* The flag of the user name stands for the password, too.
MQTTDeserialize_connect(buf) ==
  LET p == mqttPacket_readString(ReadWord(ReadByte(
             mqttPacket_readProtocol(AfterLength(buf)))))
      hasWill == Bits(p.got[3], 4, 2) = 1
      hasUser == Bits(p.got[3], 128, 2) = 1
      w == IF hasWill
           THEN mqttPacket_readString(mqttPacket_readString(p)) ELSE p
      u == IF hasUser
           THEN mqttPacket_readString(mqttPacket_readString(w)) ELSE w
      n == Len(u.got)
  IN
  IF u.ok
  THEN [ok |-> TRUE, clean |-> Bits(p.got[3], 2, 2),
        keepAlive |-> p.got[4], client |-> p.got[5],
        will |-> SubSeq(w.got, 6, Len(w.got)),
        name |-> IF hasUser THEN u.got[n - 1] ELSE Empty,
        word |-> IF hasUser THEN u.got[n] ELSE Empty]
  ELSE Panic

MQTTDeserialize_publish(buf) ==
  LET qos == Bits(buf[1], 2, 4)
      s == mqttPacket_readString(AfterLength(buf))
      p == IF qos > 0 THEN ReadWord(s) ELSE s
  IN
  IF p.ok
  THEN [ok |-> TRUE, dup |-> Bits(buf[1], 8, 2), qos |-> qos,
        retained |-> Bits(buf[1], 1, 2),
        id |-> IF qos > 0 THEN p.got[2] ELSE 0, topic |-> p.got[1],
        payload |-> SubSeq(buf, p.at + 1, Len(buf))]
  ELSE Panic

\* PUBACK, PUBREC, PUBREL and PUBCOMP.
MQTTDeserialize_ack(buf) ==
  LET p == ReadWord(AfterLength(buf)) IN
  IF p.ok THEN [ok |-> TRUE, id |-> p.got[1]] ELSE Panic

\* The topics, with their QoS in a subscription, up to the packet's end.
RECURSIVE ReadTopics(_, _)
ReadTopics(p, withQos) ==
  IF ~ p.ok \/ p.at >= Len(p.buf) THEN p
  ELSE LET s == mqttPacket_readString(p) IN
       ReadTopics(IF withQos THEN ReadByte(s) ELSE s, withQos)

MQTTDeserialize_subscribe(buf) ==
  LET p == ReadTopics(ReadWord(AfterLength(buf)), TRUE)
      n == (Len(p.got) - 1) \div 2
  IN
  IF p.ok
  THEN [ok |-> TRUE, id |-> p.got[1],
        topics |-> [i \in 1..n |-> p.got[2 * i]],
        qos |-> [i \in 1..n |-> p.got[2 * i + 1] % 4]]
  ELSE Panic

\* With other flags than 2 the packet is not read and yet answered.
MQTTDeserialize_unsubscribe(buf) ==
  LET p == ReadTopics(ReadWord(AfterLength(buf)), FALSE) IN
  CASE buf[1] % 16 # 2 -> [ok |-> TRUE, id |-> 0, topics |-> Empty]
    [] buf[1] % 16 = 2 /\ p.ok ->
         [ok |-> TRUE, id |-> p.got[1], topics |-> Tail(p.got)]
    [] OTHER -> Panic

\* The switch in ClientProcess.
Deserialize(buf) ==
  LET type == Bits(buf[1], 16, 16) IN
  CASE type = CONNECT     -> MQTTDeserialize_connect(buf)
    [] type = PUBLISH     -> MQTTDeserialize_publish(buf)
    [] type = SUBSCRIBE   -> MQTTDeserialize_subscribe(buf)
    [] type = UNSUBSCRIBE -> MQTTDeserialize_unsubscribe(buf)
    [] type = PINGREQ     -> [ok |-> TRUE]
    [] OTHER              -> MQTTDeserialize_ack(buf)

-----------------------------------------------------------------------------
(* Writing.                                                                 *)

mqttPacket_encode[n \in Nat] ==
  IF n < 128 THEN <<n>>
  ELSE <<128 + (n % 128)>> \o mqttPacket_encode[n \div 128]

Header(type, dup, qos, retained) ==
  type * 16 + dup * 8 + qos * 2 + retained

Packet(header, body) == <<header>> \o mqttPacket_encode[Len(body)] \o body

\* The session is present, always; who knows that the password is the user
\* name may log in.
MQTTSeserialize_connack(u) ==
  Packet(Header(CONNACK, 0, 0, 0), <<1, IF u.name = u.word THEN 0 ELSE 4>>)

\* Slip: a packet id for every QoS.
MQTTSeserialize_publish_Id(u) ==
  Packet(Header(PUBLISH, u.dup, u.qos, u.retained),
         Word(Len(u.topic)) \o u.topic \o Word(u.id) \o u.payload)

MQTTSeserialize_publish(u) ==
  Packet(Header(PUBLISH, u.dup, u.qos, u.retained),
         Word(Len(u.topic)) \o u.topic
         \o (IF u.qos > 0 THEN Word(u.id) ELSE Empty) \o u.payload)

\* dup and retained are those of the message that is acknowledged.
MQTTSeserialize_ack(type, dup, retained, id) ==
  Packet(Header(type, dup, IF type = PUBREL THEN 1 ELSE 0, retained), Word(id))

\* Slip: one code, whatever the number of topics.
MQTTSeserialize_suback_One(u) ==
  Packet(Header(SUBACK, 0, 0, 0), Word(u.id) \o <<u.qos[1]>>)

MQTTSeserialize_suback(u) ==
  Packet(Header(SUBACK, 0, 0, 0), Word(u.id) \o u.qos)

MQTTSeserialize_unsuback(u) ==
  Packet(Header(UNSUBACK, 0, 0, 0), Word(u.id))

\* What is written to the connection for a packet: by its goroutine or, for
\* PUBREC and PUBREL, by the dispatcher.
Answer(type, u) ==
  CASE type = CONNECT     -> MQTTSeserialize_connack(u)
    [] type = SUBSCRIBE   -> MQTTSeserialize_suback(u)
    [] type = UNSUBSCRIBE -> MQTTSeserialize_unsuback(u)
    [] type = PINGREQ     -> Packet(Header(PINGRESP, 0, 0, 0), Empty)
    [] type = PUBREC      -> MQTTSeserialize_ack(PUBREL, 0, 0, u.id)
    [] type = PUBREL      -> MQTTSeserialize_ack(PUBCOMP, 0, 0, u.id)
    [] type = PUBLISH /\ u.qos > 0 ->
         MQTTSeserialize_ack(IF u.qos = 1 THEN PUBACK ELSE PUBREC,
                             u.dup, u.retained, u.id)
    [] OTHER -> Empty

-----------------------------------------------------------------------------
Init ==
  /\ request \in Requests
  /\ phase = "new"
  /\ wire = Empty /\ answer = Empty /\ forward = Empty
  /\ understood = Panic

Send ==
  /\ phase = "new"
  /\ phase' = "sent"
  /\ wire' = Std(request)
  /\ UNCHANGED <<request, understood, answer, forward>>

Read ==
  /\ phase = "sent"
  /\ understood' = Deserialize(wire)
  /\ IF understood'.ok
     THEN /\ phase' = "read"
          /\ answer' = Answer(Bits(wire[1], 16, 16), understood')
     ELSE phase' = "panic" /\ UNCHANGED answer
  /\ UNCHANGED <<request, wire, forward>>

\* To a subscriber, with a packet id of its own.
Forward ==
  /\ phase = "read"
  /\ Bits(wire[1], 16, 16) = PUBLISH
  /\ \E id \in Ids :
       forward' = MQTTSeserialize_publish([understood EXCEPT !.id = id])
  /\ phase' = "forwarded"
  /\ UNCHANGED <<request, wire, understood, answer>>

Next == Send \/ Read \/ Forward

Spec == Init /\ [][Next]_vars

-----------------------------------------------------------------------------
\* The strings of a packet, by its type.
Strings(r) ==
  CASE r.type = CONNECT -> {r.client, r.name, r.word} \cup {r.will[i] :
                                                     i \in DOMAIN r.will}
    [] r.type = PUBLISH -> {r.topic}
    [] r.type \in {SUBSCRIBE, UNSUBSCRIBE} ->
         {r.topics[i] : i \in DOMAIN r.topics}
    [] OTHER -> {}

Short(r) == \A s \in Strings(r) : Len(s) < 256

(* What the client means is what the server understands, field by field.    *)
(* Strings of 256 bytes and more are not: mqttPacket_readString loses the   *)
(* high byte of their length.                                               *)
Understood ==
  phase \in {"read", "forwarded"} /\ Short(request) =>
    \A field \in DOMAIN understood \ {"ok"} :
      understood[field] = request[field]

(* No packet a client may send makes a read run past its end, but for the   *)
(* long strings and a user name without a password.                         *)
OnlyKnownPanics ==
  phase = "panic" =>
    \/ ~ Short(request)
    \/ request.type = CONNECT /\ request.name # Empty /\ request.word = Empty

StdAnswer(r) ==
  CASE r.type = SUBSCRIBE   -> StdPacket(SUBACK, 0, Word(r.id) \o r.qos)
    [] r.type = UNSUBSCRIBE -> StdAck(UNSUBACK, r.id)
    [] r.type = PINGREQ     -> StdPacket(PINGRESP, 0, Empty)
    [] r.type = PUBREC      -> StdAck(PUBREL, r.id)
    [] r.type = PUBREL      -> StdAck(PUBCOMP, r.id)
    [] r.type = PUBLISH /\ r.qos = 1 -> StdAck(PUBACK, r.id)
    [] r.type = PUBLISH /\ r.qos = 2 -> StdAck(PUBREC, r.id)
    [] OTHER -> Empty

(* A packet is answered as MQTT says: the right acknowledgement, with its   *)
(* packet id and one code per topic.  CONNACK says "session present" even   *)
(* when there is none, and the acknowledgement of a message that was sent   *)
(* again or is retained has flags it must not have.                         *)
AnswerIsStandard ==
  /\ phase \in {"read", "forwarded"}
  /\ Short(request)
  /\ request.type # CONNECT
  /\ request.type = PUBLISH => request.dup = 0 /\ request.retained = 0
  => answer = StdAnswer(request)

StdForward(r, id) ==
  StdPublish([r EXCEPT !.dup = 0, !.retained = 0, !.id = id])

(* A subscriber gets the message as MQTT says: topic, QoS and payload of    *)
(* what was published and a packet id of the server's.  Two departures are  *)
(* left out: DUP and RETAIN of the publisher's packet are copied, where     *)
(* MQTT wants 0, and the id drawn may be 0, which is no packet id.          *)
ForwardIsStandard ==
  phase = "forwarded" /\ Short(request)
    /\ request.dup = 0 /\ request.retained = 0
  => \/ \E id \in Ids \ {0} : forward = StdForward(request, id)
     \/ request.qos > 0 /\ forward = StdForward(request, 0)

=============================================================================

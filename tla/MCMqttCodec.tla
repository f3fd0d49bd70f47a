---------------------------- MODULE MCMqttCodec ----------------------------
(* Packets whose strings and bodies have lengths around the ones where the *)
(* encoding changes.                                                       *)
EXTENDS MqttCodec

\* A string of n bytes; the first differ from one length to the next.
Text(n) == [i \in 1..n |-> 97 + ((i + n) % 26)]

SomeIds == {1, 255, 256, 65535}

Logins ==
  [type : {CONNECT}, clean : {0, 1}, keepAlive : {60, 300},
   client : {Text(5), Text(128), Text(256)},
   will : {Empty, <<Text(3), Text(200)>>}, name : {Text(4)},
   word : {Text(4), Text(6)}]
  \cup
  [type : {CONNECT}, clean : {1}, keepAlive : {60}, client : {Text(5)},
   will : {Empty, <<Text(3), Text(5)>>}, name : {Empty, Text(4)},
   word : {Empty}]

Publishes ==
  [type : {PUBLISH}, dup : {0, 1}, retained : {0, 1}, qos : {1, 2},
   id : {1, 256}, topic : {Text(1), Text(20), Text(255), Text(300)},
   payload : {Text(0), Text(103), Text(104), Text(105), Text(106)}]
  \cup
  [type : {PUBLISH}, dup : {0}, retained : {0, 1}, qos : {0}, id : {0},
   topic : {Text(1), Text(20), Text(255), Text(300)},
   payload : {Text(0), Text(105), Text(106), Text(700)}]

SomeTopics == {<<Text(1)>>, <<Text(255), Text(2)>>, <<Text(2), Text(257)>>,
               <<Text(100), Text(21), Text(1)>>}

Subscriptions ==
  {r \in [type : {SUBSCRIBE}, id : SomeIds, topics : SomeTopics,
          qos : {<<2>>, <<0, 1>>, <<1, 2>>, <<2, 0, 1>>}] :
     Len(r.topics) = Len(r.qos)}
  \cup [type : {UNSUBSCRIBE}, id : SomeIds, topics : SomeTopics]

Others ==
  [type : {PUBACK, PUBREC, PUBREL, PUBCOMP}, id : SomeIds]
  \cup [type : {PINGREQ}]

Everything == Logins \cup Publishes \cup Subscriptions \cup Others

============================================================================

-------------------------- MODULE SessionRegistry --------------------------
(***************************************************************************)
(* What the server promises about sessions, with every operation atomic:   *)
(* a session starts empty, changes its subscriptions only on SUBSCRIBE and *)
(* UNSUBSCRIBE, keeps them while its client is offline, and loses them     *)
(* only when it ends.                                                      *)
(***************************************************************************)
CONSTANTS ClientId, Topic

VARIABLES
  state,   \* state[id]: no session, or one whose client is online or offline
  subs     \* subs[id]: the topics of the session

vars == <<state, subs>>

TypeOK ==
  /\ state \in [ClientId -> {"none", "online", "offline"}]
  /\ subs \in [ClientId -> SUBSET Topic]

Init ==
  /\ state = [id \in ClientId |-> "none"]
  /\ subs = [id \in ClientId |-> {}]

\* The client may be gone again by the time its session is registered.
Begin(id) ==
  /\ state[id] = "none"
  /\ \E s \in {"online", "offline"} : state' = [state EXCEPT ![id] = s]
  /\ UNCHANGED subs

Resume(id) ==
  /\ state[id] = "offline"
  /\ state' = [state EXCEPT ![id] = "online"]
  /\ UNCHANGED subs

Suspend(id) ==
  /\ state[id] = "online"
  /\ state' = [state EXCEPT ![id] = "offline"]
  /\ UNCHANGED subs

End(id) ==
  /\ state[id] # "none"
  /\ state' = [state EXCEPT ![id] = "none"]
  /\ subs' = [subs EXCEPT ![id] = {}]

Subscribe(id, topics) ==
  /\ state[id] # "none"
  /\ subs' = [subs EXCEPT ![id] = @ \cup topics]
  /\ UNCHANGED state

Unsubscribe(id, topics) ==
  /\ state[id] # "none"
  /\ subs' = [subs EXCEPT ![id] = @ \ topics]
  /\ UNCHANGED state

Next ==
  \E id \in ClientId :
    \/ Begin(id) \/ Resume(id) \/ Suspend(id) \/ End(id)
    \/ \E topics \in SUBSET Topic :
          Subscribe(id, topics) \/ Unsubscribe(id, topics)

Spec == Init /\ [][Next]_vars

=============================================================================

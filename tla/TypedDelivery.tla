--------------------------- MODULE TypedDelivery ---------------------------
(***************************************************************************)
(* What message passing through generated libraries promises: a peer holds *)
(* a typed value and may send it; a peer that knows the type of a value in *)
(* flight may receive it, into a new place or into the place of a value it *)
(* holds of the same type; a receiver that refuses what arrives keeps what *)
(* it holds.  Nothing is received that was not sent, and nothing under     *)
(* another type than it was sent, except under one of the same UID, which  *)
(* makes of it something that no one may send on.                          *)
(***************************************************************************)
CONSTANTS
  Peer,       \* the programs
  Def,        \* message definitions
  Value,      \* body values
  Garbled,    \* what a value is when it is read as another type
  Uid,        \* Uid[d]: what a receiver tells definitions apart by
  Nothing,    \* held by a peer that holds no value
  NoneGot     \* the latest step returned nothing to a receiver

VARIABLES
  known,      \* known[p]: the definitions peer p was built with
  held,       \* held[p]: the value its application holds
  wire,       \* values in flight
  got         \* what the receive of the latest step returned

vars == <<known, held, wire, got>>

\* The value m read as one of definition d.
ReadAs(d, m) == [def |-> d, val |-> IF d = m.def THEN m.val ELSE Garbled]

Init ==
  /\ known \in [Peer -> SUBSET Def]
  /\ held = [p \in Peer |-> Nothing]
  /\ wire = {}
  /\ got = NoneGot

Compose(p) ==
  /\ got' = NoneGot
  /\ UNCHANGED <<known, wire>>
  /\ \E d \in known[p], v \in Value :
       held' = [held EXCEPT ![p] = [def |-> d, val |-> v]]

Send(p) ==
  /\ held[p] # Nothing /\ held[p].val # Garbled
  /\ got' = NoneGot
  /\ UNCHANGED <<known, held>>
  /\ wire' = wire \cup {held[p]}

Receive(p) ==
  /\ UNCHANGED <<known, wire>>
  /\ \E m \in wire, d \in known[p] :
       /\ Uid[d] = Uid[m.def]
       /\ got' = [peer |-> p, msg |-> ReadAs(d, m)]
       /\ \/ held' = held
          \/ /\ held[p] # Nothing /\ held[p].def = d
             /\ held' = [held EXCEPT ![p] = ReadAs(d, m)]

Refuse ==
  /\ got' = NoneGot
  /\ UNCHANGED <<known, held, wire>>

Relearn(p) ==
  /\ got' = NoneGot
  /\ UNCHANGED wire
  /\ held' = [held EXCEPT ![p] = Nothing]
  /\ \E ds \in SUBSET Def : known' = [known EXCEPT ![p] = ds]

Lose ==
  /\ got' = NoneGot
  /\ UNCHANGED <<known, held>>
  /\ wire' \in SUBSET wire

Next ==
  \/ Refuse
  \/ Lose
  \/ \E p \in Peer : Compose(p) \/ Send(p) \/ Receive(p) \/ Relearn(p)

Spec == Init /\ [][Next]_vars
=============================================================================

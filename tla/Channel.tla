------------------------------ MODULE Channel -------------------------------
(***************************************************************************)
(* What a bounded queue of messages promises to the threads that use it:   *)
(* messages leave in the order they got in, each once; a sender waits only *)
(* while the channel is full, a receiver only while it is empty; a message *)
(* is in the channel, or on its way to a thread, exactly if the sender was *)
(* not told that it is not.                                                *)
(***************************************************************************)
EXTENDS Naturals, Sequences

CONSTANTS Thread, Message, Capacity

VARIABLES
  chan,                   \* messages in the channel
  phase,                  \* of each thread, with the message it sends or gets
  received                \* the message received last

cvars == <<chan, phase, received>>

Out == [at |-> "out"]

At(t, place) == phase[t].at = place
Nobody(place) == \A t \in Thread : ~At(t, place)
Enter(t, where) == phase' = [phase EXCEPT ![t] = where]

ChannelInit ==
  /\ chan = << >>
  /\ phase = [t \in Thread |-> Out]
  /\ received \notin Message

\* Sending, by anybody.
Put(m) ==
  /\ Nobody("receiving")
  /\ Len(chan) < Capacity
  /\ chan' = Append(chan, m)
  /\ UNCHANGED <<phase, received>>

Deliver(m, r) ==
  /\ chan = << >>
  /\ At(r, "receiving")
  /\ Enter(r, [at |-> "received", msg |-> m])
  /\ UNCHANGED <<chan, received>>

WaitToSend(t, m) ==
  /\ At(t, "out")
  /\ Len(chan) = Capacity
  /\ Enter(t, [at |-> "sending", msg |-> m])
  /\ UNCHANGED <<chan, received>>

\* Receiving, by anybody.
Get ==
  /\ Nobody("sending")
  /\ chan # << >>
  /\ chan' = Tail(chan)
  /\ received' = Head(chan)
  /\ UNCHANGED phase

GetAndRefill(s) ==
  /\ At(s, "sending")
  /\ chan # << >>
  /\ chan' = Append(Tail(chan), phase[s].msg)
  /\ received' = Head(chan)
  /\ Enter(s, [at |-> "sent"])

WaitToReceive(t) ==
  /\ At(t, "out")
  /\ chan = << >>
  /\ Enter(t, [at |-> "receiving"])
  /\ UNCHANGED <<chan, received>>

\* Waiting ends in vain, for any number of threads at once.
Expire(S) ==
  /\ \A t \in S : At(t, "sending") \/ At(t, "receiving")
  /\ phase' = [t \in Thread |-> IF t \in S THEN [at |-> "failed"] ELSE phase[t]]
  /\ UNCHANGED <<chan, received>>

\* A thread that waited is told.
Return(t) ==
  /\ At(t, "sent") \/ At(t, "failed") \/ At(t, "received")
  /\ Enter(t, Out)
  /\ received' = IF At(t, "received") THEN phase[t].msg ELSE received
  /\ UNCHANGED chan

\* With it goes the message on its way to it.
Die(t) ==
  /\ ~At(t, "out")
  /\ Enter(t, Out)
  /\ UNCHANGED <<chan, received>>

ChannelNext ==
  \/ \E m \in Message : Put(m) \/ \E t \in Thread : Deliver(m, t) \/ WaitToSend(t, m)
  \/ Get
  \/ \E t \in Thread : GetAndRefill(t) \/ WaitToReceive(t) \/ Return(t) \/ Die(t)
  \/ \E S \in SUBSET Thread : Expire(S)

ChannelSpec == ChannelInit /\ [][ChannelNext]_cvars
=============================================================================

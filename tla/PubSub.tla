------------------------------- MODULE PubSub -------------------------------
(***************************************************************************)
(* What LISTEN/NOTIFY promises, without connections, transactions or wire: *)
(* subscribers, each with the channels it is subscribed to and the inbox   *)
(* of events published to it, in the order of publication.  A published    *)
(* event reaches every subscriber of its channel exactly once, and no one  *)
(* else; publishing and changing one's own subscriptions is one step.      *)
(***************************************************************************)
EXTENDS EventSelection

CONSTANTS
  Subscribers, Channels, Payloads,
  MaxBatch     \* bound: events published in one step

VARIABLES
  subs,     \* the channels each subscriber is subscribed to
  inbox,    \* the events each has been sent
  count     \* how many events have been published

vars == << subs, inbox, count >>

Events == Channels \X Payloads
Batches == UNION {[1..n -> Events] : n \in 0..MaxBatch}

For(s, events) == OnChannels(events, subs[s])

Init ==
  /\ subs = [s \in Subscribers |-> {}]
  /\ inbox = [s \in Subscribers |-> << >>]
  /\ count = 0

\* Events reach the subscriptions as they are.
Send(events) ==
  /\ inbox' = [r \in Subscribers |-> inbox[r] \o For(r, events)]
  /\ count' = count + Len(events)

\* A subscriber s publishes events and then subscribes to chs instead.
Publish(s, events, chs) ==
  /\ Send(events)
  /\ subs' = [subs EXCEPT ![s] = chs]

\* The server itself publishes an event.
Announce(e) ==
  /\ Send(<< e >>)
  /\ UNCHANGED subs

\* An event pushed to one subscriber, whatever it is subscribed to.
Push(s, e) ==
  /\ inbox' = [inbox EXCEPT ![s] = Append(@, e)]
  /\ UNCHANGED << subs, count >>

\* The inbox of a subscriber that left is lost with it.
Leave(s) ==
  /\ subs' = [subs EXCEPT ![s] = {}]
  /\ inbox' = [inbox EXCEPT ![s] = << >>]
  /\ UNCHANGED count

Next ==
  \/ \E s \in Subscribers :
       \/ \E chs \in SUBSET Channels, events \in Batches : Publish(s, events, chs)
       \/ \E e \in Events : Push(s, e)
       \/ Leave(s)
  \/ \E e \in Events : Announce(e)

Spec == Init /\ [][Next]_vars
=============================================================================

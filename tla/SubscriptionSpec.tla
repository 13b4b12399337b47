-------------------------- MODULE SubscriptionSpec --------------------------
(***************************************************************************)
(* What Client.Subscribe promises for the channel it is given: the values  *)
(* the server sends, from the first, in order and without gaps, and none   *)
(* at all once Unsubscribe has returned.                                   *)
(***************************************************************************)
EXTENDS Integers, Sequences

CONSTANTS Subs

VARIABLES channel,  \* values received on each subscription's channel
          ended     \* subscriptions on which Unsubscribe has returned

vars == <<channel, ended>>

Init == channel = [s \in Subs |-> <<>>] /\ ended = {}

Value(s) ==
  /\ s \notin ended
  /\ channel' = [channel EXCEPT ![s] = Append(@, Len(@) + 1)]
  /\ UNCHANGED ended

Unsubscribed(s) ==
  /\ ended' = ended \cup {s}
  /\ UNCHANGED channel

Next == \E s \in Subs : Value(s) \/ Unsubscribed(s)

Spec == Init /\ [][Next]_vars
=============================================================================

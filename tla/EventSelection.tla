--------------------------- MODULE EventSelection ---------------------------
(***************************************************************************)
(* What a fan-out selects of a batch of events, which are pairs of a       *)
(* channel and a payload: PgServer.notify() takes the events one by one    *)
(* and passes each to the listeners of its channel.  Written as a          *)
(* recursive function, whose unfolding can be proved.                      *)
(***************************************************************************)
EXTENDS Naturals, Sequences

\* The events on the channels chs, in order.
OnChannels(events, chs) ==
  LET UpTo[n \in 0..Len(events)] ==
        IF n = 0 THEN << >>
        ELSE IF events[n][1] \in chs THEN Append(UpTo[n - 1], events[n])
        ELSE UpTo[n - 1]
  IN  UpTo[Len(events)]
=============================================================================

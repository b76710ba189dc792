---- MODULE MCOutboxRelay ----
(* Constants of OutboxRelay for TLC. *)
EXTENDS OutboxRelay

\* Events 1 and 2 move money of one wallet, events 2, 3 and 4 of another.
MCSharedLock ==
    {<<1, 2>>, <<2, 3>>, <<2, 4>>, <<3, 4>>} \cap (Events \X Events)
====

------------------------------ MODULE AgendaMC ------------------------------
(***************************************************************************)
(* Two calls of run() on one agenda, as in create_schedule and do_rsync: a *)
(* listing and an unbound task beside it, then the transfers.  A pump that *)
(* takes the whole budget of two segments, one of which its part keeps     *)
(* alive, competes with a fetch that takes one and passes it to a writer;  *)
(* two unbound tasks compete for one place, the part and the writer for    *)
(* the place of the pump.                                                  *)
(***************************************************************************)
EXTENDS AgendaPool

MCTask == {"list", "pump", "part", "fetch", "write", "publish"}
MCSegment == {"s1", "s2", "s3"}
MCLimit == [unbound |-> 1, cpu |-> 1, io |-> 1]

MCTypeOf ==
    [t \in MCTask |->
        CASE t \in {"list", "publish"} -> "unbound"
          [] t = "fetch" -> "cpu"
          [] OTHER -> "io"]

MCSpawns ==
    [t \in MCTask |->
        CASE t = "pump" -> {"part"}
          [] t = "fetch" -> {"write"}
          [] OTHER -> {}]

MCOwner == [s1 |-> "pump", s2 |-> "pump", s3 |-> "fetch"]
MCCarrier == [s1 |-> "part", s2 |-> NoTask, s3 |-> "write"]
MCBatch == <<{"list", "publish"}, {"pump", "fetch"}>>
=============================================================================

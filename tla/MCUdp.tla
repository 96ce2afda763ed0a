------------------------------- MODULE MCUdp --------------------------------
(***************************************************************************)
(* Udp for TLC.  A socket's two ways meet only in the device, whose queue  *)
(* replies fill in either: a behaviour sends, or receives datagrams, with  *)
(* less credit.                                                            *)
(***************************************************************************)
EXTENDS Udp

VARIABLE side

MCInit == Init /\ side \in {"send", "receive"}

MCNext ==
    /\ Next
    /\ UNCHANGED side
    /\ side = "send" => step' # "scan" /\ \A i \in DOMAIN queue' : queue'[i].to = Nobody
    /\ side = "receive" => tx' = EmptyRing /\ dev'.credit.packets <= 1

MCSpec == MCInit /\ [][MCNext]_<<vars, side>>
=============================================================================

----------------------------- MODULE MCSeatInput -----------------------------
(* Two keyboards and a mouse with a side button, or a host's seat; two     *)
(* windows of a client and one of another.                                 *)
EXTENDS SeatInput, TLC

CONSTANTS k1, k2, m1, hostk, hostp, a1, a2, b1

MCCodes ==
  k1 :> {"tab", "caps", "meta"} @@ k2 :> {"s", "meta"} @@ m1 :> {"left", "side"}
    @@ hostk :> {"tab", "s", "alt", "caps"} @@ hostp :> {"left", "side"}
MCOwner == a1 :> "A" @@ a2 :> "A" @@ b1 :> "B"

=============================================================================

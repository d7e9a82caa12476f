----------------------------- MODULE MCDevicePm -----------------------------
(* A bus with a device that has a child of its own, and a device without a parent. *)
EXTENDS DevicePm, TLC

CONSTANTS bus, dev, child, other

MCDevices == {bus, dev, child, other}
MCParent == bus :> NULL @@ dev :> bus @@ child :> dev @@ other :> NULL
=============================================================================

--------------------------- MODULE MCUserWakeLock ---------------------------
(* UserWakeLock with names that are prefixes of each other, made of the    *)
(* smallest and the largest byte whose differences fit a signed char, and  *)
(* timeouts on both sides of a jiffy.                                      *)
EXTENDS UserWakeLock

PrefixNames == {<<1>>, <<1, 1>>, <<1, 127>>, <<127>>}
=============================================================================

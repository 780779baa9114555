----------------------------- MODULE MCFraming ------------------------------
(***************************************************************************)
(* An instance of module Framing for TLC.                                  *)
(***************************************************************************)
EXTENDS Framing

\* One message each: ordinary, of the maximal size, over it, and of the first
\* sizes whose length wraps around to zero and to an allowed one.
Sizes ==
    [m \in {"small", "limit", "over", "zero", "wrapped"} |->
        CASE m = "small" -> 1
          [] m = "limit" -> 2
          [] m = "over" -> 3
          [] m = "zero" -> 4
          [] m = "wrapped" -> 5]

=============================================================================

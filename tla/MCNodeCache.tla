----------------------------- MODULE MCNodeCache -----------------------------
(* An instance of NodeCache for TLC: Durations of four bits, a second of two
   units.  5 seconds wrap to a negative Duration, 9 to one second. *)
EXTENDS NodeCache, TLC

MCTexts   == {"0", "-1", "5", "9", "3u", "soon"}
MCBare    == ("0" :> 0) @@ ("-1" :> -1) @@ ("5" :> 5) @@ ("9" :> 9)
MCSpelled == "3u" :> 3
=============================================================================

----------------------------- MODULE Durations -----------------------------
(***************************************************************************)
(* Duration settings (internal/plugin/config.go).  A time.Duration is a     *)
(* signed count of a fixed number of values; a setting is a bare number of  *)
(* seconds or a duration as Go spells it.                                  *)
(***************************************************************************)
EXTENDS Integers

CONSTANTS
  Half,     \* a Duration is one of -Half..Half-1; in the program Half is 2^63
  Second,   \* time.Second
  Bare,     \* texts strconv.Atoi accepts -> the number
  Spelled   \* other texts time.ParseDuration accepts -> the Duration

ASSUME DurationAssumption ==
  /\ Half \in Nat \ {0} /\ Second \in Nat \ {0}
  /\ \A raw \in DOMAIN Bare : Bare[raw] \in Int
  /\ \A raw \in DOMAIN Spelled : Spelled[raw] \in -Half .. Half - 1

Unset == ""  \* a setting that is not there

NoWidth(n) == n  \* slip: the product kept as a number
Wrap(n) == ((n + Half) % (2 * Half)) - Half

(* durationSetting: {} when it returns an error.  The product of a number and
   time.Second is not checked; a spelled duration is. *)
DurationSetting(raw, default) ==
  IF raw = Unset THEN {default}
  ELSE IF raw \in DOMAIN Bare THEN {Wrap(Bare[raw] * Second)}
  ELSE IF raw \in DOMAIN Spelled THEN {Spelled[raw]}
  ELSE {}
=============================================================================

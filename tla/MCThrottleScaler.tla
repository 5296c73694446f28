--------------------------- MODULE MCThrottleScaler ---------------------------
(* The scalers of the processors, small: two halving signals with the same *)
(* cooldown, or one signal of each action with different cooldowns.        *)
EXTENDS ThrottleScaler, TLC

CONSTANTS w1, w2, w3, throttled, network

TwoHalving == [s \in Signals |-> "ScaleHalve"]
Mixed == (throttled :> "ScaleHalve") @@ (network :> "ScaleReduceOne")

OneCooldown == [s \in Signals |-> 2]
TwoCooldowns == (throttled :> 2) @@ (network :> 1)
=============================================================================

------------------------------ MODULE MCLighting ------------------------------
(* Constants of the runs of Lighting. *)
EXTENDS Lighting

CONSTANTS fan, strip, white, dark, gradient, cold, hot, low, full,
          day, night, game, desk

\* The fan is colored by temperature, the strip has an entry with a color.
MCConfigMode == [g \in Groups |-> IF g = fan THEN Lit(gradient) ELSE Lit(cold)]

\* No entries; a profile for the game only.
MCAppMaps == {[a \in Apps |-> None], [a \in Apps |-> IF a = game THEN day ELSE None]}
\* A profile on battery only.
MCPowerMaps == {[ac \in BOOLEAN |-> IF ac THEN None ELSE day]}

===============================================================================

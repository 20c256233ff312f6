--------------------------- MODULE MCBreachAlerts ---------------------------
(* Two breaches in a row raise an alert, two ticks of cooldown, five results: *)
(* an outage, a recovery inside the cooldown and a second outage.             *)
EXTENDS BreachAlerts
=============================================================================

--------------------------- MODULE MCNotifications ---------------------------
(***************************************************************************)
(* A small instance of Notifications: full settings, disabled, and fewer  *)
(* categories of other applications only.                                  *)
(***************************************************************************)
EXTENDS Notifications

Full == {"build_failures", "deployment_failures", "service_degradation",
         "daemon_failures", "recovery", "deployment_succeeded"}

AllSettings ==
    [enabled : BOOLEAN, categories : {Full}, selects : {TRUE}]
    \cup [enabled : {TRUE}, categories : {Full \ {"deployment_failures"}}, selects : {FALSE}]
==============================================================================

----------------------------- MODULE WebhookMC -----------------------------
(***************************************************************************)
(* Instances of Webhook for TLC: one event for two endpoints, one of which *)
(* is gone.                                                                *)
(***************************************************************************)
EXTENDS Webhook
CONSTANTS e1, web, gone, h1, h2
=============================================================================

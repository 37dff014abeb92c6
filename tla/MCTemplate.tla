------------------------------ MODULE MCTemplate ------------------------------
(* An instance of GameTemplateController: servers may move between templates. *)
EXTENDS GameTemplateController

CONSTANTS t1, t2, s1, s2

MCTemplates == {t1, t2}
MCServers == {s1, s2}
=============================================================================

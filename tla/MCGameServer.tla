---------------------------- MODULE MCGameServer ----------------------------
(* Instances of GameServerController: one or two server specs, one template *)
(* name, and template specs that accept a config, reject it, or ask for a   *)
(* default size that does not parse.                                        *)
EXTENDS GameServerController

CONSTANT t1

MCTemplates == {t1}

NoOverride == [p \in {} |-> "ClusterIP"]

Plain == [ref |-> t1, config |-> "ok", suspend |-> FALSE, restore |-> FALSE,
          size |-> "", override |-> NoOverride]

Suspended == [Plain EXCEPT !.suspend = TRUE]

Misconfigured == [Plain EXCEPT !.config = "odd"]

BadSize == [Plain EXCEPT !.size = "bad"]

Overriding == [Plain EXCEPT !.override = [p \in {"game"} |-> "LoadBalancer"]]

Restored == [Plain EXCEPT !.restore = TRUE]

\* One port, exposed by its default; the second version rejects "ok" configs.
Version1 == [image |-> "v1", accepts |-> {"ok"}, anyuid |-> FALSE, defaultSize |-> "",
             ports |-> [p \in {"game"} |-> "ClusterIP"]]

Version2 == [Version1 EXCEPT !.image = "v2", !.accepts = {"odd"}, !.anyuid = TRUE]

\* A default size that does not parse.
Oversized == [Version1 EXCEPT !.defaultSize = "bad"]

SafetyServers == {Plain, Suspended, BadSize}
SafetyTemplates == {Version1, Version2, Oversized}

LiveServers == {[Overriding EXCEPT !.restore = TRUE]}
LiveTemplates == {[t EXCEPT !.anyuid = TRUE] : t \in {Version1, Oversized}}

RestoreServers == {Plain, Restored}
RestoreTemplates == {Version1}

\* Nobody deletes a PVC but with its GameServer.
RestoreSpec == Init /\ [][Next /\ ~DeletePVC]_vars
=============================================================================

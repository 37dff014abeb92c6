-------------------------- MODULE MCServerChildren --------------------------
(* Instances of ServerChildren: a game with a game port and a console port. *)
EXTENDS ServerChildren

MCKeyOrder == <<"mode", "slots">>
MCInts == {"8", "16"}
MCBools == {"true", "false"}

Port(name, number, protocol, exposeAs, primary) ==
  [name |-> name, containerPort |-> number, protocol |-> protocol,
   exposeAs |-> exposeAs, primary |-> primary]

Key(name, envVar, type, enum, default, required) ==
  [name |-> name, envVar |-> envVar, type |-> type, enum |-> enum,
   default |-> default, required |-> required]

Mode == Key("mode", "MODE", "enum", {"easy", "hard"}, "easy", FALSE)
Slots == Key("slots", "SLOTS", "int", {}, "8", FALSE)

\* The game port is the primary one.
Version1 ==
  [ports |-> <<Port("game", 1, "UDP", "NodePort", TRUE), Port("rcon", 2, "TCP", "ClusterIP", FALSE)>>,
   env |-> <<[name |-> "MODE", value |-> "none"]>>,
   keys |-> <<Mode, Slots>>]

\* The ports change places, the game's its number, the console gets a load
\* balancer and, being the first TCP port, is primary; a key loses its default.
Version2 ==
  [ports |-> <<Port("rcon", 2, "TCP", "LoadBalancer", FALSE), Port("game", 3, "UDP", "NodePort", FALSE)>>,
   env |-> <<>>,
   keys |-> <<[Mode EXCEPT !.required = TRUE, !.default = ""]>>]

\* Two keys write one variable: admission refuses it.
Clashing == [Version1 EXCEPT !.keys = <<Mode, [Slots EXCEPT !.envVar = "MODE"]>>]

Overriding(port, exposeAs, pin) == [portName |-> port, exposeAs |-> exposeAs, nodePort |-> pin]

Pinned ==
  [ref |-> "t", config |-> [k \in {"mode"} |-> "hard"],
   override |-> <<Overriding("game", "NodePort", 1)>>, env |-> <<>>]

\* The pin moves to the other port.
Moved == [Pinned EXCEPT !.override = <<Overriding("rcon", "NodePort", 1)>>,
                          !.env = <<[name |-> "MODE", value |-> "own"]>>]

\* Version 2 does not know the slots.
Slotted == [Pinned EXCEPT !.override = <<>>,
                          !.config = [k \in {"mode", "slots"} |-> IF k = "mode" THEN "easy" ELSE "16"]]

MCServers == {Pinned, Moved, Slotted}
MCTemplates == {Version1, Version2, Clashing}
=============================================================================

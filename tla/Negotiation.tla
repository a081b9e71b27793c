---------------------------- MODULE Negotiation ----------------------------
(***************************************************************************)
(* From the configuration of a Peer to its OPEN, and what the two sides of *)
(* a session conclude from their OPENs (acceptPeerOpen of internal/peer/   *)
(* fsm.go).  An OPEN is reduced to what it is read for; an ADD-PATH mode   *)
(* is the set of directions its sender offers, empty for a family that its *)
(* capability leaves out.                                                  *)
(***************************************************************************)
EXTENDS Integers

CONSTANT Family     \* address families

Direction == {"send", "receive"}

(* What a side offers.  xk6-bgp always advertises 4-octet AS numbers.      *)
Offer == [hold : Nat, four : BOOLEAN, extended : BOOLEAN, refresh : BOOLEAN,
          enhanced : BOOLEAN, addPath : [Family -> SUBSET Direction],
          otherAS : BOOLEAN]

(* What a side takes the session to be.                                    *)
Session == [hold : Nat, tick : Nat, four : BOOLEAN, extended : BOOLEAN,
            refresh : BOOLEAN, enhanced : BOOLEAN,
            addPath : [Family -> SUBSET Direction]]

NoSession == [hold |-> 0, tick |-> 0, four |-> FALSE, extended |-> FALSE, refresh |-> FALSE,
              enhanced |-> FALSE, addPath |-> [f \in Family |-> {}]]

----------------------------------------------------------------------------
\* The configuration of a Peer: [given, families, hold, capabilities].  given
\* is what else it has of what it must have; hold is in milliseconds, 0 if not
\* set; capabilities are those that are set.

CapabilityDefaults ==
    [extendedMessage |-> TRUE, routeRefresh |-> TRUE, enhancedRouteRefresh |-> FALSE,
     addPath |-> <<>>]

Capability(config, name) ==
    IF name \in DOMAIN config.capabilities THEN config.capabilities[name]
                                           ELSE CapabilityDefaults[name]

ResolveAddPathMode == [receive |-> {"receive"}, send |-> {"send"}, both |-> Direction]

(* A hold time in seconds, towards 0.                                      *)
Seconds(ms) == IF ms < 0 THEN -((-ms) \div 1000) ELSE ms \div 1000

AddPathParses(config) ==
    LET modes == config.capabilities.addPath
    IN  DOMAIN modes # {} /\ \A f \in DOMAIN modes : modes[f] \in DOMAIN ResolveAddPathMode

\* Mutant: a hold time may be longer than its field.
ValidateAnyLength(config) ==
    /\ {"localAs", "target", "routerId"} \subseteq config.given
    /\ config.families # {}
    /\ Seconds(config.hold) = 0 \/ Seconds(config.hold) >= 3

(* Less than a second passes for not set.                                  *)
Validate(config) ==
    /\ {"localAs", "target", "routerId"} \subseteq config.given
    /\ config.families # {}
    /\ LET hold == Seconds(config.hold) IN hold = 0 \/ (hold >= 3 /\ hold <= 65535)

(* What the constructor and BuildOpen let pass.                            *)
Usable(config) ==
    /\ "addPath" \in DOMAIN config.capabilities => AddPathParses(config)
    /\ Validate(config)
    /\ DOMAIN Capability(config, "addPath") \subseteq config.families

(* ApplyDefaults puts 180 s for 0, and for nothing else; the field of the  *)
(* OPEN, and acceptPeerOpen with it, takes 16 bits.                        *)
OfferedHold(config) == Seconds(IF config.hold = 0 THEN 180000 ELSE config.hold) % 65536

BuildOpen(config) ==
    LET modes == Capability(config, "addPath")
    IN  [hold     |-> OfferedHold(config),
         four     |-> TRUE,
         extended |-> Capability(config, "extendedMessage"),
         refresh  |-> Capability(config, "routeRefresh"),
         enhanced |-> Capability(config, "enhancedRouteRefresh"),
         addPath  |-> [f \in Family |-> IF f \in DOMAIN modes
                                       THEN ResolveAddPathMode[modes[f]] ELSE {}],
         otherAS  |-> FALSE]

(* The OPEN of cmd/fakebgpd, with and without -add-path.                   *)
FakeBgpdOpen(addPath) ==
    [hold |-> 90, four |-> TRUE, extended |-> TRUE, refresh |-> TRUE, enhanced |-> TRUE,
     addPath |-> [f \in Family |-> IF addPath THEN Direction ELSE {}], otherAS |-> FALSE]

----------------------------------------------------------------------------
\* The peer's OPEN.

(* A hold time of one or two seconds is refused, and an AS number other    *)
(* than the configured one.                                                *)
Acceptable(peer) == peer.hold \notin {1, 2} /\ ~peer.otherAS

NegotiatedHold(local, peer) == IF local.hold <= peer.hold THEN local.hold ELSE peer.hold

(* keepalive_time, at least a second; 0 for no keepalives.                 *)
KeepaliveTick(hold) ==
    IF hold = 0 THEN 0 ELSE IF hold \div 3 > 1 THEN hold \div 3 ELSE 1

\* Mutant: a direction is enabled when both sides offer that same direction.
NegotiatedModeUnmirrored(mine, theirs) == mine \cap theirs

(* Additional paths go one way when its sender offers to send them and the *)
(* other side to receive them.                                             *)
NegotiatedMode(mine, theirs) ==
    {d \in mine : (IF d = "send" THEN "receive" ELSE "send") \in theirs}

AcceptPeerOpen(local, peer) ==
    LET hold == NegotiatedHold(local, peer)
    IN  [hold     |-> hold,
         tick     |-> KeepaliveTick(hold),
         four     |-> peer.four,
         extended |-> local.extended /\ peer.extended,
         refresh  |-> peer.refresh,
         enhanced |-> local.enhanced /\ peer.enhanced,
         addPath  |-> [f \in Family |-> NegotiatedMode(local.addPath[f], peer.addPath[f])]]
=============================================================================

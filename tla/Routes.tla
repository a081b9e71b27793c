------------------------------- MODULE Routes -------------------------------
(***************************************************************************)
(* What a script writes for a route, and what becomes of it: bgp.go and    *)
(* the route types of internal/packet.  An element of `routes' or of       *)
(* `prefixes' is a record of the fields that are given.  A string is the   *)
(* record of its prefix, [string |-> p], with a pathId if it ends in one.  *)
(* Prefixes and addresses are of a version; IPv4-mapped spellings are left *)
(* out.  A prefix is [v6, net, host]: its network and length, and the bits *)
(* it has below its length; so is a TEID, whose length is what a route's   *)
(* endpointAddressLength has for it beyond the endpoint.  Where one of MUP *)
(* ends within an octet, the bits below are of the octets after that one.  *)
(* A field that cannot be parsed is an error and left out here.            *)
(***************************************************************************)
EXTENDS Integers, Sequences

Family == [safi : {"unicast", "vpn", "mup", "evpn", "other"}, v6 : BOOLEAN]

IPv4Unicast == [safi |-> "unicast", v6 |-> FALSE]

Given(e, fields) == fields \subseteq DOMAIN e

IsString(e) == Given(e, {"string"})

PrefixOf(e) == IF IsString(e) THEN e.string ELSE e.prefix

----------------------------------------------------------------------------
\* Route types: the fields that must be given, and what the constructors check.

NewIPRoute(f, p) == f.safi = "unicast" /\ p.v6 = f.v6

NewVPNIPRoute(f, p) == f.safi = "vpn" /\ p.v6 = f.v6

ParseVPNIPRoute(f, e) == Given(e, {"rd", "prefix"}) /\ NewVPNIPRoute(f, e.prefix)

EVPNFields == [x \in {"mac-ip", "imet", "ip-prefix"} |->
    CASE x = "mac-ip" -> {"mac"} [] x = "imet" -> {"originIp"} [] x = "ip-prefix" -> {"prefix"}]

(* One or two labels, or the scalar.                                       *)
ParseLabels(e) == IF Given(e, {"labels"}) THEN Len(e.labels) \in 1 .. 2 ELSE Given(e, {"label"})

NewEVPNIPPrefixRoute(e) == Given(e, {"gwIp"}) => e.gwIp.v6 = e.prefix.v6

ParseEVPNRoute(e) ==
    /\ Given(e, {"type", "rd"}) /\ e.type \in DOMAIN EVPNFields
    /\ Given(e, EVPNFields[e.type])
    /\ e.type = "mac-ip" => ParseLabels(e)
    /\ e.type = "ip-prefix" => NewEVPNIPPrefixRoute(e)

MUPFields == [isd  |-> {"prefix"}, dsd |-> {"address"},
              t1st |-> {"prefix", "teid", "endpoint"},
              t2st |-> {"endpoint", "teid", "endpointAddressLength"}]

CheckMUPFamily(f, x) == f.safi = "mup" /\ x.v6 = f.v6

(* Bits of an endpoint and of up to 32 bits of a TEID.                     *)
AddressLengths(v6) == IF v6 THEN 128 .. 160 ELSE 32 .. 64

NewMUPRoute(f, e) ==
    /\ \A x \in DOMAIN e \cap (MUPFields[e.type] \cup (IF e.type = "t1st" THEN {"source"} ELSE {})) :
         x \in {"prefix", "address", "endpoint", "source"} => CheckMUPFamily(f, e[x])
    /\ e.type \in {"t1st", "t2st"} => ~e.teid.v6
    /\ e.type = "t2st" => e.endpointAddressLength \in AddressLengths(f.v6)

ParseMUPRoute(f, e) ==
    /\ Given(e, {"type", "rd"}) /\ e.type \in DOMAIN MUPFields
    /\ Given(e, MUPFields[e.type])
    /\ NewMUPRoute(f, e)

----------------------------------------------------------------------------
\* advertise and withdraw: the family of the call says how to read a route.

(* A string is a bare prefix: one that ends in a path identifier is none.  *)
StringRoute(f, e) == ~Given(e, {"pathId"}) /\ NewIPRoute(f, e.string)

ParseRoute(f, e) ==
    IF IsString(e) THEN StringRoute(f, e)
    ELSE CASE f.safi = "mup"  -> ParseMUPRoute(f, e)
           [] f.safi = "vpn"  -> ParseVPNIPRoute(f, e)
           [] f.safi = "evpn" -> ParseEVPNRoute(e)
           [] OTHER           -> Given(e, {"prefix"}) /\ NewIPRoute(f, e.prefix)

ParseRoutesArray(f, routes) == routes # <<>> /\ \A i \in DOMAIN routes : ParseRoute(f, routes[i])

(* The type of the route a call of the family makes of an element.         *)
KindIn(f, e) == CASE f.safi = "unicast" -> "ip" [] f.safi = "vpn" -> "vpn" [] OTHER -> e.type

ParseExtCommunities(a) == a # <<>> /\ \A i \in DOMAIN a : a[i] # "malformed"

Behaviors == {"END_DT4", "END_DT6", "END_DT46", "END_DX4", "END_DX6"}

(* No transposition: the SID is signalled in full.                         *)
ParseSRv6L3Service(s) ==
    /\ Given(s, {"sid", "behavior"})
    /\ s.behavior \in Behaviors
    /\ Given(s, {"transpositionLength"}) => s.transpositionLength = 0

(* A tunnel has one of eight names, or is a number.                        *)
ParsePMSITunnel(t) == Given(t, {"tunnel"}) /\ t.tunnel # "unknown name"

AttrsParse(a) ==
    /\ Given(a, {"nextHop"})
    /\ Given(a, {"origin"}) => a.origin <= 2
    /\ Given(a, {"extCommunities"}) => ParseExtCommunities(a.extCommunities)
    /\ Given(a, {"srv6L3Service"}) => ParseSRv6L3Service(a.srv6L3Service)
    /\ Given(a, {"pmsiTunnel"}) => ParsePMSITunnel(a.pmsiTunnel)

(* A withdrawal has no attributes, whatever the script gives.              *)
ParseAdvertiseArg(c, families) ==
    /\ c.family \in families
    /\ c.withdraw \/ AttrsParse(c.attrs)
    /\ ParseRoutesArray(c.family, c.routes)

(* useMpReach moves IPv4 unicast from the fields of the UPDATE to MP_REACH *)
(* and MP_UNREACH; the other families are there anyway.                    *)
Legacy(c) == c.family = IPv4Unicast /\ ~c.useMpReach

(* What the constructors of attributes check.                              *)
SRv6Builds(s) == s.sid.v6
PMSIBuilds(t) == t.tunnel = "ingress-repl" => Given(t, {"endpoint"})

(* BuildUpdateMessage, first called for a probe before anything is sent.   *)
(* A configuration's AS is not the default of localAs, which is then 0.    *)
Builds(c) ==
    c.withdraw \/
        /\ Given(c.attrs, {"localAs"}) /\ c.attrs.localAs # 0
        /\ Legacy(c) => ~c.attrs.nextHop.v6
        /\ Given(c.attrs, {"srv6L3Service"}) => SRv6Builds(c.attrs.srv6L3Service)
        /\ Given(c.attrs, {"pmsiTunnel"}) => PMSIBuilds(c.attrs.pmsiTunnel)

----------------------------------------------------------------------------
\* Keys: NLRI.String(), with the path identifier where there is one.

(* The fields that the string of a route of a type has.                    *)
KeyFields(kind) ==
    CASE kind = "ip"        -> {"prefix"}
      [] kind = "vpn"       -> {"rd", "prefix"}
      [] kind = "isd"       -> {"rd", "prefix"}
      [] kind = "dsd"       -> {"rd", "address"}
      [] kind = "t1st"      -> {"rd", "prefix"}
      [] kind = "t2st"      -> {"rd", "endpoint", "endpointAddressLength", "teid"}
      [] kind = "mac-ip"    -> {"rd", "ethTag", "mac", "ip"}
      [] kind = "imet"      -> {"rd", "ethTag", "originIp"}
      [] kind = "ip-prefix" -> {"rd", "ethTag", "prefix"}

(* A MAC address may come without an IP; an Ethernet tag is 0 by default.  *)
Identity(kind, e) ==
    [x \in KeyFields(kind) \ ({"ip"} \ DOMAIN e) |->
        IF x = "prefix" THEN PrefixOf(e) ELSE IF x \in DOMAIN e THEN e[x] ELSE 0]

(* The fields that an NLRI carries up to their length only.  An EVPN route *)
(* has room for the whole address of its prefix, and is given it.          *)
CutFields(kind) ==
    CASE kind \in {"ip", "vpn", "isd", "t1st"} -> {"prefix"}
      [] kind = "t2st"                         -> {"teid"}
      [] OTHER                                 -> {}

(* The identity that is left when an NLRI has been sent and read.          *)
Masked(kind, id) ==
    [x \in DOMAIN id |-> IF x \in CutFields(kind) THEN [id[x] EXCEPT !.host = 0] ELSE id[x]]

(* The key a route is recorded by: with ADD-PATH received for its family   *)
(* it has a path identifier, 0 when its sender gave none.                  *)
ReceivedKey(f, e, addPath) ==
    <<KindIn(f, e), Masked(KindIn(f, e), Identity(KindIn(f, e), e)),
      IF f \notin addPath THEN <<>> ELSE IF Given(e, {"pathId"}) THEN <<e.pathId>> ELSE <<0>> >>

----------------------------------------------------------------------------
\* waitForPrefixes: the fields of an element say how to read it.

(* The field that has the IP version of a MUP route.                       *)
VersionField == [isd |-> "prefix", t1st |-> "prefix", dsd |-> "address", t2st |-> "endpoint"]

MUPFamily(e) == [safi |-> "mup", v6 |-> e[VersionField[e.type]].v6]

MUPDescriptor(e) ==
    /\ e.type \in DOMAIN VersionField
    /\ Given(e, {VersionField[e.type]})
    /\ ParseMUPRoute(MUPFamily(e), e)

VPNDescriptor(e) ==
    /\ Given(e, {"prefix"})
    /\ ParseVPNIPRoute([safi |-> "vpn", v6 |-> e.prefix.v6], e)

(* A type comes before a route distinguisher; an object must have one.     *)
Awaitable(e) ==
    \/ IsString(e)
    \/ Given(e, {"type"}) /\ e.type \in DOMAIN EVPNFields /\ ParseEVPNRoute(e)
    \/ Given(e, {"type"}) /\ e.type \notin DOMAIN EVPNFields /\ MUPDescriptor(e)
    \/ ~Given(e, {"type"}) /\ Given(e, {"rd"}) /\ VPNDescriptor(e)

KindOf(e) == IF IsString(e) THEN "ip" ELSE IF Given(e, {"type"}) THEN e.type ELSE "vpn"

\* Mutant: the path identifier of a descriptor is not looked at.
AwaitedIdOfString(e) == IF IsString(e) /\ Given(e, {"pathId"}) THEN <<e.pathId>> ELSE <<>>

(* A suffix of a string, a field of an object.                             *)
AwaitedId(e) == IF Given(e, {"pathId"}) THEN <<e.pathId>> ELSE <<>>

(* It is the string of a route that was not sent: nothing is cut.          *)
AwaitedKey(e) == <<KindOf(e), Identity(KindOf(e), e), AwaitedId(e)>>
=============================================================================

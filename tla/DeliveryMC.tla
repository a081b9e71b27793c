----------------------------- MODULE DeliveryMC -----------------------------
(***************************************************************************)
(* Small instances of Delivery: a script for each group of families.       *)
(***************************************************************************)
EXTENDS Delivery, TLC

Net(v6, n, host) == [v6 |-> v6, net |-> n, host |-> host]
Addr(v6, n) == [v6 |-> v6, at |-> n]
Fam(safi, v6) == [safi |-> safi, v6 |-> v6]

Str(p) == [string |-> p]
StrId(p, id) == [string |-> p, pathId |-> id]
A == Net(FALSE, 1, 0)
B == Net(FALSE, 2, 0)
S == Net(TRUE, 1, 0)
Vpn(p) == [rd |-> 1, prefix |-> p]

Plain(v6) == [nextHop |-> Addr(v6, 1), localAs |-> 1]
Call(w, f, r, a, mp) == [withdraw |-> w, family |-> f, routes |-> r, attrs |-> a, useMpReach |-> mp]
Both(f, r) == {Call(w, f, r, Plain(f.v6), FALSE) : w \in BOOLEAN}

Sid(b, sid) == [sid |-> sid, behavior |-> b]
With(f, r, x, v) == Call(FALSE, f, r, Plain(FALSE) @@ (x :> v), FALSE)

V4 == IPv4Unicast
V6 == Fam("unicast", TRUE)
Other == Fam("other", FALSE)

\* Strings and objects, both forms of UPDATE, with and without path ids.
IPScript(addPath) ==
    LET id(p) == [prefix |-> p, pathId |-> 1]
    IN  [families |-> {V4, V6}, addPath |-> addPath,
         calls |-> Both(V4, <<Str(A), [prefix |-> B]>>)
            \cup {Call(w, V4, <<id(A), Str(Net(FALSE, 2, 1))>>, Plain(FALSE), TRUE) : w \in BOOLEAN},
         maxCalls |-> 2, lists |-> {{Str(A), Str(B)}, {StrId(A, 1), StrId(B, 0)}, {StrId(A, 0)}, {[prefix |-> A]}}]

\* Announced, withdrawn and announced again.
AgainScript ==
    [families |-> {V4}, addPath |-> {}, maxCalls |-> 3,
     calls |-> Both(V4, <<Str(A)>>), lists |-> {{Str(A)}}]

\* What is wrong with a call.
BadScript ==
    [families |-> {V4, V6, Other}, addPath |-> {V4},
     calls |-> {Call(FALSE, V4, <<Str(A)>>, Plain(TRUE), FALSE),
                Call(FALSE, V4, <<Str(A)>>, [nextHop |-> Addr(FALSE, 1)], TRUE),
                Call(FALSE, V4, <<StrId(A, 1)>>, Plain(FALSE), FALSE),
                Call(FALSE, Other, <<Str(A)>>, Plain(FALSE), FALSE),
                Call(FALSE, V6, <<Str(S)>>, Plain(TRUE), FALSE),
                With(V4, <<Str(A)>>, "origin", 3),
                With(V4, <<Str(A)>>, "extCommunities", <<>>)},
     maxCalls |-> 2, lists |-> {{Str(S), Str(Net(FALSE, 1, 1))}}]

\* L3VPN: a type where there need be none.
VPNScript ==
    LET v == Fam("vpn", FALSE)
        typed == Vpn(A) @@ [type |-> "isd"]
    IN  [families |-> {v}, addPath |-> {},
         calls |-> Both(v, <<Vpn(A)>>)
            \cup {With(v, <<Vpn(B), typed>>, "srv6L3Service", Sid("END_DT4", Addr(TRUE, 1))),
                  With(v, <<Vpn(B)>>, "srv6L3Service", Sid("END_DT4", Addr(FALSE, 1)))},
         maxCalls |-> 2, lists |-> {{Vpn(A), Vpn(B)}, {typed}, {Vpn(A) @@ [pathId |-> 0]}}]

\* EVPN: labels and gateways are not of the identity, host bits are.
EVPNScript ==
    LET e == Fam("evpn", FALSE)
        mac(ip, l) == [type |-> "mac-ip", rd |-> 1, mac |-> 1, labels |-> l] @@ ip
        ipx(host) == [type |-> "ip-prefix", rd |-> 1, prefix |-> Net(FALSE, 1, host)]
        pfx == ipx(0)
        imet == [type |-> "imet", rd |-> 1, originIp |-> Addr(FALSE, 1)]
    IN  [families |-> {e}, addPath |-> {},
         calls |-> Both(e, <<mac(<<>>, <<1>>), pfx>>)
            \cup {Call(FALSE, e, <<ipx(1)>>, Plain(FALSE), FALSE),
                  With(e, <<mac([ip |-> Addr(TRUE, 1)], <<2, 1>>), imet>>, "pmsiTunnel",
                       [tunnel |-> "ingress-repl", endpoint |-> Addr(FALSE, 1)]),
                  With(e, <<imet>>, "pmsiTunnel", [tunnel |-> "ingress-repl"])},
         maxCalls |-> 2, lists |-> {{mac(<<>>, <<2>>), pfx @@ [gwIp |-> Addr(FALSE, 1)]},
                    {mac([ip |-> Addr(TRUE, 1)], <<1>>), imet @@ [ethTag |-> 0]},
                    {pfx @@ [gwIp |-> Addr(TRUE, 1)]}, {ipx(1)}}]

\* MUP of both versions.  TEID 1 whole, and TEID 1 with bits that the eight
\* which length 136 or 40 leaves to it do not cover.
MUPScript ==
    LET m == Fam("mup", TRUE)
        m4 == Fam("mup", FALSE)
        dsd(v6) == [type |-> "dsd", rd |-> 1, address |-> Addr(v6, 1)]
        isd(host) == [type |-> "isd", rd |-> 1, prefix |-> Net(TRUE, 1, host)]
        t1(t) == [type |-> "t1st", rd |-> 1, prefix |-> S, teid |-> Net(FALSE, t, 0),
                  endpoint |-> Addr(TRUE, 1)]
        t2(v6, n, host) == [type |-> "t2st", rd |-> 1, endpoint |-> Addr(v6, 1),
                            teid |-> Net(FALSE, 1, host), endpointAddressLength |-> n]
    IN  [families |-> {m, m4}, addPath |-> {m4},
         calls |-> Both(m, <<dsd(TRUE), isd(1)>>) \cup Both(m, <<t1(1), t2(TRUE, 136, 1)>>)
            \cup Both(m4, <<dsd(FALSE) @@ [pathId |-> 1], t2(FALSE, 40, 1)>>)
            \cup {Call(FALSE, m, <<r>>, Plain(TRUE), FALSE) : r \in {dsd(FALSE), t2(TRUE, 160, 0)}},
         maxCalls |-> 2,
         lists |-> {{dsd(TRUE), isd(0)}, {dsd(FALSE) @@ [pathId |-> 1]}, {t1(2), t2(TRUE, 160, 0)},
                    {t2(TRUE, 136, 1), t2(TRUE, 136, 0)}, {t2(FALSE, 40, 0) @@ [pathId |-> 0]},
                    {t2(TRUE, 64, 0)}}]

Scripts == {IPScript({}), IPScript({V4}), AgainScript, BadScript,
            VPNScript, EVPNScript, MUPScript}
=============================================================================

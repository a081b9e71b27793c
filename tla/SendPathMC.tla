---------------------------- MODULE SendPathMC -----------------------------
(***************************************************************************)
(* Small instances of SendPath.                                            *)
(***************************************************************************)
EXTENDS SendPath, SequencesExt, TLC

CONSTANT ip

Offers(holds, extended, modes, refresh, others) ==
    {[hold |-> h, four |-> TRUE, extended |-> extended, refresh |-> refresh, enhanced |-> extended,
      addPath |-> [f \in Family |-> m], otherAS |-> others] : h \in holds, m \in modes}

OneFamily == {ip}

Given == {"localAs", "target", "routerId"}
Both == [addPath |-> (ip :> "both")]

\* With hold times at the limits; the last four cannot be used.
Configs ==
    {[given |-> Given, families |-> {ip}, hold |-> 0, capabilities |-> Both],
     [given |-> Given, families |-> {ip}, hold |-> 65535999,
      capabilities |-> Both @@ [extendedMessage |-> FALSE, enhancedRouteRefresh |-> TRUE]],
     [given |-> Given, families |-> {ip}, hold |-> -999, capabilities |-> <<>>]}
    \cup {[given |-> Given, families |-> {ip}, hold |-> h, capabilities |-> <<>>] :
             h \in {2999, 65536000, 65537000}}
    \cup {[given |-> Given, families |-> {}, hold |-> 0, capabilities |-> Both]}

RemoteOffers ==
    {FakeBgpdOpen(addPath) : addPath \in BOOLEAN}
    \cup Offers({3}, FALSE, {{"receive"}, {"send"}}, TRUE, FALSE)
    \cup Offers({0, 1}, TRUE, {{"send", "receive"}}, FALSE, FALSE)
    \cup Offers({3}, TRUE, {{}}, FALSE, TRUE)

\* Routes of two or three units: none, one message, and two at the limit.
Ends(sizes) == [i \in 0 .. Len(sizes) |-> FoldLeft(LAMBDA a, b : a + b, 0, SubSeq(sizes, 1, i))]
SmallBatches == {Ends(s) : s \in {<<>>, <<2, 3>>, <<3, 3, 2>>, <<2, 3, 3>>}}
=============================================================================

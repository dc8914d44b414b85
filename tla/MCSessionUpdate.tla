-------------------------- MODULE MCSessionUpdate --------------------------
(***************************************************************************)
(* Small sets of values for the fields of a session.  The values of a      *)
(* structured field differ from one another in one part at a time.         *)
(***************************************************************************)
EXTENDS SessionUpdate

Arp(level) == [priorityLevel |-> level, preemptCap |-> "may"]

Qos == [fiveQi |-> "9", guarBitRate |-> <<>>, maxBitRate |-> <<>>, arp |-> <<>>]
Qoses ==
    {Qos, [Qos EXCEPT !.fiveQi = "8"], [Qos EXCEPT !.guarBitRate = <<"low">>],
     [Qos EXCEPT !.guarBitRate = <<"high">>], [Qos EXCEPT !.arp = <<Arp("1")>>],
     [Qos EXCEPT !.arp = <<Arp("2")>>]}

Media == [type |-> <<>>, maxBw |-> <<>>, minBw |-> <<>>, codecs |-> <<<<>>, <<>>>>]
CodecSlots == {<<<<"c1">>, <<>>>>, <<<<>>, <<"c1">>>>, <<<<"c1">>, <<"c2">>>>, <<<<"c2">>, <<"c1">>>>}
Medias ==
    {Media, [Media EXCEPT !.type = <<"audio">>], [Media EXCEPT !.type = <<"video">>],
     [Media EXCEPT !.maxBw = <<"low">>], [Media EXCEPT !.maxBw = <<"high">>]}
    \cup {[Media EXCEPT !.codecs = slots] : slots \in CodecSlots}

Comp == [flows |-> <<>>, prio |-> <<>>, media |-> <<>>, qosRef |-> <<>>, qos |-> <<>>]
Comps ==
    {Comp, [Comp EXCEPT !.prio = <<"p1">>], [Comp EXCEPT !.qosRef = <<"r1">>],
     [Comp EXCEPT !.qosRef = <<"r2">>],
     [Comp EXCEPT !.media = <<Media>>, !.qosRef = <<"r1">>]}
    \cup {[Comp EXCEPT !.flows = flows] :
              flows \in {<<"f1">>, <<"f2">>, <<"f1", "f2">>, <<"f2", "f1">>}}
    \cup {[Comp EXCEPT !.media = <<media>>] : media \in Medias}
    \cup {[Comp EXCEPT !.qos = <<qos>>] : qos \in Qoses}

Info == [comps |-> <<>>, prio |-> <<>>, app |-> <<>>, ambr |-> <<>>]
Infos ==
    {Info, [Info EXCEPT !.prio = <<"p1">>], [Info EXCEPT !.app = <<"app1">>],
     [Info EXCEPT !.app = <<"app2">>], [Info EXCEPT !.ambr = <<"low">>],
     [Info EXCEPT !.comps = "m1" :> Comp @@ "m2" :> Comp]}
    \cup {[Info EXCEPT !.comps = "m1" :> comp] : comp \in Comps}

Tai(tac) == [tac |-> tac, nid |-> <<>>]
PrivateTai == [tac |-> "t1", nid |-> <<"n1">>]
TaiLists ==
    {<<>>, <<Tai("t1")>>, <<Tai("t2")>>, <<PrivateTai>>, <<Tai("t1"), Tai("t2")>>,
     <<Tai("t2"), Tai("t1")>>, <<Tai("t1"), PrivateTai>>, <<Tai("t1"), Tai("t1"), Tai("t2")>>}
NcgiTai(tac, cells) == [tai |-> Tai(tac), cells |-> cells]
NcgiTaiLists ==
    {<<NcgiTai("t1", <<"c1">>)>>, <<NcgiTai("t1", <<"c1", "c2">>)>>, <<NcgiTai("t2", <<"c2">>)>>,
     <<NcgiTai("t1", <<"c1">>), NcgiTai("t2", <<"c2">>)>>,
     <<NcgiTai("t2", <<"c2">>), NcgiTai("t1", <<"c1">>)>>}
Areas ==
    {[ncgiTais |-> <<>>, tais |-> tais] : tais \in TaiLists}
    \cup {[ncgiTais |-> list, tais |-> <<>>] : list \in NcgiTaiLists}

Civic(a1) == [country |-> "xx", a1 |-> a1]
CivicLists ==
    {<<>>, <<Civic(<<>>)>>, <<Civic(<<"a">>)>>, <<Civic(<<"b">>)>>,
     <<Civic(<<"a">>), Civic(<<"b">>)>>, <<Civic(<<"b">>), Civic(<<"a">>)>>,
     <<Civic(<<"a">>), Civic(<<"a">>), Civic(<<"b">>)>>}
GeoLists == {<<PointNew(540, 91)>>, <<PointNew(0, 0)>>, <<PointNew(0, 0), PointNew(-190, -90)>>}
ExtAreas ==
    {[geos |-> <<>>, civics |-> list] : list \in CivicLists}
    \cup {[geos |-> list, civics |-> <<Civic(<<>>)>>] : list \in GeoLists}

FsaLists == SeqOf({"a1", "a2"}, 2) \cup {<<"a1", "a2", "a3">>, <<"a2", "a3", "a1">>}

MCValues ==
    [dnn |-> {"d1", "d2"}, contact |-> {"no", "yes"}, area |-> Opt(Areas),
     ext |-> Opt(ExtAreas), start |-> Opt({"now", "soon"}), term |-> Opt({"later"}),
     info |-> Opt(Infos), status |-> Opt({"ACTIVE", "INACTIVE"}), fsas |-> FsaLists,
     assoc |-> Opt({"none", "s1"})]

Bare(type) ==
    [type |-> type, dnn |-> "d1", contact |-> "no", area |-> <<>>, ext |-> <<>>,
     start |-> <<>>, term |-> <<>>, info |-> <<>>, status |-> <<>>, fsas |-> <<>>,
     assoc |-> <<>>]
Rich(type) ==
    [Bare(type) EXCEPT
        !.area = <<[ncgiTais |-> <<NcgiTai("t2", <<>>)>>, tais |-> <<Tai("t1")>>]>>,
        !.ext = <<[geos |-> <<>>, civics |-> <<Civic(<<"a">>)>>]>>,
        !.info = <<[Info EXCEPT !.comps = "m1" :> [Comp EXCEPT !.media = <<Media>>]]>>,
        !.status = <<"ACTIVE">>, !.fsas = <<"a1", "a2">>]
MCBases == UNION {{Bare(type), Rich(type)} : type \in {"broadcast", "multicast"}}

=============================================================================

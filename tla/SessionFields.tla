--------------------------- MODULE SessionFields ---------------------------
(***************************************************************************)
(* The structured fields of an MBS Session: for each type what its copy    *)
(* keeps (XCopy), what its comparison tells apart (XEqual), the document   *)
(* it is sent as (XDoc) and the JSON Patch from one value to another       *)
(* (XPatch), and the values it may have (XType).                           *)
(*                                                                         *)
(* Numbers, addresses and texts are strings.  Fields that are treated      *)
(* alike are represented by one of them: the bit rates and the averaging   *)
(* window of a QoS requirement by guarBitRate and maxBitRate, the 34 texts *)
(* of a civic address by its country and one optional text, the PLMN id    *)
(* with the TAC or the cell id by one string.                              *)
(***************************************************************************)
EXTENDS JsonPatch, FiniteSets

\* What is behind a pointer that may be NULL.
Optional(S) == {v \in Seq(S) : Len(v) <= 1}

(***************************************************************************)
(* Patches of parts.                                                       *)
(***************************************************************************)
\* A value that is always there.
LeafPatch(name, a, b) == IF a = b THEN <<>> ELSE <<ReplaceItem(<<Member(name)>>, b)>>

\* Mutant: the presence of the old value is not looked at.
OptPatchMutant(name, a, b) ==
    IF a = b THEN <<>>
    ELSE IF Len(b) = 0 THEN <<RemoveItem(<<Member(name)>>)>>
    ELSE <<ReplaceItem(<<Member(name)>>, b[1])>>

\* An optional value: added, removed or replaced.
OptPatch(name, a, b) ==
    IF a = b THEN <<>>
    ELSE IF Len(a) = 0 THEN <<AddItem(<<Member(name)>>, b[1])>>
    ELSE IF Len(b) = 0 THEN <<RemoveItem(<<Member(name)>>)>>
    ELSE <<ReplaceItem(<<Member(name)>>, b[1])>>

\* An optional structure: added or removed whole, patched inside otherwise.
StructPatch(a, b, Doc(_), Inside(_, _)) ==
    IF Len(a) = 0 THEN Mapped(b, LAMBDA v : AddItem(<<>>, Doc(v)))
    ELSE IF Len(b) = 0 THEN <<RemoveItem(<<>>)>>
    ELSE Inside(a[1], b[1])

(***************************************************************************)
(* Patches of lists, entry by entry.  The index is counted back after each *)
(* removal, so that the entries behind the end of b are all removed at the *)
(* same index.                                                             *)
(***************************************************************************)
Index(i) == Nth(i - 1)
AtEnd(i) == End

EntryPatches(a, b, Equal(_, _), Doc(_), AddAt(_)) ==
    LET At(i) ==
          IF i > Len(a) THEN <<AddItem(<<AddAt(i)>>, Doc(b[i]))>>
          ELSE IF i > Len(b) THEN <<RemoveItem(<<Index(Len(b) + 1)>>)>>
          ELSE IF Equal(a[i], b[i]) THEN <<>>
          ELSE <<ReplaceItem(<<Index(i)>>, Doc(b[i]))>>
        longest == IF Len(a) > Len(b) THEN Len(a) ELSE Len(b)
    IN FlattenSeq([i \in 1..longest |-> At(i)])

\* A list that is empty counts as absent.
ListPatch(a, b, Doc(_), Inside(_, _)) ==
    StructPatch(NonEmpty(a), NonEmpty(b), LAMBDA list : Mapped(list, Doc), Inside)

\* The lists of areas: replaced whole unless the first entries agree.
PrefixedListPatch(a, b, Equal(_, _), Doc(_), AddAt(_)) ==
    ListPatch(a, b, Doc,
              LAMBDA x, y : IF Equal(x[1], y[1])
                            THEN EntryPatches(x, y, Equal, Doc, AddAt)
                            ELSE <<ReplaceItem(<<>>, Mapped(y, Doc))>>)

\* Each entry of a is looked for in a copy of b and taken out of it there.
SameEntries(a, b, Equal(_, _)) ==
    /\ Len(a) = Len(b)
    /\ \A i \in DOMAIN a :
          LET Same(list) == {j \in DOMAIN list : Equal(a[i], list[j])}
          IN Same(b) # {} /\ Cardinality(Same(a)) = Cardinality(Same(b))

(***************************************************************************)
(* Allocation and retention priority, QoS requirement.                     *)
(***************************************************************************)
ArpType == [priorityLevel : STRING, preemptCap : STRING]

ArpDoc(arp) == Obj([priorityLevel |-> <<arp.priorityLevel>>, preemptCap |-> <<arp.preemptCap>>])

ArpCopy(arp) == [priorityLevel |-> arp.priorityLevel, preemptCap |-> arp.preemptCap]

ArpEqual(a, b) == a.priorityLevel = b.priorityLevel /\ a.preemptCap = b.preemptCap

ArpPatch(a, b) ==
    StructPatch(a, b, ArpDoc,
                LAMBDA x, y : LeafPatch("priorityLevel", x.priorityLevel, y.priorityLevel)
                              \o LeafPatch("preemptCap", x.preemptCap, y.preemptCap))

QosReqType ==
    [fiveQi : STRING, guarBitRate : Optional(STRING), maxBitRate : Optional(STRING),
     arp : Optional(ArpType)]

QosReqDoc(qos) ==
    Put(Obj([guarBitRate |-> qos.guarBitRate, maxBitRate |-> qos.maxBitRate,
             reqMbsArp |-> Mapped(qos.arp, ArpDoc)]),
        "5qi", qos.fiveQi)

\* Mutant: the copy forgets the ARP.
QosReqCopyMutant(qos) == [qos EXCEPT !.arp = <<>>]

QosReqCopy(qos) == [qos EXCEPT !.arp = Mapped(@, ArpCopy)]

OptEqual(a, b, Equal(_, _)) ==
    Len(a) = Len(b) /\ \A i \in DOMAIN a : Equal(a[i], b[i])

QosReqEqual(a, b) ==
    /\ a.fiveQi = b.fiveQi
    /\ a.guarBitRate = b.guarBitRate
    /\ a.maxBitRate = b.maxBitRate
    /\ OptEqual(a.arp, b.arp, ArpEqual)

\* The 5QI is patched at "/5Qi" and the ARP at "/regMbsArp", which are not the
\* names of the attributes.
QosReqPatch(a, b) ==
    StructPatch(a, b, QosReqDoc,
                LAMBDA x, y : LeafPatch("5Qi", x.fiveQi, y.fiveQi)
                              \o OptPatch("guarBitRate", x.guarBitRate, y.guarBitRate)
                              \o OptPatch("maxBitRate", x.maxBitRate, y.maxBitRate)
                              \o AppendList(ArpPatch(x.arp, y.arp), "regMbsArp"))

(***************************************************************************)
(* Media information.  The two codec slots may be filled in any order.     *)
(***************************************************************************)
MediaInfoType ==
    [type : Optional(STRING), maxBw : Optional(STRING), minBw : Optional(STRING),
     codecs : [1..2 -> Optional(STRING)]]

Codecs(info) == info.codecs[1] \o info.codecs[2]

MediaInfoDoc(info) ==
    Obj([mbsMedType |-> info.type, maxReqMbsBwDl |-> info.maxBw,
         minReqMbsBwDl |-> info.minBw, codecs |-> NonEmpty(Codecs(info))])

MediaInfoCopy(info) ==
    LET list == Codecs(info)
    IN [info EXCEPT !.codecs = [i \in 1..2 |-> IF i <= Len(list) THEN <<list[i]>> ELSE <<>>]]

\* Of the bandwidths only their presence is compared; the codecs in any order.
MediaInfoEqual(a, b) ==
    /\ a.type = b.type
    /\ Len(a.maxBw) = Len(b.maxBw)
    /\ Len(a.minBw) = Len(b.minBw)
    /\ SameEntries(Codecs(a), Codecs(b), LAMBDA x, y : x = y)

CodecsPatch(a, b) ==
    LET Slot(i) ==
          IF i > Len(a) THEN IF i > Len(b) THEN <<>> ELSE <<AddItem(<<Member("codecs"), End>>, b[i])>>
          ELSE IF i <= Len(b)
          THEN IF a[i] = b[i] THEN <<>> ELSE <<ReplaceItem(<<Member("codecs"), Index(i)>>, b[i])>>
          ELSE IF i = 1 THEN <<RemoveItem(<<Member("codecs")>>)>>
          ELSE IF Len(b) = 0 THEN <<>> ELSE <<RemoveItem(<<Member("codecs"), Index(i)>>)>>
    IN Slot(1) \o Slot(2)

MediaInfoPatch(a, b) ==
    StructPatch(a, b, MediaInfoDoc,
                LAMBDA x, y : OptPatch("mbsMedType", x.type, y.type)
                              \o OptPatch("maxReqMbsBwDl", x.maxBw, y.maxBw)
                              \o OptPatch("minReqMbsBwDl", x.minBw, y.minBw)
                              \o CodecsPatch(Codecs(x), Codecs(y)))

(***************************************************************************)
(* Flow descriptions.  The comparison starts with "found", so that lists   *)
(* of the same length are equal.                                           *)
(***************************************************************************)
FlowDoc(flow) == flow

FlowsDoc(flows) == Mapped(flows, FlowDoc)

FlowCopy(flow) == flow

FlowsCopy(flows) == Mapped(flows, FlowCopy)

FlowEqual(a, b) == a = b

FlowsEqual(a, b) == Len(a) = Len(b)

FlowsPatch(a, b) ==
    ListPatch(a, b, FlowDoc,
              LAMBDA x, y : EntryPatches(x, y, FlowEqual, FlowDoc, AtEnd))

(***************************************************************************)
(* Media components, in a table by their number.  A document holds at most *)
(* one of the media information, the QoS reference and the requirement.    *)
(***************************************************************************)
CompType ==
    [flows : Seq(STRING), prio : Optional(STRING), media : Optional(MediaInfoType),
     qosRef : Optional(STRING), qos : Optional(QosReqType)]

CompDoc(comp) ==
    Obj([mbsFlowDescs |-> NonEmpty(FlowsDoc(comp.flows)),
         mbsSdfResPrio |-> comp.prio,
         mbsMediaInfo |-> Mapped(comp.media, MediaInfoDoc),
         qosRef |-> IF Len(comp.media) = 0 THEN comp.qosRef ELSE <<>>,
         mbsQoSReq |-> IF Len(comp.media \o comp.qosRef) = 0
                       THEN Mapped(comp.qos, QosReqDoc) ELSE <<>>])

CompCopy(comp) ==
    [comp EXCEPT !.flows = FlowsCopy(@), !.media = Mapped(@, MediaInfoCopy),
                 !.qos = Mapped(@, QosReqCopy)]

CompEqual(a, b) ==
    /\ a.prio = b.prio
    /\ a.qosRef = b.qosRef
    /\ FlowsEqual(a.flows, b.flows)
    /\ OptEqual(a.media, b.media, MediaInfoEqual)
    /\ OptEqual(a.qos, b.qos, QosReqEqual)

\* A QoS reference is added or removed, never replaced.
QosRefPatch(a, b) == IF Len(a) = Len(b) THEN <<>> ELSE OptPatch("qosRef", a, b)

CompPatch(a, b) ==
    AppendList(FlowsPatch(a.flows, b.flows), "mbsFlowDescs")
    \o OptPatch("mbsSdfResPrio", a.prio, b.prio)
    \o AppendList(MediaInfoPatch(a.media, b.media), "mbsMediaInfo")
    \o QosRefPatch(a.qosRef, b.qosRef)
    \o AppendList(QosReqPatch(a.qos, b.qos), "mbsQoSReq")

CompsDoc(comps) == [n \in DOMAIN comps |-> CompDoc(comps[n])]

CompsInside(a, b) ==
    LET old == SetToSeq(DOMAIN a)
        new == SetToSeq(DOMAIN b \ DOMAIN a)
        Old(n) == IF n \in DOMAIN b THEN AppendList(CompPatch(a[n], b[n]), n)
                  ELSE <<RemoveItem(<<Member(n)>>)>>
    IN FlattenSeq(Mapped(old, Old))
         \o [i \in DOMAIN new |-> Fault]   \* the path is made from the absent a_comp

\* Mutant: an empty table does not count as absent.
TabledMutant(comps) == <<comps>>

\* An empty table counts as absent.
Tabled(comps) == IF DOMAIN comps = {} THEN <<>> ELSE <<comps>>

CompsPatch(a, b) == StructPatch(Tabled(a), Tabled(b), CompsDoc, CompsInside)

(***************************************************************************)
(* Service information.                                                    *)
(***************************************************************************)
IsServiceInfo(info) ==
    /\ info = [comps |-> info.comps, prio |-> info.prio, app |-> info.app, ambr |-> info.ambr]
    /\ IsFiniteSet(DOMAIN info.comps)
    /\ info.comps = [n \in DOMAIN info.comps |-> info.comps[n]]
    /\ \A n \in DOMAIN info.comps : info.comps[n] \in CompType
    /\ {info.prio, info.app, info.ambr} \subseteq Optional(STRING)

ServiceInfoDoc(info) ==
    Obj([mbsMediaComps |-> Mapped(Tabled(info.comps), CompsDoc),
         mbsSdfResPrio |-> info.prio, afAppId |-> info.app,
         mbsSessionAmbr |-> info.ambr])

ServiceInfoCopy(info) ==
    [info EXCEPT !.comps = [n \in DOMAIN info.comps |-> CompCopy(info.comps[n])]]

ServiceInfoEqual(a, b) ==
    /\ a.prio = b.prio
    /\ a.app = b.app
    /\ a.ambr = b.ambr
    /\ Cardinality(DOMAIN a.comps) = Cardinality(DOMAIN b.comps)
    /\ \A n \in DOMAIN a.comps : n \in DOMAIN b.comps /\ CompEqual(a.comps[n], b.comps[n])

\* The application id is compared by its address, which a copy never shares.
AppPatch(a, b) ==
    IF Len(a) = 1 /\ Len(b) = 1 THEN <<ReplaceItem(<<Member("afAppId")>>, b[1])>>
    ELSE OptPatch("afAppId", a, b)

ServiceInfoPatch(a, b) ==
    StructPatch(a, b, ServiceInfoDoc,
                LAMBDA x, y : AppendList(CompsPatch(x.comps, y.comps), "mbsMediaComps")
                              \o OptPatch("mbsSdfResPrio", x.prio, y.prio)
                              \o AppPatch(x.app, y.app)
                              \o OptPatch("mbsSessionAmbr", x.ambr, y.ambr))

(***************************************************************************)
(* Tracking areas and cells, service area.                                 *)
(***************************************************************************)
TaiType == [tac : STRING, nid : Optional(STRING)]

TaiDoc(tai) == Obj([tac |-> <<tai.tac>>, nid |-> tai.nid])

TaisDoc(tais) == Mapped(tais, TaiDoc)

TaiCopy(tai) == [tac |-> tai.tac, nid |-> tai.nid]

\* Mutant: the network id is not compared.
TaiEqualMutant(a, b) == a.tac = b.tac

TaiEqual(a, b) == a.tac = b.tac /\ a.nid = b.nid

TaisPatch(a, b) == PrefixedListPatch(a, b, TaiEqual, TaiDoc, AtEnd)

NcgiDoc(ncgi) == Obj([nrCellId |-> <<ncgi>>])

NcgisDoc(cells) == Mapped(cells, NcgiDoc)

NcgiTaiType == [tai : TaiType, cells : Seq(STRING)]

NcgiTaiDoc(ncgiTai) ==
    Obj([tai |-> <<TaiDoc(ncgiTai.tai)>>, cellList |-> <<NcgisDoc(ncgiTai.cells)>>])

NcgiTaisDoc(ncgiTais) == Mapped(ncgiTais, NcgiTaiDoc)

\* The cells are neither copied nor compared.
NcgiTaiCopy(ncgiTai) == [tai |-> TaiCopy(ncgiTai.tai), cells |-> <<>>]

NcgiTaiEqual(a, b) == TaiEqual(a.tai, b.tai)

NcgiTaisPatch(a, b) == PrefixedListPatch(a, b, NcgiTaiEqual, NcgiTaiDoc, Index)

AreaType == [ncgiTais : Seq(NcgiTaiType), tais : Seq(TaiType)]

AreaDoc(area) ==
    Obj([ncgiList |-> NonEmpty(NcgiTaisDoc(area.ncgiTais)),
         taiList |-> NonEmpty(TaisDoc(area.tais))])

AreaCopy(area) ==
    [ncgiTais |-> Mapped(area.ncgiTais, NcgiTaiCopy), tais |-> Mapped(area.tais, TaiCopy)]

AreaEqual(a, b) ==
    /\ SameEntries(a.ncgiTais, b.ncgiTais, NcgiTaiEqual)
    /\ SameEntries(a.tais, b.tais, TaiEqual)

AreaPatch(a, b) ==
    StructPatch(a, b, AreaDoc,
                LAMBDA x, y : AppendList(NcgiTaisPatch(x.ncgiTais, y.ncgiTais), "ncgiList")
                              \o AppendList(TaisPatch(x.tais, y.tais), "taiList"))

(***************************************************************************)
(* Geographic areas, civic addresses, external service area.               *)
(***************************************************************************)
\* The one longitude in (-180, 180] that differs by whole turns.
RationaliseLongitude(lon) == CHOOSE l \in -179..180 : (lon - l) % 360 = 0

TrimLatitude(lat) == IF lat < -90 THEN -90 ELSE IF lat > 90 THEN 90 ELSE lat

PointNew(lon, lat) == [lon |-> RationaliseLongitude(lon), lat |-> TrimLatitude(lat)]

PointType == [lon : -179..180, lat : -90..90]

PointDoc(point) == Obj([lon |-> <<ToString(point.lon)>>, lat |-> <<ToString(point.lat)>>])

GeoDoc(area) == PointDoc(area)

GeosDoc(geos) == Mapped(geos, GeoDoc)

PointCopy(point) == [lon |-> point.lon, lat |-> point.lat]

GeoCopy(area) == PointCopy(area)

GeosCopy(geos) == Mapped(geos, GeoCopy)

\* Not implemented: two areas are equal when they are the same object.
GeoEqual(a, b) == FALSE

GeosEqual(a, b) == SameEntries(a, b, GeoEqual)

GeosPatch(a, b) ==
    ListPatch(a, b, GeoDoc, LAMBDA x, y : EntryPatches(x, y, GeoEqual, GeoDoc, AtEnd))

CivicType == [country : STRING, a1 : Optional(STRING)]

CivicDoc(addr) == Obj([country |-> <<addr.country>>, A1 |-> addr.a1])

CivicsDoc(civics) == Mapped(civics, CivicDoc)

CivicCopy(addr) == [country |-> addr.country, a1 |-> addr.a1]

CivicsCopy(civics) == Mapped(civics, CivicCopy)

CivicEqual(a, b) == a.country = b.country /\ a.a1 = b.a1

CivicsEqual(a, b) == SameEntries(a, b, CivicEqual)

CivicsPatch(a, b) ==
    ListPatch(a, b, CivicDoc, LAMBDA x, y : EntryPatches(x, y, CivicEqual, CivicDoc, AtEnd))

ExtAreaType == [geos : Seq(PointType), civics : Seq(CivicType)]

\* The generated type has no geographic areas: they are lost from the whole.
ExtAreaDoc(ext) == Obj([civicAddressList |-> NonEmpty(CivicsDoc(ext.civics))])

ExtAreaCopy(ext) == [geos |-> GeosCopy(ext.geos), civics |-> CivicsCopy(ext.civics)]

ExtAreaEqual(a, b) == GeosEqual(a.geos, b.geos) /\ CivicsEqual(a.civics, b.civics)

ExtAreaPatch(a, b) ==
    StructPatch(a, b, ExtAreaDoc,
                LAMBDA x, y : AppendList(GeosPatch(x.geos, y.geos), "geographicAreaList")
                              \o AppendList(CivicsPatch(x.civics, y.civics), "civicAddressList"))

(***************************************************************************)
(* Frequency selection area ids.                                           *)
(***************************************************************************)
FsaDoc(id) == id

FsasDoc(ids) == Mapped(ids, FsaDoc)

FsaCopy(id) == id

FsasCopy(ids) == Mapped(ids, FsaCopy)

FsaEqual(a, b) == a = b

FsasEqual(a, b) == Len(a) = Len(b) /\ \A i \in DOMAIN a : FsaEqual(a[i], b[i])

\* Mutant: the index is not counted back after a removal.
FsasPatchMutant(a, b) ==
    ListPatch(a, b, FsaDoc,
              LAMBDA x, y : FlattenSeq([i \in DOMAIN x |->
                              IF i > Len(y) THEN <<RemoveItem(<<Index(i)>>)>>
                              ELSE IF x[i] = y[i] THEN <<>>
                              ELSE <<ReplaceItem(<<Index(i)>>, y[i])>>]))

FsasPatch(a, b) ==
    ListPatch(a, b, FsaDoc, LAMBDA x, y : EntryPatches(x, y, FsaEqual, FsaDoc, Index))
=============================================================================

------------------------ MODULE SessionUpdate_proofs ------------------------
(***************************************************************************)
(* Proofs about SessionUpdate, for any values of the fields, lists of any  *)
(* length and any number of edits: what the copies keep and the            *)
(* comparisons tell apart, and which patch lists can be put under a        *)
(* prefix.                                                                 *)
(*                                                                         *)
(* A patch list is made bottom up, and each level copies the items of the  *)
(* one below; the copy reads the value of each, and a removal has none.    *)
(* So every list below the top has values in all its items (Valued), which *)
(* it does when no part of the session gets fewer entries than its copy    *)
(* has (SessionGrows).                                                     *)
(***************************************************************************)
EXTENDS SessionUpdate, TLAPS, FiniteSetTheorems

-----------------------------------------------------------------------------
(* Copies that keep everything *)

LEMMA TaiCopied == \A a \in TaiType : TaiCopy(a) = a
  BY DEF TaiType, TaiCopy

LEMMA CivicCopied == \A a \in CivicType : CivicCopy(a) = a
  BY DEF CivicType, CivicCopy

LEMMA ArpCopied == \A a \in ArpType : ArpCopy(a) = a
  BY DEF ArpType, ArpCopy

LEMMA TaisCopied == \A list \in Seq(TaiType) : Mapped(list, TaiCopy) = list
  BY TaiCopied DEF Mapped

LEMMA CivicsCopied == \A list \in Seq(CivicType) : CivicsCopy(list) = list
  BY CivicCopied DEF Mapped, CivicsCopy

LEMMA QosReqCopied == \A a \in QosReqType : QosReqCopy(a) = a
<1>1. \A list \in Seq(ArpType) : Mapped(list, ArpCopy) = list
  BY ArpCopied DEF Mapped
<1>2. \A a \in QosReqType : a.arp \in Seq(ArpType) /\ a = [a EXCEPT !.arp = a.arp]
  BY DEF QosReqType, Optional
<1> QED BY <1>1, <1>2 DEF QosReqCopy

LEMMA FlowsCopied == \A list \in Seq(STRING) : FlowsCopy(list) = list
  BY DEF FlowsCopy, FlowCopy, Mapped

LEMMA FsasCopied == \A list \in Seq(STRING) : FsasCopy(list) = list
  BY DEF FsasCopy, FsaCopy, Mapped

-----------------------------------------------------------------------------
(* Comparisons of equals *)

LEMMA TaisSame == \A list \in Seq(TaiType) : SameEntries(list, list, TaiEqual)
  BY DEF SameEntries, TaiEqual

LEMMA NcgiTaisSame ==
    ASSUME NEW list \in Seq(NcgiTaiType)
    PROVE  SameEntries(Mapped(list, NcgiTaiCopy), list, NcgiTaiEqual)
<1> DEFINE copy == Mapped(list, NcgiTaiCopy)
<1>1. Len(copy) = Len(list) /\ DOMAIN copy = DOMAIN list
  BY DEF Mapped
<1>2. \A i \in DOMAIN list : copy[i].tai = list[i].tai
  <2> TAKE i \in DOMAIN list
  <2>1. list[i] \in NcgiTaiType
    OBVIOUS
  <2>2. list[i].tai \in TaiType
    BY <2>1 DEF NcgiTaiType
  <2>3. copy[i] = NcgiTaiCopy(list[i])
    BY DEF Mapped
  <2> HIDE DEF copy
  <2> QED BY <2>2, <2>3, TaiCopied DEF NcgiTaiCopy
<1> HIDE DEF copy
<1>3. \A i \in DOMAIN list :
        /\ NcgiTaiEqual(copy[i], list[i])
        /\ {j \in DOMAIN copy : NcgiTaiEqual(copy[i], copy[j])}
             = {j \in DOMAIN list : NcgiTaiEqual(copy[i], list[j])}
  BY <1>1, <1>2 DEF NcgiTaiEqual, TaiEqual
<1>4. \A i \in DOMAIN copy : {j \in DOMAIN list : NcgiTaiEqual(copy[i], list[j])} # {}
  BY <1>1, <1>3
<1>5. \A i \in DOMAIN copy :
        Cardinality({j \in DOMAIN copy : NcgiTaiEqual(copy[i], copy[j])})
          = Cardinality({j \in DOMAIN list : NcgiTaiEqual(copy[i], list[j])})
  BY <1>1, <1>3, Zenon
<1> USE DEF copy
<1> QED BY <1>1, <1>4, <1>5 DEF SameEntries

LEMMA CivicsSame == \A list \in Seq(CivicType) : CivicsEqual(list, list)
  BY DEF CivicsEqual, SameEntries, CivicEqual

LEMMA NoGeosSame == GeosEqual(<<>>, <<>>)
  BY DEF GeosEqual, SameEntries

LEMMA CodecsTyped ==
    ASSUME NEW info \in MediaInfoType
    PROVE  Codecs(info) \in Seq(STRING) /\ Len(Codecs(info)) <= 2
<1>1. info.codecs[1] \in Optional(STRING) /\ info.codecs[2] \in Optional(STRING)
  BY DEF MediaInfoType
<1>2. ASSUME NEW a \in Seq(STRING), NEW b \in Seq(STRING), Len(a) <= 1, Len(b) <= 1
      PROVE  a \o b \in Seq(STRING) /\ Len(a \o b) <= 2
  BY <1>2
<1> QED BY <1>1, <1>2 DEF Codecs, Optional

LEMMA CodecsCopied ==
    ASSUME NEW info \in MediaInfoType
    PROVE  Codecs(MediaInfoCopy(info)) = Codecs(info)
<1> DEFINE list == Codecs(info)
           slots == [i \in 1..2 |-> IF i <= Len(list) THEN <<list[i]>> ELSE <<>>]
<1>2. list \in Seq(STRING) /\ Len(list) <= 2
  BY CodecsTyped
<1>3. MediaInfoCopy(info).codecs = slots
  BY DEF MediaInfoCopy, MediaInfoType
<1> HIDE DEF list
<1>4. slots[1] \o slots[2] = list
  <2>1. CASE Len(list) = 0
    BY <1>2, <2>1
  <2>2. CASE Len(list) = 1
    BY <1>2, <2>2
  <2>3. CASE Len(list) = 2
    BY <1>2, <2>3
  <2> QED BY <1>2, <2>1, <2>2, <2>3
<1> QED BY <1>3, <1>4 DEF Codecs, list

LEMMA MediaInfoSame ==
    ASSUME NEW info \in MediaInfoType
    PROVE  MediaInfoEqual(MediaInfoCopy(info), info)
<1>1. LET list == Codecs(info) IN SameEntries(list, list, LAMBDA x, y : x = y)
  BY DEF SameEntries
<1>2. /\ MediaInfoCopy(info).type = info.type
      /\ MediaInfoCopy(info).maxBw = info.maxBw
      /\ MediaInfoCopy(info).minBw = info.minBw
  BY DEF MediaInfoCopy, MediaInfoType
<1> QED BY <1>1, <1>2, CodecsCopied DEF MediaInfoEqual

LEMMA CompSame ==
    ASSUME NEW comp \in CompType
    PROVE  CompEqual(CompCopy(comp), comp)
<1>1. /\ comp.media \in Seq(MediaInfoType) /\ comp.qos \in Seq(QosReqType)
      /\ comp.flows \in Seq(STRING)
  BY DEF CompType, Optional
<1>2. /\ CompCopy(comp).prio = comp.prio
      /\ CompCopy(comp).qosRef = comp.qosRef
      /\ CompCopy(comp).flows = comp.flows
      /\ CompCopy(comp).media = Mapped(comp.media, MediaInfoCopy)
      /\ CompCopy(comp).qos = Mapped(comp.qos, QosReqCopy)
  BY <1>1, FlowsCopied DEF CompCopy, CompType
<1>3. FlowsEqual(CompCopy(comp).flows, comp.flows)
  BY <1>2 DEF FlowsEqual
<1>4. OptEqual(CompCopy(comp).media, comp.media, MediaInfoEqual)
  BY <1>1, <1>2, MediaInfoSame DEF OptEqual, Mapped
<1>5. OptEqual(CompCopy(comp).qos, comp.qos, QosReqEqual)
  <2>1. Mapped(comp.qos, QosReqCopy) = comp.qos
    BY <1>1, QosReqCopied DEF Mapped
  <2>2. \A i \in DOMAIN comp.qos : comp.qos[i].arp \in Seq(ArpType)
    <3> TAKE i \in DOMAIN comp.qos
    <3>1. comp.qos[i] \in QosReqType
      BY <1>1
    <3> QED BY <3>1 DEF QosReqType, Optional
  <2> QED BY <1>1, <1>2, <2>1, <2>2 DEF OptEqual, QosReqEqual, ArpEqual
<1> QED BY <1>2, <1>3, <1>4, <1>5 DEF CompEqual

LEMMA ServiceInfoSame ==
    ASSUME NEW info, IsServiceInfo(info)
    PROVE  ServiceInfoEqual(ServiceInfoCopy(info), info)
<1> DEFINE copy == ServiceInfoCopy(info)
<1>1. /\ copy.prio = info.prio /\ copy.app = info.app /\ copy.ambr = info.ambr
      /\ copy.comps = [n \in DOMAIN info.comps |-> CompCopy(info.comps[n])]
  BY DEF ServiceInfoCopy, IsServiceInfo
<1>2. DOMAIN copy.comps = DOMAIN info.comps
  BY <1>1
<1>3. \A n \in DOMAIN copy.comps : CompEqual(copy.comps[n], info.comps[n])
  BY <1>1, CompSame DEF IsServiceInfo
<1> QED BY <1>1, <1>2, <1>3 DEF ServiceInfoEqual

LEMMA AreaSame == \A area \in AreaType : AreaEqual(AreaCopy(area), area)
  BY TaisCopied, TaisSame, NcgiTaisSame DEF AreaEqual, AreaCopy, AreaType

LEMMA ExtAreaSame ==
    ASSUME NEW ext \in ExtAreaType, Len(ext.geos) = 0
    PROVE  ExtAreaEqual(ExtAreaCopy(ext), ext)
<1>1. ext.geos = <<>> /\ ext.civics \in Seq(CivicType)
  BY DEF ExtAreaType
<1>2. GeosCopy(ext.geos) = <<>>
  BY <1>1 DEF GeosCopy, Mapped
<1> QED BY <1>1, <1>2, CivicsCopied, CivicsSame, NoGeosSame DEF ExtAreaEqual, ExtAreaCopy

(* A session of the right types that nothing is shared or lost of is equal  *)
(* to its copy.                                                             *)
THEOREM CopyIsEqual ==
    ASSUME NEW s, IsSession(s), Untimed(s)
    PROVE  PublicEqual(PublicCopy(s), s)
<1> DEFINE c == PublicCopy(s)
<1>1. /\ \A f \in {"type", "dnn", "contact", "start", "status", "assoc"} : c[f] = s[f]
      /\ c.term = <<>>
      /\ c.area = Mapped(s.area, AreaCopy)
      /\ c.ext = Mapped(s.ext, ExtAreaCopy)
      /\ c.info = Mapped(s.info, ServiceInfoCopy)
      /\ c.fsas = FsasCopy(s.fsas)
  BY DEF PublicCopy, IsSession, FieldNames
<1>2. \A f \in FieldNames : FieldOf(f, s[f])
  BY DEF IsSession
<1>3. /\ s.area \in Seq(AreaType) /\ s.ext \in Seq(ExtAreaType) /\ s.fsas \in Seq(STRING)
      /\ s.assoc \in Seq(STRING) /\ Len(s.assoc) <= 1
      /\ s.info = <<>> \/ (s.info = <<s.info[1]>> /\ IsServiceInfo(s.info[1]))
  BY <1>2 DEF FieldOf, FieldNames, Optional
<1> HIDE DEF c
<1>4. OptEqual(c.area, s.area, AreaEqual)
  BY <1>1, <1>3, AreaSame DEF OptEqual, Mapped
<1>5. OptEqual(c.ext, s.ext, ExtAreaEqual)
  <2>1. \A i \in DOMAIN s.ext : s.ext[i] \in ExtAreaType /\ Len(s.ext[i].geos) = 0
    BY <1>3 DEF Untimed
  <2>2. Len(c.ext) = Len(s.ext) /\ DOMAIN c.ext = DOMAIN s.ext
    BY <1>1, <1>3 DEF Mapped
  <2>3. \A i \in DOMAIN s.ext : c.ext[i] = ExtAreaCopy(s.ext[i])
    BY <1>1 DEF Mapped
  <2> QED BY <2>1, <2>2, <2>3, ExtAreaSame DEF OptEqual
<1>6. OptEqual(c.info, s.info, ServiceInfoEqual)
  BY <1>1, <1>3, ServiceInfoSame DEF OptEqual, Mapped
<1>7. OptEqual(c.assoc, s.assoc, SsmEqual)
  <2>1. \A i \in DOMAIN s.assoc : s.assoc[i] # "none"
    BY <1>3 DEF Untimed
  <2> QED BY <1>1, <2>1 DEF OptEqual, SsmEqual
<1>8. FsasEqual(c.fsas, s.fsas)
  BY <1>1, <1>3, FsasCopied DEF FsasEqual, FsaEqual
<1>9. \A f \in {"type", "dnn", "contact", "start", "term", "status"} : c[f] = s[f]
  BY <1>1 DEF Untimed
<1> QED BY <1>4, <1>5, <1>6, <1>7, <1>8, <1>9 DEF PublicEqual, c

-----------------------------------------------------------------------------
(* Types *)

LEMMA CopyTyped ==
    ASSUME NEW s, IsSession(s)
    PROVE  IsSession(PublicCopy(s))
<1> DEFINE c == PublicCopy(s)
<1>1. /\ c = [f \in FieldNames \cup {"type"} |-> c[f]]
      /\ \A f \in {"type", "dnn", "contact", "start", "status", "assoc"} : c[f] = s[f]
      /\ c.term = <<>>
      /\ c.area = Mapped(s.area, AreaCopy)
      /\ c.ext = Mapped(s.ext, ExtAreaCopy)
      /\ c.info = Mapped(s.info, ServiceInfoCopy)
      /\ c.fsas = FsasCopy(s.fsas)
  BY DEF PublicCopy, IsSession, FieldNames
<1>2. \A f \in FieldNames : FieldOf(f, s[f])
  BY DEF IsSession
<1>3. /\ s.area \in Seq(AreaType) /\ Len(s.area) <= 1
      /\ s.ext \in Seq(ExtAreaType) /\ Len(s.ext) <= 1
      /\ s.fsas \in Seq(STRING)
      /\ s.info = <<>> \/ (s.info = <<s.info[1]>> /\ IsServiceInfo(s.info[1]))
  BY <1>2 DEF FieldOf, FieldNames, Optional
<1> HIDE DEF c
<1>4. \A a \in AreaType : AreaCopy(a) \in AreaType
  <2> TAKE a \in AreaType
  <2>1. a.ncgiTais \in Seq(NcgiTaiType) /\ a.tais \in Seq(TaiType)
    BY DEF AreaType
  <2>2. \A t \in NcgiTaiType : NcgiTaiCopy(t) \in NcgiTaiType
    BY TaiCopied DEF NcgiTaiType, NcgiTaiCopy
  <2>3. Mapped(a.ncgiTais, NcgiTaiCopy) \in Seq(NcgiTaiType)
    BY <2>1, <2>2 DEF Mapped
  <2>4. Mapped(a.tais, TaiCopy) \in Seq(TaiType)
    BY <2>1, TaisCopied
  <2> QED BY <2>3, <2>4 DEF AreaType, AreaCopy
<1>5. \A x \in ExtAreaType : ExtAreaCopy(x) \in ExtAreaType
  <2> TAKE x \in ExtAreaType
  <2>1. x.geos \in Seq(PointType) /\ x.civics \in Seq(CivicType)
    BY DEF ExtAreaType
  <2>2. \A p \in PointType : GeoCopy(p) \in PointType
    BY DEF PointType, GeoCopy, PointCopy
  <2>3. GeosCopy(x.geos) \in Seq(PointType)
    BY <2>1, <2>2 DEF GeosCopy, Mapped
  <2> QED BY <2>1, <2>3, CivicsCopied DEF ExtAreaType, ExtAreaCopy
<1>6. \A m \in MediaInfoType : MediaInfoCopy(m) \in MediaInfoType
  <2> TAKE m \in MediaInfoType
  <2>1. Codecs(m) \in Seq(STRING)
    BY CodecsTyped
  <2> DEFINE slots == [i \in 1..2 |-> IF i <= Len(Codecs(m)) THEN <<Codecs(m)[i]>> ELSE <<>>]
  <2>2. slots \in [1..2 -> Optional(STRING)]
    BY <2>1 DEF Optional
  <2>3. MediaInfoCopy(m) = [m EXCEPT !.codecs = slots]
    BY DEF MediaInfoCopy
  <2> HIDE DEF slots
  <2> QED BY <2>2, <2>3 DEF MediaInfoType
<1>7. \A comp \in CompType : CompCopy(comp) \in CompType
  <2> TAKE comp \in CompType
  <2>1. /\ comp.media \in Seq(MediaInfoType) /\ Len(comp.media) <= 1
        /\ comp.qos \in Seq(QosReqType) /\ Len(comp.qos) <= 1
        /\ comp.flows \in Seq(STRING)
    BY DEF CompType, Optional
  <2>2. Mapped(comp.media, MediaInfoCopy) \in Optional(MediaInfoType)
    BY <1>6, <2>1 DEF Optional, Mapped
  <2>3. Mapped(comp.qos, QosReqCopy) \in Optional(QosReqType)
    BY QosReqCopied, <2>1 DEF Optional, Mapped
  <2>4. FlowsCopy(comp.flows) \in Seq(STRING)
    BY <2>1, FlowsCopied
  <2> QED BY <2>2, <2>3, <2>4 DEF CompType, CompCopy
<1>8. \A info : IsServiceInfo(info) => IsServiceInfo(ServiceInfoCopy(info))
  BY <1>7 DEF IsServiceInfo, ServiceInfoCopy
<1>9. c.area \in Optional(AreaType) /\ c.ext \in Optional(ExtAreaType) /\ c.fsas \in Seq(STRING)
  BY <1>1, <1>3, <1>4, <1>5, FsasCopied DEF Mapped, Optional
<1>10. c.info = <<>> \/ (c.info = <<c.info[1]>> /\ IsServiceInfo(c.info[1]))
  BY <1>1, <1>3, <1>8 DEF Mapped
<1>11. c.term \in Optional(STRING)
  <2>1. <<>> \in Seq(STRING) /\ Len(<<>>) <= 1
    OBVIOUS
  <2> QED BY <1>1, <2>1 DEF Optional
<1>12. ASSUME NEW f \in FieldNames PROVE FieldOf(f, c[f])
  BY <1>1, <1>2, <1>9, <1>10, <1>11 DEF FieldOf, FieldNames
<1> QED BY <1>1, <1>12 DEF IsSession, c

(* What was set and copied is what the types and the rules allow. *)
Phased ==
    /\ phase \in {"created", "updating", "updated", "refused"} =>
          /\ was # <<>>
          /\ prev = <<PublicCopy(was[1])>>
    /\ "untimed" \in Rules =>
          /\ phase \in {"new", "creating"} => Untimed(sess)
          /\ was # <<>> => Untimed(was[1])

IInv == TypeOK /\ Phased

LEMMA InitIInv == Init => IInv
  BY BasesAssumption, MaxEditsAssumption DEF Init, IInv, TypeOK, Phased, MayCreate, Phases

LEMMA SetTyped ==
    ASSUME NEW s, IsSession(s), NEW f \in FieldNames, NEW v \in Values[f]
    PROVE  IsSession([s EXCEPT ![f] = v])
<1> DEFINE t == [s EXCEPT ![f] = v]
<1>1. s = [g \in FieldNames \cup {"type"} |-> s[g]] /\ f # "type"
  BY DEF IsSession, FieldNames
<1>2. t = [g \in FieldNames \cup {"type"} |-> IF g = f THEN v ELSE s[g]]
  BY <1>1
<1> HIDE DEF t
<1>3. t = [g \in FieldNames \cup {"type"} |-> t[g]] /\ t.type = s.type
  BY <1>1, <1>2
<1>4. \A g \in FieldNames : t[g] = IF g = f THEN v ELSE s[g]
  BY <1>2
<1>5. \A g \in FieldNames : FieldOf(g, t[g])
  BY <1>4, ValuesAssumption DEF IsSession
<1> QED BY <1>3, <1>5 DEF IsSession, t

LEMMA SetFieldKeeps ==
    ASSUME IInv, NEW f \in FieldNames, NEW v \in Values[f], SetField(f, v)
    PROVE  IInv'
<1>1. IsSession(sess')
  BY SetTyped DEF IInv, TypeOK, SetField
<1>2. edits' \in 0..MaxEdits
  <2>1. edits \in 0..MaxEdits /\ edits < MaxEdits /\ edits' = edits + 1
    BY DEF IInv, TypeOK, SetField
  <2> QED BY <2>1, MaxEditsAssumption
<1>3. TypeOK'
  BY <1>1, <1>2 DEF IInv, TypeOK, SetField
<1>4. Phased'
  BY DEF IInv, Phased, SetField, MayCreate
<1> QED BY <1>3, <1>4 DEF IInv

LEMMA CreateAcceptedKeeps ==
    ASSUME IInv, CreateAccepted
    PROVE  IInv'
<1>1. was' = <<sess>> /\ was'[1] = sess /\ was' # <<>>
  BY DEF CreateAccepted
<1>2. prev' = <<PublicCopy(sess)>> /\ prev'[1] = PublicCopy(sess)
  BY DEF CreateAccepted
<1>3. TypeOK'
  BY <1>1, <1>2, CopyTyped DEF IInv, TypeOK, CreateAccepted, Phases
<1>4. Phased'
  BY <1>1, <1>2 DEF IInv, Phased, CreateAccepted
<1> QED BY <1>3, <1>4 DEF IInv

LEMMA UnchangedKeeps ==
    ASSUME IInv, UNCHANGED <<sess, prev, was>>, phase' \in Phases, edits' \in 0..MaxEdits,
           fault' \in {"none", "null pointer", "double free"},
           phase' \in {"new", "creating"} => phase \in {"new", "creating"},
           phase' \in {"created", "updating", "updated", "refused"}
             => phase \in {"created", "updating", "updated", "refused"}
    PROVE  IInv'
  BY DEF IInv, TypeOK, Phased

LEMMA StepIInv == IInv /\ [Next]_vars => IInv'
<1> SUFFICES ASSUME IInv, [Next]_vars PROVE IInv'
  OBVIOUS
<1>0. 0 \in 0..MaxEdits
  BY MaxEditsAssumption
<1>1. ASSUME NEW f \in FieldNames, NEW v \in Values[f], SetField(f, v) PROVE IInv'
  BY <1>1, SetFieldKeeps
<1>2. CASE CreateAccepted
  BY <1>2, CreateAcceptedKeeps
<1>3. CASE PushCreate
  BY <1>0, <1>3, UnchangedKeeps DEF PushCreate, IInv, TypeOK, Phases
<1>4. CASE PushNothing
  BY <1>0, <1>4, UnchangedKeeps DEF PushNothing, IInv, TypeOK, Phases
<1>5. CASE PushUpdate
  <2>1. phase' \in {"gone", "updating"} /\ fault' \in {"null pointer", fault}
        /\ phase \in {"created", "updated"} /\ edits' = 0 /\ UNCHANGED <<sess, prev, was>>
    BY <1>5 DEF PushUpdate
  <2> QED BY <1>0, <2>1, UnchangedKeeps DEF IInv, TypeOK, Phases
<1>6. CASE UpdateAccepted
  BY <1>6, UnchangedKeeps DEF UpdateAccepted, IInv, TypeOK, Phases
<1>7. CASE UpdateRefused
  BY <1>7, UnchangedKeeps DEF UpdateRefused, IInv, TypeOK, Phases
<1>8. CASE Delete
  BY <1>8 DEF Delete, IInv, TypeOK, Phased, Phases
<1>9. CASE Restart
  BY <1>0, <1>9, BasesAssumption DEF Restart, IInv, TypeOK, Phased, Phases, MayCreate
<1>10. CASE UNCHANGED vars
  BY <1>10 DEF vars, IInv, TypeOK, Phased
<1> QED BY <1>1, <1>2, <1>3, <1>4, <1>5, <1>6, <1>7, <1>8, <1>9, <1>10 DEF Next

LEMMA Invariance == Spec => []IInv
<1>1. Init => IInv
  BY InitIInv
<1>2. IInv /\ [Next]_vars => IInv'
  BY StepIInv
<1> QED BY <1>1, <1>2, PTL DEF Spec

(* The session, its copy and the fields that the properties remember have   *)
(* the types of the library's structures.                                   *)
THEOREM TypeCorrect == Spec => []TypeOK
<1>1. IInv => TypeOK
  BY DEF IInv
<1> QED BY <1>1, Invariance, PTL

(* _mbs_session_public_equal takes a session and the _mbs_session_public_copy *)
(* of it for equal as long as the application changes nothing, so that no     *)
(* update is sent for a session without start and termination time.           *)
THEOREM CopyStaysEqual ==
    ASSUME "untimed" \in Rules
    PROVE  Spec => []CopyFaithful
<1>1. IInv => CopyFaithful
  <2> SUFFICES ASSUME IInv, phase = "created", sess = was[1]
               PROVE  PublicEqual(prev[1], sess)
    BY DEF CopyFaithful
  <2>1. prev[1] = PublicCopy(sess)
    BY DEF IInv, Phased
  <2>2. IsSession(sess) /\ Untimed(sess)
    BY DEF IInv, TypeOK, Phased
  <2> QED BY <2>1, <2>2, CopyIsEqual
<1> QED BY <1>1, Invariance, PTL

-----------------------------------------------------------------------------
(* Lists of patch items *)

(* A nonempty set of naturals has a least element. *)
LEMMA Least ==
    ASSUME NEW T, T \subseteq Nat, T # {}
    PROVE  \E x \in T : \A y \in T : x <= y
<1> DEFINE R == {p \in Nat \X Nat : p[1] < p[2]}
<1>1. IsWellFoundedOn(R, Nat)
  BY NatLessThanWellFounded DEF OpToRel
<1>2. \E x \in T : \A y \in T : ~(<<y, x>> \in R)
  <2> HIDE DEF R
  <2> QED BY <1>1, WFMin
<1>3. PICK x \in T : \A y \in T : ~(<<y, x>> \in R)
  BY <1>2
<1>4. ASSUME NEW y \in T PROVE x <= y
  <2>1. ~(<<y, x>> \in R)
    BY <1>3
  <2>2. ~(y < x)
    BY <2>1
  <2> QED BY <2>2
<1> QED BY <1>3, <1>4

(* The lists that FlattenSeq goes through. *)
IsFlat(f, n, lists, S) ==
    /\ f \in [1 .. n -> Seq(S)]
    /\ \A i \in 1 .. n : f[i] = IF i = 1 THEN lists[i] ELSE f[i - 1] \o lists[i]

LEMMA FlatExists ==
    ASSUME NEW S, NEW lists \in Seq(Seq(S)), NEW m \in 0 .. Len(lists)
    PROVE  \E f : IsFlat(f, m, lists, S)
<1> DEFINE B == {j \in 0 .. Len(lists) : ~\E f : IsFlat(f, j, lists, S)}
<1>1. SUFFICES ASSUME B # {} PROVE FALSE
  OBVIOUS
<1>2. PICK j \in B : \A l \in B : j <= l
  <2>1. B \subseteq Nat
    OBVIOUS
  <2> HIDE DEF B
  <2> QED BY <1>1, <2>1, Least
<1>3. j \in 0 .. Len(lists) /\ ~\E f : IsFlat(f, j, lists, S)
  BY <1>2
<1>4. CASE j = 0
  <2> DEFINE f == [i \in 1 .. 0 |-> <<>>]
  <2>1. IsFlat(f, 0, lists, S)
    BY DEF IsFlat
  <2> QED BY <1>3, <1>4, <2>1
<1>5. CASE j # 0
  <2>1. j - 1 \in 0 .. Len(lists) /\ j - 1 \notin B
    <3>1. j \in Nat /\ j - 1 \in 0 .. Len(lists) /\ ~(j <= j - 1)
      BY <1>3, <1>5
    <3> HIDE DEF B
    <3> QED BY <1>2, <3>1
  <2>2. PICK h : IsFlat(h, j - 1, lists, S)
    BY <2>1
  <2> DEFINE e == IF j = 1 THEN lists[j] ELSE h[j - 1] \o lists[j]
             g == [i \in 1 .. j |-> IF i = j THEN e ELSE h[i]]
  <2>3. e \in Seq(S)
    <3>1. lists[j] \in Seq(S)
      BY <1>3, <1>5
    <3>2. j # 1 => h[j - 1] \in Seq(S)
      BY <2>1, <2>2, <1>3, <1>5 DEF IsFlat
    <3>3. \A a, b \in Seq(S) : a \o b \in Seq(S)
      OBVIOUS
    <3> QED BY <3>1, <3>2, <3>3
  <2>4. g \in [1 .. j -> Seq(S)]
    <3> HIDE DEF e
    <3> QED BY <2>2, <2>3, <1>3 DEF IsFlat
  <2>5. ASSUME NEW i \in 1 .. j
        PROVE  g[i] = IF i = 1 THEN lists[i] ELSE g[i - 1] \o lists[i]
    <3>1. i # 1 => g[i - 1] = h[i - 1]
      BY <1>3
    <3>2. CASE i = j
      BY <3>1, <3>2, <1>3
    <3>3. CASE i # j
      <4>1. i \in 1 .. j - 1 /\ g[i] = h[i]
        BY <3>3, <1>3
      <4> HIDE DEF g
      <4> QED BY <4>1, <3>1, <2>2 DEF IsFlat
    <3> QED BY <3>2, <3>3
  <2>6. IsFlat(g, j, lists, S)
    <3> HIDE DEF g
    <3> QED BY <2>4, <2>5 DEF IsFlat
  <2> QED BY <2>6, <1>3
<1> QED BY <1>4, <1>5

LEMMA FlatIs ==
    ASSUME NEW S, NEW lists \in Seq(Seq(S))
    PROVE  \E f : /\ IsFlat(f, Len(lists), lists, S)
                  /\ FlattenSeq(lists) = IF Len(lists) = 0 THEN <<>> ELSE f[Len(lists)]
<1> DEFINE n == Len(lists)
           F(f) == [i \in 1 .. n |-> IF i = 1 THEN lists[i] ELSE f[i - 1] \o lists[i]]
           flat == CHOOSE f : f = F(f)
<1>1. PICK h : IsFlat(h, n, lists, S)
  <2>1. n \in 0 .. Len(lists)
    OBVIOUS
  <2> QED BY <2>1, FlatExists
<1>2. h = F(h)
  <2>1. h = [i \in 1 .. n |-> h[i]]
    BY <1>1 DEF IsFlat
  <2>2. \A i \in 1 .. n : h[i] = IF i = 1 THEN lists[i] ELSE h[i - 1] \o lists[i]
    BY <1>1 DEF IsFlat
  <2> QED BY <2>1, <2>2
<1>3. flat = F(flat)
  <2> HIDE DEF F
  <2> QED BY <1>2
<1>4. n # 0 => FlattenSeq(lists) = flat[n]
  BY DEF FlattenSeq
<1>5. n = 0 => FlattenSeq(lists) = <<>>
  BY DEF FlattenSeq
<1> HIDE DEF flat
<1>6. \A i \in 1 .. n : flat[i] = IF i = 1 THEN lists[i] ELSE flat[i - 1] \o lists[i]
  BY <1>3
<1> DEFINE B == {i \in 1 .. n : flat[i] \notin Seq(S)}
<1>7. ASSUME B # {} PROVE FALSE
  <2>1. PICK j \in B : \A l \in B : j <= l
    <3>1. B \subseteq Nat
      OBVIOUS
    <3> HIDE DEF B
    <3> QED BY <1>7, <3>1, Least
  <2>2. j # 1 => flat[j - 1] \in Seq(S)
    <3>1. j # 1 => j - 1 \in 1 .. n /\ j - 1 \notin B
      BY <2>1
    <3> QED BY <3>1
  <2>3. lists[j] \in Seq(S)
    BY <2>1
  <2>4. \A a, b \in Seq(S) : a \o b \in Seq(S)
    OBVIOUS
  <2>5. flat[j] \in Seq(S)
    BY <1>6, <2>1, <2>2, <2>3, <2>4
  <2> QED BY <2>1, <2>5
<1>8. flat = [i \in 1 .. n |-> flat[i]]
  BY <1>3
<1>9. IsFlat(flat, n, lists, S)
  BY <1>6, <1>7, <1>8 DEF IsFlat
<1> QED BY <1>4, <1>5, <1>9

LEMMA FlatTyped ==
    ASSUME NEW S, NEW lists \in Seq(Seq(S))
    PROVE  FlattenSeq(lists) \in Seq(S)
<1>1. PICK f : /\ IsFlat(f, Len(lists), lists, S)
               /\ FlattenSeq(lists) = IF Len(lists) = 0 THEN <<>> ELSE f[Len(lists)]
  BY FlatIs
<1>2. CASE Len(lists) = 0
  BY <1>1, <1>2
<1>3. CASE Len(lists) # 0
  <2>1. Len(lists) \in 1 .. Len(lists)
    BY <1>3
  <2> QED BY <1>1, <1>3, <2>1 DEF IsFlat
<1> QED BY <1>2, <1>3

(* An item that the copy with a prefix does not run into. *)
HasValue(item) == "value" \in DOMAIN item /\ Len(item.value) = 1

Valued(items) == \E S : items \in Seq(S) /\ \A item \in S : HasValue(item)

(* A list that was made without following a null pointer. *)
Sound(items) == \E S : items \in Seq(S) /\ Fault \notin S

LEMMA ListValued ==
    ASSUME NEW n \in Nat, NEW items, items = [i \in 1 .. n |-> items[i]],
           \A i \in 1 .. n : HasValue(items[i])
    PROVE  Valued(items)
<1> DEFINE S == {items[i] : i \in 1 .. n}
<1>1. items \in Seq(S)
  OBVIOUS
<1>2. \A item \in S : HasValue(item)
  OBVIOUS
<1> HIDE DEF S
<1> QED BY <1>1, <1>2 DEF Valued

LEMMA ItemsValued ==
    /\ \A path, json : HasValue(AddItem(path, json)) /\ HasValue(ReplaceItem(path, json))
    /\ \A item : HasValue(item) => item # Fault
    /\ Valued(<<>>)
    /\ \A item : HasValue(item) => Valued(<<item>>)
<1>1. \A path, json : HasValue(AddItem(path, json)) /\ HasValue(ReplaceItem(path, json))
  BY DEF HasValue, AddItem, ReplaceItem, Item
<1>2. \A item : HasValue(item) => item # Fault
  BY DEF HasValue, Fault, Item
<1>3. Valued(<<>>)
  <2> DEFINE items == <<>>
  <2>1. items = [i \in 1 .. 0 |-> items[i]]
    OBVIOUS
  <2> HIDE DEF items
  <2>2. \A i \in 1 .. 0 : HasValue(items[i])
    OBVIOUS
  <2>3. Valued(items)
    BY <2>1, <2>2, ListValued
  <2> QED BY <2>3 DEF items
<1>4. ASSUME NEW item, HasValue(item) PROVE Valued(<<item>>)
  <2> DEFINE items == <<item>>
  <2>1. items = [i \in 1 .. 1 |-> items[i]] /\ items[1] = item
    OBVIOUS
  <2> HIDE DEF items
  <2>2. \A i \in 1 .. 1 : HasValue(items[i])
    BY <1>4, <2>1
  <2>3. Valued(items)
    BY <2>1, <2>2, ListValued
  <2> QED BY <2>3 DEF items
<1> QED BY <1>1, <1>2, <1>3, <1>4

LEMMA JoinValued ==
    ASSUME NEW a, NEW b, Valued(a), Valued(b)
    PROVE  Valued(a \o b)
<1>1. PICK S : a \in Seq(S) /\ \A item \in S : HasValue(item)
  BY DEF Valued
<1>2. PICK T : b \in Seq(T) /\ \A item \in T : HasValue(item)
  BY DEF Valued
<1>3. a \in Seq(S \cup T) /\ b \in Seq(S \cup T)
  BY <1>1, <1>2
<1>4. a \o b \in Seq(S \cup T)
  BY <1>3
<1> QED BY <1>1, <1>2, <1>4 DEF Valued

LEMMA JoinSound ==
    ASSUME NEW a, NEW b, Sound(a), Sound(b)
    PROVE  Sound(a \o b)
<1>1. PICK S : a \in Seq(S) /\ Fault \notin S
  BY DEF Sound
<1>2. PICK T : b \in Seq(T) /\ Fault \notin T
  BY DEF Sound
<1>3. a \in Seq(S \cup T) /\ b \in Seq(S \cup T)
  BY <1>1, <1>2
<1>4. a \o b \in Seq(S \cup T) /\ Fault \notin S \cup T
  BY <1>1, <1>2, <1>3
<1> QED BY <1>4 DEF Sound

LEMMA ValuedSound == \A items : Valued(items) => Sound(items)
  BY ItemsValued DEF Valued, Sound

LEMMA SoundFaultless == \A items : Sound(items) => ~Contains(items, Fault)
  BY DEF Sound, Contains

(* Items that have values keep them under a prefix. *)
LEMMA PrefixValued ==
    ASSUME NEW items, Valued(items), NEW name
    PROVE  Valued(AppendList(items, name))
<1>1. PICK S : items \in Seq(S) /\ \A item \in S : HasValue(item)
  BY DEF Valued
<1>2. \A item : HasValue(item) => HasValue(WithPrefix(item, name))
  BY DEF HasValue, WithPrefix
<1> DEFINE new == AppendList(items, name)
<1>3. /\ new = [i \in 1 .. Len(items) |-> new[i]] /\ Len(items) \in Nat
      /\ \A i \in 1 .. Len(items) : new[i] = WithPrefix(items[i], name)
  BY <1>1 DEF AppendList, Mapped
<1> HIDE DEF new
<1>4. \A i \in 1 .. Len(items) : HasValue(new[i])
  BY <1>1, <1>2, <1>3
<1> QED BY <1>3, <1>4, ListValued DEF new

LEMMA FlattenValued ==
    ASSUME NEW n \in Nat, NEW lists, lists = [i \in 1 .. n |-> lists[i]],
           \A i \in 1 .. n : Valued(lists[i])
    PROVE  Valued(FlattenSeq(lists))
<1> DEFINE T(i) == CHOOSE S : lists[i] \in Seq(S) /\ \A item \in S : HasValue(item)
           S == UNION {T(i) : i \in 1 .. n}
<1>1. \A i \in 1 .. n : lists[i] \in Seq(T(i)) /\ \A item \in T(i) : HasValue(item)
  BY DEF Valued
<1> HIDE DEF T
<1>2. \A i \in 1 .. n : lists[i] \in Seq(S)
  <2> TAKE i \in 1 .. n
  <2>1. T(i) \subseteq S
    OBVIOUS
  <2> HIDE DEF S
  <2> QED BY <1>1, <2>1
<1>3. \A item \in S : HasValue(item)
  BY <1>1
<1> HIDE DEF S
<1>4. lists \in Seq(Seq(S))
  BY <1>2
<1>5. FlattenSeq(lists) \in Seq(S)
  BY <1>4, FlatTyped
<1> QED BY <1>3, <1>5 DEF Valued
-----------------------------------------------------------------------------
(* Patches that remove nothing *)

LEMMA LeafValued == \A name, a, b : Valued(LeafPatch(name, a, b))
  BY ItemsValued DEF LeafPatch

LEMMA OptValued ==
    ASSUME NEW name, NEW S, NEW a \in Optional(S), NEW b \in Optional(S), Len(a) <= Len(b)
    PROVE  Valued(OptPatch(name, a, b))
<1>1. Len(b) = 0 => a = b
  BY DEF Optional
<1> QED BY <1>1, ItemsValued DEF OptPatch

(* What is added whole. *)
LEMMA WholeValued ==
    ASSUME NEW S, NEW list \in Seq(S), NEW docs, DOMAIN docs = DOMAIN list
    PROVE  Valued([i \in DOMAIN docs |-> AddItem(<<>>, docs[i])])
<1> DEFINE items == [i \in DOMAIN docs |-> AddItem(<<>>, docs[i])]
<1>1. DOMAIN docs = 1 .. Len(list) /\ Len(list) \in Nat
  OBVIOUS
<1>2. /\ items = [i \in 1 .. Len(list) |-> items[i]]
      /\ \A i \in 1 .. Len(list) : HasValue(items[i])
  BY <1>1, ItemsValued
<1> HIDE DEF items
<1>3. Valued(items)
  BY <1>1, <1>2, ListValued
<1> QED BY <1>3 DEF items

LEMMA NonEmptyIs ==
    ASSUME NEW S, NEW list \in Seq(S)
    PROVE  /\ Len(list) = 0 => NonEmpty(list) = <<>>
           /\ Len(list) # 0 => NonEmpty(list) = <<list>>
           /\ NonEmpty(list) \in Seq(Seq(S))
  BY DEF NonEmpty

LEMMA FlowsValued ==
    ASSUME NEW a \in Seq(STRING), NEW b \in Seq(STRING), Len(a) <= Len(b)
    PROVE  Valued(FlowsPatch(a, b))
<1>1. CASE Len(a) = 0
  <2> DEFINE docs == Mapped(NonEmpty(b), LAMBDA list : Mapped(list, FlowDoc))
  <2>1. NonEmpty(a) = <<>>
    BY <1>1, NonEmptyIs
  <2>2. FlowsPatch(a, b) = [i \in DOMAIN docs |-> AddItem(<<>>, docs[i])]
    BY <2>1 DEF FlowsPatch, ListPatch, StructPatch, Mapped
  <2>3. DOMAIN docs = DOMAIN NonEmpty(b)
    BY DEF Mapped
  <2>4. NonEmpty(b) \in Seq(Seq(STRING))
    BY NonEmptyIs
  <2> HIDE DEF docs
  <2> QED BY <2>2, <2>3, <2>4, WholeValued
<1>2. CASE Len(a) # 0
  <2> DEFINE lists ==
        [i \in 1 .. Len(b) |->
           IF i > Len(a) THEN <<AddItem(<<AtEnd(i)>>, FlowDoc(b[i]))>>
           ELSE IF i > Len(b) THEN <<RemoveItem(<<Index(Len(b) + 1)>>)>>
           ELSE IF FlowEqual(a[i], b[i]) THEN <<>>
           ELSE <<ReplaceItem(<<Index(i)>>, FlowDoc(b[i]))>>]
  <2>1. NonEmpty(a) = <<a>> /\ NonEmpty(b) = <<b>>
    BY <1>2, NonEmptyIs
  <2>2. FlowsPatch(a, b) = EntryPatches(a, b, FlowEqual, FlowDoc, AtEnd)
    BY <2>1 DEF FlowsPatch, ListPatch, StructPatch
  <2>3. EntryPatches(a, b, FlowEqual, FlowDoc, AtEnd) = FlattenSeq(lists)
    <3>1. (IF Len(a) > Len(b) THEN Len(a) ELSE Len(b)) = Len(b)
      OBVIOUS
    <3> QED BY <3>1, Zenon DEF EntryPatches
  <2>4. \A i \in 1 .. Len(b) : Valued(lists[i])
    BY ItemsValued
  <2>5. lists = [i \in 1 .. Len(b) |-> lists[i]] /\ Len(b) \in Nat
    OBVIOUS
  <2> HIDE DEF lists
  <2> QED BY <2>2, <2>3, <2>4, <2>5, FlattenValued
<1> QED BY <1>1, <1>2

LEMMA FsasValued ==
    ASSUME NEW a \in Seq(STRING), NEW b \in Seq(STRING), Len(a) <= Len(b)
    PROVE  Valued(FsasPatch(a, b))
<1>1. CASE Len(a) = 0
  <2> DEFINE docs == Mapped(NonEmpty(b), LAMBDA list : Mapped(list, FsaDoc))
  <2>1. NonEmpty(a) = <<>>
    BY <1>1, NonEmptyIs
  <2>2. FsasPatch(a, b) = [i \in DOMAIN docs |-> AddItem(<<>>, docs[i])]
    BY <2>1 DEF FsasPatch, ListPatch, StructPatch, Mapped
  <2>3. DOMAIN docs = DOMAIN NonEmpty(b)
    BY DEF Mapped
  <2>4. NonEmpty(b) \in Seq(Seq(STRING))
    BY NonEmptyIs
  <2> HIDE DEF docs
  <2> QED BY <2>2, <2>3, <2>4, WholeValued
<1>2. CASE Len(a) # 0
  <2> DEFINE lists ==
        [i \in 1 .. Len(b) |->
           IF i > Len(a) THEN <<AddItem(<<Index(i)>>, FsaDoc(b[i]))>>
           ELSE IF i > Len(b) THEN <<RemoveItem(<<Index(Len(b) + 1)>>)>>
           ELSE IF FsaEqual(a[i], b[i]) THEN <<>>
           ELSE <<ReplaceItem(<<Index(i)>>, FsaDoc(b[i]))>>]
  <2>1. NonEmpty(a) = <<a>> /\ NonEmpty(b) = <<b>>
    BY <1>2, NonEmptyIs
  <2>2. FsasPatch(a, b) = EntryPatches(a, b, FsaEqual, FsaDoc, Index)
    BY <2>1 DEF FsasPatch, ListPatch, StructPatch
  <2>3. EntryPatches(a, b, FsaEqual, FsaDoc, Index) = FlattenSeq(lists)
    <3>1. (IF Len(a) > Len(b) THEN Len(a) ELSE Len(b)) = Len(b)
      OBVIOUS
    <3> QED BY <3>1, Zenon DEF EntryPatches
  <2>4. \A i \in 1 .. Len(b) : Valued(lists[i])
    BY ItemsValued
  <2>5. lists = [i \in 1 .. Len(b) |-> lists[i]] /\ Len(b) \in Nat
    OBVIOUS
  <2> HIDE DEF lists
  <2> QED BY <2>2, <2>3, <2>4, <2>5, FlattenValued
<1> QED BY <1>1, <1>2

LEMMA CivicsValued ==
    ASSUME NEW a \in Seq(CivicType), NEW b \in Seq(CivicType), Len(a) <= Len(b)
    PROVE  Valued(CivicsPatch(a, b))
<1>1. CASE Len(a) = 0
  <2> DEFINE docs == Mapped(NonEmpty(b), LAMBDA list : Mapped(list, CivicDoc))
  <2>1. NonEmpty(a) = <<>>
    BY <1>1, NonEmptyIs
  <2>2. CivicsPatch(a, b) = [i \in DOMAIN docs |-> AddItem(<<>>, docs[i])]
    BY <2>1 DEF CivicsPatch, ListPatch, StructPatch, Mapped
  <2>3. DOMAIN docs = DOMAIN NonEmpty(b)
    BY DEF Mapped
  <2>4. NonEmpty(b) \in Seq(Seq(CivicType))
    BY NonEmptyIs
  <2> HIDE DEF docs
  <2> QED BY <2>2, <2>3, <2>4, WholeValued
<1>2. CASE Len(a) # 0
  <2> DEFINE lists ==
        [i \in 1 .. Len(b) |->
           IF i > Len(a) THEN <<AddItem(<<AtEnd(i)>>, CivicDoc(b[i]))>>
           ELSE IF i > Len(b) THEN <<RemoveItem(<<Index(Len(b) + 1)>>)>>
           ELSE IF CivicEqual(a[i], b[i]) THEN <<>>
           ELSE <<ReplaceItem(<<Index(i)>>, CivicDoc(b[i]))>>]
  <2>1. NonEmpty(a) = <<a>> /\ NonEmpty(b) = <<b>>
    BY <1>2, NonEmptyIs
  <2>2. CivicsPatch(a, b) = EntryPatches(a, b, CivicEqual, CivicDoc, AtEnd)
    BY <2>1 DEF CivicsPatch, ListPatch, StructPatch
  <2>3. EntryPatches(a, b, CivicEqual, CivicDoc, AtEnd) = FlattenSeq(lists)
    <3>1. (IF Len(a) > Len(b) THEN Len(a) ELSE Len(b)) = Len(b)
      OBVIOUS
    <3> QED BY <3>1, Zenon DEF EntryPatches
  <2>4. \A i \in 1 .. Len(b) : Valued(lists[i])
    BY ItemsValued
  <2>5. lists = [i \in 1 .. Len(b) |-> lists[i]] /\ Len(b) \in Nat
    OBVIOUS
  <2> HIDE DEF lists
  <2> QED BY <2>2, <2>3, <2>4, <2>5, FlattenValued
<1> QED BY <1>1, <1>2

LEMMA GeosValued ==
    ASSUME NEW a \in Seq(PointType), NEW b \in Seq(PointType), Len(a) <= Len(b)
    PROVE  Valued(GeosPatch(a, b))
<1>1. CASE Len(a) = 0
  <2> DEFINE docs == Mapped(NonEmpty(b), LAMBDA list : Mapped(list, GeoDoc))
  <2>1. NonEmpty(a) = <<>>
    BY <1>1, NonEmptyIs
  <2>2. GeosPatch(a, b) = [i \in DOMAIN docs |-> AddItem(<<>>, docs[i])]
    BY <2>1 DEF GeosPatch, ListPatch, StructPatch, Mapped
  <2>3. DOMAIN docs = DOMAIN NonEmpty(b)
    BY DEF Mapped
  <2>4. NonEmpty(b) \in Seq(Seq(PointType))
    BY NonEmptyIs
  <2> HIDE DEF docs
  <2> QED BY <2>2, <2>3, <2>4, WholeValued
<1>2. CASE Len(a) # 0
  <2> DEFINE lists ==
        [i \in 1 .. Len(b) |->
           IF i > Len(a) THEN <<AddItem(<<AtEnd(i)>>, GeoDoc(b[i]))>>
           ELSE IF i > Len(b) THEN <<RemoveItem(<<Index(Len(b) + 1)>>)>>
           ELSE IF GeoEqual(a[i], b[i]) THEN <<>>
           ELSE <<ReplaceItem(<<Index(i)>>, GeoDoc(b[i]))>>]
  <2>1. NonEmpty(a) = <<a>> /\ NonEmpty(b) = <<b>>
    BY <1>2, NonEmptyIs
  <2>2. GeosPatch(a, b) = EntryPatches(a, b, GeoEqual, GeoDoc, AtEnd)
    BY <2>1 DEF GeosPatch, ListPatch, StructPatch
  <2>3. EntryPatches(a, b, GeoEqual, GeoDoc, AtEnd) = FlattenSeq(lists)
    <3>1. (IF Len(a) > Len(b) THEN Len(a) ELSE Len(b)) = Len(b)
      OBVIOUS
    <3> QED BY <3>1, Zenon DEF EntryPatches
  <2>4. \A i \in 1 .. Len(b) : Valued(lists[i])
    BY ItemsValued
  <2>5. lists = [i \in 1 .. Len(b) |-> lists[i]] /\ Len(b) \in Nat
    OBVIOUS
  <2> HIDE DEF lists
  <2> QED BY <2>2, <2>3, <2>4, <2>5, FlattenValued
<1> QED BY <1>1, <1>2

LEMMA TaisValued ==
    ASSUME NEW a \in Seq(TaiType), NEW b \in Seq(TaiType),
           Len(a) > Len(b) => Len(b) > 0 /\ a[1] # b[1]
    PROVE  Valued(TaisPatch(a, b))
<1>1. CASE Len(a) = 0
  <2> DEFINE docs == Mapped(NonEmpty(b), LAMBDA list : Mapped(list, TaiDoc))
  <2>1. NonEmpty(a) = <<>>
    BY <1>1, NonEmptyIs
  <2>2. TaisPatch(a, b) = [i \in DOMAIN docs |-> AddItem(<<>>, docs[i])]
    BY <2>1 DEF TaisPatch, PrefixedListPatch, ListPatch, StructPatch, Mapped
  <2>3. DOMAIN docs = DOMAIN NonEmpty(b)
    BY DEF Mapped
  <2>4. NonEmpty(b) \in Seq(Seq(TaiType))
    BY NonEmptyIs
  <2> HIDE DEF docs
  <2> QED BY <2>2, <2>3, <2>4, WholeValued
<1>2. CASE Len(a) # 0
  <2> DEFINE lists ==
        [i \in 1 .. Len(b) |->
           IF i > Len(a) THEN <<AddItem(<<AtEnd(i)>>, TaiDoc(b[i]))>>
           ELSE IF i > Len(b) THEN <<RemoveItem(<<Index(Len(b) + 1)>>)>>
           ELSE IF TaiEqual(a[i], b[i]) THEN <<>>
           ELSE <<ReplaceItem(<<Index(i)>>, TaiDoc(b[i]))>>]
  <2>1. NonEmpty(a) = <<a>> /\ NonEmpty(b) = <<b>>
    BY <1>2, NonEmptyIs
  <2>2. TaisPatch(a, b) = IF TaiEqual(a[1], b[1])
                          THEN EntryPatches(a, b, TaiEqual, TaiDoc, AtEnd)
                          ELSE <<ReplaceItem(<<>>, Mapped(b, TaiDoc))>>
    BY <2>1 DEF TaisPatch, PrefixedListPatch, ListPatch, StructPatch
  <2>3. CASE ~TaiEqual(a[1], b[1])
    BY <2>2, <2>3, ItemsValued
  <2>4. CASE TaiEqual(a[1], b[1])
    <3>1. Len(a) <= Len(b)
      <4>1. Len(a) > Len(b) => a[1] \in TaiType /\ b[1] \in TaiType
        OBVIOUS
      <4> QED BY <2>4, <4>1 DEF TaiEqual, TaiType
    <3>2. (IF Len(a) > Len(b) THEN Len(a) ELSE Len(b)) = Len(b)
      BY <3>1
    <3>3. EntryPatches(a, b, TaiEqual, TaiDoc, AtEnd) = FlattenSeq(lists)
      BY <3>2, Zenon DEF EntryPatches
    <3>4. \A i \in 1 .. Len(b) : Valued(lists[i])
      BY ItemsValued
    <3>5. lists = [i \in 1 .. Len(b) |-> lists[i]] /\ Len(b) \in Nat
      OBVIOUS
    <3> HIDE DEF lists
    <3> QED BY <2>2, <2>4, <3>3, <3>4, <3>5, FlattenValued
  <2> QED BY <2>3, <2>4
<1> QED BY <1>1, <1>2

LEMMA NcgiTaisValued ==
    ASSUME NEW a \in Seq(NcgiTaiType), NEW b \in Seq(NcgiTaiType),
           Len(a) > Len(b) => Len(b) > 0 /\ a[1].tai # b[1].tai
    PROVE  Valued(NcgiTaisPatch(a, b))
<1>1. CASE Len(a) = 0
  <2> DEFINE docs == Mapped(NonEmpty(b), LAMBDA list : Mapped(list, NcgiTaiDoc))
  <2>1. NonEmpty(a) = <<>>
    BY <1>1, NonEmptyIs
  <2>2. NcgiTaisPatch(a, b) = [i \in DOMAIN docs |-> AddItem(<<>>, docs[i])]
    BY <2>1 DEF NcgiTaisPatch, PrefixedListPatch, ListPatch, StructPatch, Mapped
  <2>3. DOMAIN docs = DOMAIN NonEmpty(b)
    BY DEF Mapped
  <2>4. NonEmpty(b) \in Seq(Seq(NcgiTaiType))
    BY NonEmptyIs
  <2> HIDE DEF docs
  <2> QED BY <2>2, <2>3, <2>4, WholeValued
<1>2. CASE Len(a) # 0
  <2> DEFINE lists ==
        [i \in 1 .. Len(b) |->
           IF i > Len(a) THEN <<AddItem(<<Index(i)>>, NcgiTaiDoc(b[i]))>>
           ELSE IF i > Len(b) THEN <<RemoveItem(<<Index(Len(b) + 1)>>)>>
           ELSE IF NcgiTaiEqual(a[i], b[i]) THEN <<>>
           ELSE <<ReplaceItem(<<Index(i)>>, NcgiTaiDoc(b[i]))>>]
  <2>1. NonEmpty(a) = <<a>> /\ NonEmpty(b) = <<b>>
    BY <1>2, NonEmptyIs
  <2>2. NcgiTaisPatch(a, b) = IF NcgiTaiEqual(a[1], b[1])
                          THEN EntryPatches(a, b, NcgiTaiEqual, NcgiTaiDoc, Index)
                          ELSE <<ReplaceItem(<<>>, Mapped(b, NcgiTaiDoc))>>
    BY <2>1 DEF NcgiTaisPatch, PrefixedListPatch, ListPatch, StructPatch
  <2>3. CASE ~NcgiTaiEqual(a[1], b[1])
    BY <2>2, <2>3, ItemsValued
  <2>4. CASE NcgiTaiEqual(a[1], b[1])
    <3>1. Len(a) <= Len(b)
      <4>1. Len(a) > Len(b) => a[1] \in NcgiTaiType /\ b[1] \in NcgiTaiType
        OBVIOUS
      <4>2. Len(a) > Len(b) => a[1].tai \in TaiType /\ b[1].tai \in TaiType
        BY <4>1 DEF NcgiTaiType
      <4>3. \A t, u \in TaiType : TaiEqual(t, u) => t = u
        BY DEF TaiEqual, TaiType
      <4> QED BY <2>4, <4>2, <4>3 DEF NcgiTaiEqual
    <3>2. (IF Len(a) > Len(b) THEN Len(a) ELSE Len(b)) = Len(b)
      BY <3>1
    <3>3. EntryPatches(a, b, NcgiTaiEqual, NcgiTaiDoc, Index) = FlattenSeq(lists)
      BY <3>2, Zenon DEF EntryPatches
    <3>4. \A i \in 1 .. Len(b) : Valued(lists[i])
      BY ItemsValued
    <3>5. lists = [i \in 1 .. Len(b) |-> lists[i]] /\ Len(b) \in Nat
      OBVIOUS
    <3> HIDE DEF lists
    <3> QED BY <2>2, <2>4, <3>3, <3>4, <3>5, FlattenValued
  <2> QED BY <2>3, <2>4
<1> QED BY <1>1, <1>2

LEMMA FirstIn ==
    ASSUME NEW S, NEW list \in Seq(S), Len(list) = 1
    PROVE  list[1] \in S
  OBVIOUS

LEMMA OneSeq == \A v : <<v>> \in Seq({v}) /\ <<>> \in Seq({v})
<1> TAKE v
<1> DEFINE S == {v}
<1>1. v \in S
  OBVIOUS
<1> HIDE DEF S
<1>2. <<v>> \in Seq(S) /\ <<>> \in Seq(S)
  BY <1>1
<1> QED BY <1>2 DEF S

LEMMA ArpValued ==
    ASSUME NEW a \in Optional(ArpType), NEW b \in Optional(ArpType), Len(a) <= Len(b)
    PROVE  Valued(ArpPatch(a, b))
<1>1. CASE Len(a) = 0
  <2> DEFINE docs == Mapped(b, ArpDoc)
  <2>1. ArpPatch(a, b) = [i \in DOMAIN docs |-> AddItem(<<>>, docs[i])]
    BY <1>1 DEF ArpPatch, StructPatch, Mapped
  <2>2. DOMAIN docs = DOMAIN b /\ b \in Seq(ArpType)
    BY DEF Mapped, Optional
  <2> HIDE DEF docs
  <2> QED BY <2>1, <2>2, WholeValued
<1>2. CASE Len(a) # 0
  <2>1. Len(b) # 0
    BY <1>2 DEF Optional
  <2> QED BY <1>2, <2>1, LeafValued, JoinValued DEF ArpPatch, StructPatch
<1> QED BY <1>1, <1>2

(* What an update may do to the QoS requirement of a component. *)
QosGrows(x, y) ==
    /\ Len(x.guarBitRate) <= Len(y.guarBitRate)
    /\ Len(x.maxBitRate) <= Len(y.maxBitRate)
    /\ Len(x.arp) <= Len(y.arp)

LEMMA QosReqValued ==
    ASSUME NEW a \in Optional(QosReqType), NEW b \in Optional(QosReqType), Len(a) <= Len(b),
           Both(a, b, QosGrows)
    PROVE  Valued(QosReqPatch(a, b))
<1>1. CASE Len(a) = 0
  <2> DEFINE docs == Mapped(b, QosReqDoc)
  <2>1. QosReqPatch(a, b) = [i \in DOMAIN docs |-> AddItem(<<>>, docs[i])]
    BY <1>1 DEF QosReqPatch, StructPatch, Mapped
  <2>2. DOMAIN docs = DOMAIN b /\ b \in Seq(QosReqType)
    BY DEF Mapped, Optional
  <2> HIDE DEF docs
  <2> QED BY <2>1, <2>2, WholeValued
<1>2. CASE Len(a) # 0
  <2> DEFINE x == a[1]
             y == b[1]
  <2>1. Len(a) = 1 /\ Len(b) = 1 /\ x \in QosReqType /\ y \in QosReqType
    <3>1. a \in Seq(QosReqType) /\ b \in Seq(QosReqType) /\ Len(a) <= 1 /\ Len(b) <= 1
      BY DEF Optional
    <3>2. Len(a) = 1 /\ Len(b) = 1
      BY <1>2, <3>1
    <3> QED BY <3>1, <3>2, FirstIn
  <2>2. QosGrows(x, y)
    BY <2>1 DEF Both
  <2>3. QosReqPatch(a, b) =
          LeafPatch("5Qi", x.fiveQi, y.fiveQi)
          \o OptPatch("guarBitRate", x.guarBitRate, y.guarBitRate)
          \o OptPatch("maxBitRate", x.maxBitRate, y.maxBitRate)
          \o AppendList(ArpPatch(x.arp, y.arp), "regMbsArp")
    BY <2>1 DEF QosReqPatch, StructPatch
  <2> HIDE DEF x, y
  <2>4. Valued(OptPatch("guarBitRate", x.guarBitRate, y.guarBitRate))
    BY <2>1, <2>2, OptValued DEF QosGrows, QosReqType
  <2>5. Valued(OptPatch("maxBitRate", x.maxBitRate, y.maxBitRate))
    BY <2>1, <2>2, OptValued DEF QosGrows, QosReqType
  <2>6. Valued(ArpPatch(x.arp, y.arp))
    BY <2>1, <2>2, ArpValued DEF QosGrows, QosReqType
  <2>7. Valued(AppendList(ArpPatch(x.arp, y.arp), "regMbsArp"))
    BY <2>6, PrefixValued
  <2> QED BY <2>3, <2>4, <2>5, <2>7, LeafValued, JoinValued
<1> QED BY <1>1, <1>2

LEMMA CodecsValued ==
    ASSUME NEW a \in Seq(STRING), NEW b \in Seq(STRING), Len(a) <= Len(b)
    PROVE  Valued(CodecsPatch(a, b))
<1>1. \A i \in 1 .. 2 : i <= Len(a) => i <= Len(b)
  OBVIOUS
<1> QED BY <1>1, ItemsValued, JoinValued DEF CodecsPatch

MediaGrows(x, y) ==
    /\ Len(Codecs(x)) <= Len(Codecs(y))
    /\ Len(x.type) <= Len(y.type)
    /\ Len(x.maxBw) <= Len(y.maxBw)
    /\ Len(x.minBw) <= Len(y.minBw)

LEMMA MediaInfoValued ==
    ASSUME NEW a \in Optional(MediaInfoType), NEW b \in Optional(MediaInfoType),
           Len(a) <= Len(b), Both(a, b, MediaGrows)
    PROVE  Valued(MediaInfoPatch(a, b))
<1>1. CASE Len(a) = 0
  <2> DEFINE docs == Mapped(b, MediaInfoDoc)
  <2>1. MediaInfoPatch(a, b) = [i \in DOMAIN docs |-> AddItem(<<>>, docs[i])]
    BY <1>1 DEF MediaInfoPatch, StructPatch, Mapped
  <2>2. DOMAIN docs = DOMAIN b /\ b \in Seq(MediaInfoType)
    BY DEF Mapped, Optional
  <2> HIDE DEF docs
  <2> QED BY <2>1, <2>2, WholeValued
<1>2. CASE Len(a) # 0
  <2> DEFINE x == a[1]
             y == b[1]
  <2>1. Len(a) = 1 /\ Len(b) = 1 /\ x \in MediaInfoType /\ y \in MediaInfoType
    <3>1. a \in Seq(MediaInfoType) /\ b \in Seq(MediaInfoType) /\ Len(a) <= 1 /\ Len(b) <= 1
      BY DEF Optional
    <3>2. Len(a) = 1 /\ Len(b) = 1
      BY <1>2, <3>1
    <3> QED BY <3>1, <3>2, FirstIn
  <2>2. MediaGrows(x, y)
    BY <2>1 DEF Both
  <2>3. MediaInfoPatch(a, b) =
          OptPatch("mbsMedType", x.type, y.type)
          \o OptPatch("maxReqMbsBwDl", x.maxBw, y.maxBw)
          \o OptPatch("minReqMbsBwDl", x.minBw, y.minBw)
          \o CodecsPatch(Codecs(x), Codecs(y))
    BY <2>1 DEF MediaInfoPatch, StructPatch
  <2> HIDE DEF x, y
  <2>4. Valued(OptPatch("mbsMedType", x.type, y.type))
    BY <2>1, <2>2, OptValued DEF MediaGrows, MediaInfoType
  <2>5. Valued(OptPatch("maxReqMbsBwDl", x.maxBw, y.maxBw))
    BY <2>1, <2>2, OptValued DEF MediaGrows, MediaInfoType
  <2>6. Valued(OptPatch("minReqMbsBwDl", x.minBw, y.minBw))
    BY <2>1, <2>2, OptValued DEF MediaGrows, MediaInfoType
  <2>7. Valued(CodecsPatch(Codecs(x), Codecs(y)))
    BY <2>1, <2>2, CodecsTyped, CodecsValued DEF MediaGrows
  <2> QED BY <2>3, <2>4, <2>5, <2>6, <2>7, JoinValued
<1> QED BY <1>1, <1>2

CompGrows(x, y) ==
    /\ Len(x.flows) <= Len(y.flows)
    /\ Len(x.prio) <= Len(y.prio)
    /\ Len(x.media) <= Len(y.media)
    /\ Len(x.qosRef) <= Len(y.qosRef)
    /\ Len(x.qos) <= Len(y.qos)
    /\ Both(x.media, y.media, MediaGrows)
    /\ Both(x.qos, y.qos, QosGrows)

LEMMA CompValued ==
    ASSUME NEW a \in CompType, NEW b \in CompType, CompGrows(a, b)
    PROVE  Valued(CompPatch(a, b))
<1>1. Valued(FlowsPatch(a.flows, b.flows))
  BY FlowsValued DEF CompType, CompGrows
<1>2. Valued(OptPatch("mbsSdfResPrio", a.prio, b.prio))
  BY OptValued DEF CompType, CompGrows
<1>3. Valued(MediaInfoPatch(a.media, b.media))
  BY MediaInfoValued DEF CompType, CompGrows
<1>4. Valued(QosRefPatch(a.qosRef, b.qosRef))
  BY OptValued, ItemsValued DEF CompType, CompGrows, QosRefPatch
<1>5. Valued(QosReqPatch(a.qos, b.qos))
  BY QosReqValued DEF CompType, CompGrows
<1> QED BY <1>1, <1>2, <1>3, <1>4, <1>5, PrefixValued, JoinValued DEF CompPatch
LEMMA SeqOfTyped ==
    ASSUME NEW S, IsFiniteSet(S)
    PROVE  /\ SetToSeq(S) \in [1 .. Cardinality(S) -> S]
           /\ Cardinality(S) \in Nat
           /\ S = {} => Cardinality(S) = 0
<1>1. Cardinality(S) \in Nat /\ ExistsBijection(1 .. Cardinality(S), S)
  BY FS_CardinalityType
<1>2. \E f \in [1 .. Cardinality(S) -> S] : IsInjective(f)
  BY <1>1 DEF ExistsBijection, Bijection, Injection
<1>3. SetToSeq(S) \in [1 .. Cardinality(S) -> S]
  BY <1>2 DEF SetToSeq
<1> QED BY <1>1, <1>3, FS_EmptySet

(* The components of service information. *)
IsComps(comps) ==
    /\ IsFiniteSet(DOMAIN comps)
    /\ comps = [n \in DOMAIN comps |-> comps[n]]
    /\ \A n \in DOMAIN comps : comps[n] \in CompType

LEMMA CompsValued ==
    ASSUME NEW a, IsComps(a), NEW b, IsComps(b), DOMAIN a # {} => DOMAIN a = DOMAIN b,
           \A n \in DOMAIN a : CompGrows(a[n], b[n])
    PROVE  Valued(CompsPatch(a, b))
<1>1. CASE DOMAIN a = {}
  <2> DEFINE docs == Mapped(Tabled(b), CompsDoc)
  <2>1. Tabled(a) = <<>>
    BY <1>1 DEF Tabled
  <2>2. CompsPatch(a, b) = [i \in DOMAIN docs |-> AddItem(<<>>, docs[i])]
    BY <2>1 DEF CompsPatch, StructPatch, Mapped
  <2>3. DOMAIN docs = DOMAIN Tabled(b) /\ Tabled(b) \in Seq({b})
    <3>1. Tabled(b) = <<>> \/ Tabled(b) = <<b>>
      BY DEF Tabled
    <3>2. Tabled(b) \in Seq({b})
      BY <3>1, OneSeq
    <3> QED BY <3>2 DEF Mapped
  <2> HIDE DEF docs
  <2> QED BY <2>2, <2>3, WholeValued
<1>2. CASE DOMAIN a # {}
  <2> DEFINE old == SetToSeq(DOMAIN a)
             new == SetToSeq(DOMAIN b \ DOMAIN a)
             lists == [i \in DOMAIN old |-> AppendList(CompPatch(a[old[i]], b[old[i]]), old[i])]
  <2>1. DOMAIN a = DOMAIN b /\ DOMAIN b \ DOMAIN a = {}
    BY <1>2
  <2>2. Tabled(a) = <<a>> /\ Tabled(b) = <<b>>
    BY <1>2, <2>1 DEF Tabled
  <2>3. CompsPatch(a, b) = CompsInside(a, b)
    BY <2>2 DEF CompsPatch, StructPatch
  <2>4. old \in [1 .. Cardinality(DOMAIN a) -> DOMAIN a] /\ Cardinality(DOMAIN a) \in Nat
    BY SeqOfTyped DEF IsComps
  <2>5. DOMAIN new = {}
    <3>1. new = SetToSeq({})
      BY <2>1
    <3>2. new \in [1 .. 0 -> {}]
      BY <3>1, SeqOfTyped, FS_EmptySet
    <3> QED BY <3>2
  <2> HIDE DEF old, new
  <2>6. FlattenSeq(Mapped(old, LAMBDA n : IF n \in DOMAIN b
                                         THEN AppendList(CompPatch(a[n], b[n]), n)
                                         ELSE <<RemoveItem(<<Member(n)>>)>>)) = FlattenSeq(lists)
    BY <2>1, <2>4 DEF Mapped
  <2>7. CompsInside(a, b) = FlattenSeq(lists) \o [i \in DOMAIN new |-> Fault]
    BY <2>6 DEF CompsInside, old, new
  <2>8. \A i \in DOMAIN old : Valued(lists[i])
    BY <2>1, <2>4, CompValued, PrefixValued DEF IsComps
  <2>9. lists = [i \in 1 .. Cardinality(DOMAIN a) |-> lists[i]]
    BY <2>4
  <2> HIDE DEF lists
  <2>10. Valued(FlattenSeq(lists))
    BY <2>4, <2>8, <2>9, FlattenValued
  <2>11. [i \in DOMAIN new |-> Fault] = <<>>
    BY <2>5
  <2> QED BY <2>3, <2>7, <2>10, <2>11, ItemsValued, JoinValued
<1> QED BY <1>1, <1>2

InfoGrows(x, y) ==
    /\ DOMAIN x.comps # {} => DOMAIN x.comps = DOMAIN y.comps
    /\ Len(x.prio) <= Len(y.prio)
    /\ Len(x.app) <= Len(y.app)
    /\ Len(x.ambr) <= Len(y.ambr)
    /\ \A n \in DOMAIN x.comps : CompGrows(x.comps[n], y.comps[n])

(* An optional value with its type. *)
IsInfo(v) == v = <<>> \/ (v = <<v[1]>> /\ IsServiceInfo(v[1]))

LEMMA ServiceInfoValued ==
    ASSUME NEW a, IsInfo(a), NEW b, IsInfo(b), Len(a) <= Len(b), Both(a, b, InfoGrows)
    PROVE  Valued(ServiceInfoPatch(a, b))
<1>1. CASE Len(a) = 0
  <2> DEFINE docs == Mapped(b, ServiceInfoDoc)
  <2>1. ServiceInfoPatch(a, b) = [i \in DOMAIN docs |-> AddItem(<<>>, docs[i])]
    BY <1>1 DEF ServiceInfoPatch, StructPatch, Mapped
  <2>2. DOMAIN docs = DOMAIN b /\ b \in Seq({b[1]})
    <3>1. b = <<>> \/ b = <<b[1]>>
      BY DEF IsInfo
    <3>2. b \in Seq({b[1]})
      BY <3>1, OneSeq
    <3> QED BY <3>2 DEF Mapped
  <2> HIDE DEF docs
  <2> QED BY <2>1, <2>2, WholeValued
<1>2. CASE Len(a) # 0
  <2> DEFINE x == a[1]
             y == b[1]
  <2>1. Len(a) = 1 /\ Len(b) = 1 /\ IsServiceInfo(x) /\ IsServiceInfo(y)
    <3>1. a = <<x>> /\ IsServiceInfo(x)
      BY <1>2 DEF IsInfo
    <3>2. Len(a) = 1
      BY <3>1
    <3> QED BY <3>1, <3>2 DEF IsInfo
  <2>2. InfoGrows(x, y)
    BY <2>1 DEF Both
  <2>3. ServiceInfoPatch(a, b) =
          AppendList(CompsPatch(x.comps, y.comps), "mbsMediaComps")
          \o OptPatch("mbsSdfResPrio", x.prio, y.prio)
          \o AppPatch(x.app, y.app)
          \o OptPatch("mbsSessionAmbr", x.ambr, y.ambr)
    BY <2>1 DEF ServiceInfoPatch, StructPatch
  <2> HIDE DEF x, y
  <2>4. Valued(CompsPatch(x.comps, y.comps))
    BY <2>1, <2>2, CompsValued DEF InfoGrows, IsServiceInfo, IsComps
  <2>5. /\ x.prio \in Optional(STRING) /\ x.app \in Optional(STRING) /\ x.ambr \in Optional(STRING)
        /\ y.prio \in Optional(STRING) /\ y.app \in Optional(STRING) /\ y.ambr \in Optional(STRING)
    BY <2>1 DEF IsServiceInfo
  <2>6. Valued(OptPatch("mbsSdfResPrio", x.prio, y.prio))
    BY <2>2, <2>5, OptValued DEF InfoGrows
  <2>7. Valued(AppPatch(x.app, y.app))
    BY <2>2, <2>5, OptValued, ItemsValued DEF InfoGrows, AppPatch
  <2>8. Valued(OptPatch("mbsSessionAmbr", x.ambr, y.ambr))
    BY <2>2, <2>5, OptValued DEF InfoGrows
  <2> QED BY <2>3, <2>4, <2>6, <2>7, <2>8, PrefixValued, JoinValued
<1> QED BY <1>1, <1>2
AreaGrows(x, y) ==
    /\ Lasting(x.tais, y.tais)
    /\ Lasting(Tais(x.ncgiTais), Tais(y.ncgiTais))

LEMMA TaisOf ==
    ASSUME NEW list \in Seq(NcgiTaiType)
    PROVE  /\ Len(Tais(list)) = Len(list)
           /\ Len(list) > 0 => Tais(list)[1] = list[1].tai
  BY DEF Tais, Mapped

LEMMA AreaValued ==
    ASSUME NEW a \in Optional(AreaType), NEW b \in Optional(AreaType), Len(a) <= Len(b),
           Both(a, b, AreaGrows)
    PROVE  Valued(AreaPatch(a, b))
<1>1. CASE Len(a) = 0
  <2> DEFINE docs == Mapped(b, AreaDoc)
  <2>1. AreaPatch(a, b) = [i \in DOMAIN docs |-> AddItem(<<>>, docs[i])]
    BY <1>1 DEF AreaPatch, StructPatch, Mapped
  <2>2. DOMAIN docs = DOMAIN b /\ b \in Seq(AreaType)
    BY DEF Mapped, Optional
  <2> HIDE DEF docs
  <2> QED BY <2>1, <2>2, WholeValued
<1>2. CASE Len(a) # 0
  <2> DEFINE x == a[1]
             y == b[1]
  <2>1. Len(a) = 1 /\ Len(b) = 1 /\ x \in AreaType /\ y \in AreaType
    <3>1. a \in Seq(AreaType) /\ b \in Seq(AreaType) /\ Len(a) <= 1 /\ Len(b) <= 1
      BY DEF Optional
    <3>2. Len(a) = 1 /\ Len(b) = 1
      BY <1>2, <3>1
    <3> QED BY <3>1, <3>2, FirstIn
  <2>2. AreaGrows(x, y)
    BY <2>1 DEF Both
  <2>3. AreaPatch(a, b) =
          AppendList(NcgiTaisPatch(x.ncgiTais, y.ncgiTais), "ncgiList")
          \o AppendList(TaisPatch(x.tais, y.tais), "taiList")
    BY <2>1 DEF AreaPatch, StructPatch
  <2> HIDE DEF x, y
  <2>4. /\ x.ncgiTais \in Seq(NcgiTaiType) /\ y.ncgiTais \in Seq(NcgiTaiType)
        /\ x.tais \in Seq(TaiType) /\ y.tais \in Seq(TaiType)
    BY <2>1 DEF AreaType
  <2>5. Valued(NcgiTaisPatch(x.ncgiTais, y.ncgiTais))
    <3>1. Len(x.ncgiTais) > Len(y.ncgiTais)
            => Len(y.ncgiTais) > 0 /\ x.ncgiTais[1].tai # y.ncgiTais[1].tai
      <4>1. \A list \in Seq(NcgiTaiType) :
              Len(list) \in Nat /\ Len(Tais(list)) = Len(list)
                /\ (Len(list) > 0 => Tais(list)[1] = list[1].tai)
        BY TaisOf
      <4>2. Lasting(Tais(x.ncgiTais), Tais(y.ncgiTais))
        BY <2>2 DEF AreaGrows
      <4> DEFINE v == x.ncgiTais
                 w == y.ncgiTais
      <4>3. v \in Seq(NcgiTaiType) /\ w \in Seq(NcgiTaiType)
        BY <2>4
      <4>4. Len(Tais(v)) > Len(Tais(w)) => Len(Tais(w)) > 0 /\ Tais(v)[1] # Tais(w)[1]
        BY <4>2 DEF Lasting
      <4> HIDE DEF v, w
      <4>5. Len(v) > Len(w) => Len(w) > 0 /\ v[1].tai # w[1].tai
        BY <4>1, <4>3, <4>4
      <4> QED BY <4>5 DEF v, w
    <3> QED BY <2>4, <3>1, NcgiTaisValued
  <2>6. Valued(TaisPatch(x.tais, y.tais))
    BY <2>2, <2>4, TaisValued DEF AreaGrows, Lasting
  <2> QED BY <2>3, <2>5, <2>6, PrefixValued, JoinValued
<1> QED BY <1>1, <1>2

ExtAreaGrows(x, y) == Len(x.geos) = 0 /\ Len(x.civics) <= Len(y.civics)

LEMMA ExtAreaValued ==
    ASSUME NEW a \in Optional(ExtAreaType), NEW b \in Optional(ExtAreaType), Len(a) <= Len(b),
           Both(a, b, ExtAreaGrows)
    PROVE  Valued(ExtAreaPatch(a, b))
<1>1. CASE Len(a) = 0
  <2> DEFINE docs == Mapped(b, ExtAreaDoc)
  <2>1. ExtAreaPatch(a, b) = [i \in DOMAIN docs |-> AddItem(<<>>, docs[i])]
    BY <1>1 DEF ExtAreaPatch, StructPatch, Mapped
  <2>2. DOMAIN docs = DOMAIN b /\ b \in Seq(ExtAreaType)
    BY DEF Mapped, Optional
  <2> HIDE DEF docs
  <2> QED BY <2>1, <2>2, WholeValued
<1>2. CASE Len(a) # 0
  <2> DEFINE x == a[1]
             y == b[1]
  <2>1. Len(a) = 1 /\ Len(b) = 1 /\ x \in ExtAreaType /\ y \in ExtAreaType
    <3>1. a \in Seq(ExtAreaType) /\ b \in Seq(ExtAreaType) /\ Len(a) <= 1 /\ Len(b) <= 1
      BY DEF Optional
    <3>2. Len(a) = 1 /\ Len(b) = 1
      BY <1>2, <3>1
    <3> QED BY <3>1, <3>2, FirstIn
  <2>2. ExtAreaGrows(x, y)
    BY <2>1 DEF Both
  <2>3. ExtAreaPatch(a, b) =
          AppendList(GeosPatch(x.geos, y.geos), "geographicAreaList")
          \o AppendList(CivicsPatch(x.civics, y.civics), "civicAddressList")
    BY <2>1 DEF ExtAreaPatch, StructPatch
  <2> HIDE DEF x, y
  <2>4. /\ x.geos \in Seq(PointType) /\ y.geos \in Seq(PointType)
        /\ x.civics \in Seq(CivicType) /\ y.civics \in Seq(CivicType)
    BY <2>1 DEF ExtAreaType
  <2>5. Len(x.geos) <= Len(y.geos)
    <3>1. Len(y.geos) \in Nat
      BY <2>4
    <3>2. Len(x.geos) = 0
      BY <2>2 DEF ExtAreaGrows
    <3> QED BY <3>1, <3>2
  <2>6. Valued(GeosPatch(x.geos, y.geos))
    BY <2>4, <2>5, GeosValued
  <2>7. Valued(CivicsPatch(x.civics, y.civics))
    BY <2>2, <2>4, CivicsValued DEF ExtAreaGrows
  <2> QED BY <2>3, <2>6, <2>7, PrefixValued, JoinValued
<1> QED BY <1>1, <1>2

(* A session in place of its copy, with nothing removed. *)
SessionGrows(a, b) ==
    /\ Len(a.area) <= Len(b.area) /\ Both(a.area, b.area, AreaGrows)
    /\ Len(a.ext) <= Len(b.ext) /\ Both(a.ext, b.ext, ExtAreaGrows)
    /\ Len(a.info) <= Len(b.info) /\ Both(a.info, b.info, InfoGrows)
    /\ a.type = "broadcast" => Len(a.fsas) <= Len(b.fsas)

LEMMA FieldsOf ==
    ASSUME NEW s, IsSession(s)
    PROVE  /\ s.area \in Optional(AreaType)
           /\ s.ext \in Optional(ExtAreaType)
           /\ s.status \in Optional(STRING)
           /\ s.fsas \in Seq(STRING)
           /\ IsInfo(s.info)
           /\ s.type \in {"broadcast", "multicast"}
  BY DEF IsSession, FieldOf, FieldNames, IsInfo

LEMMA StatusSound ==
    ASSUME NEW a, NEW b
    PROVE  Sound(OptPatch("activityStatus", a, b))
<1>1. RemoveItem(<<Member("activityStatus")>>) # Fault
  BY DEF RemoveItem, Fault, Item
<1>2. Sound(<<RemoveItem(<<Member("activityStatus")>>)>>)
  <2> DEFINE item == RemoveItem(<<Member("activityStatus")>>)
             S == {item}
  <2>1. item \in S /\ Fault \notin S
    BY <1>1
  <2> HIDE DEF S, item
  <2>2. <<item>> \in Seq(S)
    BY <2>1
  <2> QED BY <2>1, <2>2 DEF Sound, item
<1> QED BY <1>2, ItemsValued, ValuedSound DEF OptPatch

LEMMA PatchSound ==
    ASSUME NEW a, IsSession(a), NEW b, IsSession(b), SessionGrows(a, b)
    PROVE  Sound(PublicPatch(a, b))
<1>1. Valued(AppendList(AreaPatch(a.area, b.area), "mbsServiceArea"))
  BY FieldsOf, AreaValued, PrefixValued DEF SessionGrows
<1>2. Valued(AppendList(ExtAreaPatch(a.ext, b.ext), "extMbsServiceArea"))
  BY FieldsOf, ExtAreaValued, PrefixValued DEF SessionGrows
<1>3. Valued(AppendList(ServiceInfoPatch(a.info, b.info), "mbsServInfo"))
  BY FieldsOf, ServiceInfoValued, PrefixValued DEF SessionGrows
<1>4. a.type = "broadcast" => Valued(AppendList(FsasPatch(a.fsas, b.fsas), "mbsFsaIdList"))
  BY FieldsOf, FsasValued, PrefixValued DEF SessionGrows
<1>5. Valued(LeafPatch("contactPcfInd", a.contact, b.contact))
  BY LeafValued
<1> QED BY <1>1, <1>2, <1>3, <1>4, <1>5, ValuedSound, JoinSound, StatusSound DEF PublicPatch
(* The copy has as many entries as the session it was made of. *)
LEMMA KeptOfCopy ==
    ASSUME NEW w, IsSession(w), Untimed(w), NEW s, IsSession(s), Kept(w, s)
    PROVE  SessionGrows(PublicCopy(w), s)
<1> DEFINE a == PublicCopy(w)
<1>1. /\ a.type = w.type /\ a.area = Mapped(w.area, AreaCopy) /\ a.ext = Mapped(w.ext, ExtAreaCopy)
      /\ a.info = Mapped(w.info, ServiceInfoCopy) /\ a.fsas = FsasCopy(w.fsas)
  BY DEF PublicCopy, IsSession, FieldNames
<1>2. /\ w.area \in Seq(AreaType) /\ w.ext \in Seq(ExtAreaType) /\ IsInfo(w.info)
      /\ w.fsas \in Seq(STRING) /\ w.type \in {"broadcast", "multicast"}
  BY FieldsOf DEF Optional
<1> HIDE DEF a
<1>3. /\ Len(a.area) = Len(w.area) /\ Len(a.ext) = Len(w.ext) /\ a.fsas = w.fsas
  BY <1>1, <1>2, FsasCopied DEF Mapped
<1>4. Len(a.info) = Len(w.info) /\ (Len(a.info) = 1 => a.info[1] = ServiceInfoCopy(w.info[1]))
  BY <1>1, <1>2 DEF Mapped, IsInfo
<1>5. Both(a.area, s.area, AreaGrows)
  <2> SUFFICES ASSUME Len(a.area) = 1, Len(s.area) = 1 PROVE AreaGrows(a.area[1], s.area[1])
    BY DEF Both
  <2> DEFINE x == w.area[1]
             y == s.area[1]
  <2>1. a.area[1] = AreaCopy(x) /\ x \in AreaType
    BY <1>1, <1>2, <1>3, FirstIn DEF Mapped
  <2>2. Lasting(x.tais, y.tais) /\ Lasting(Tais(x.ncgiTais), Tais(y.ncgiTais))
    BY <1>3 DEF Kept, Both
  <2> HIDE DEF x, y
  <2>3. AreaCopy(x).tais = x.tais
    BY <2>1, TaisCopied DEF AreaCopy, AreaType
  <2>4. Tais(AreaCopy(x).ncgiTais) = Tais(x.ncgiTais)
    <3>1. x.ncgiTais \in Seq(NcgiTaiType)
      BY <2>1 DEF AreaType
    <3>2. \A t \in NcgiTaiType : NcgiTaiCopy(t).tai = t.tai
      BY TaiCopied DEF NcgiTaiType, NcgiTaiCopy
    <3>3. AreaCopy(x).ncgiTais = Mapped(x.ncgiTais, NcgiTaiCopy)
      BY DEF AreaCopy
    <3> QED BY <3>1, <3>2, <3>3 DEF Tais, Mapped
  <2> QED BY <2>1, <2>2, <2>3, <2>4 DEF AreaGrows, y
<1>6. Both(a.ext, s.ext, ExtAreaGrows)
  <2> SUFFICES ASSUME Len(a.ext) = 1, Len(s.ext) = 1 PROVE ExtAreaGrows(a.ext[1], s.ext[1])
    BY DEF Both
  <2> DEFINE x == w.ext[1]
             y == s.ext[1]
  <2>1. a.ext[1] = ExtAreaCopy(x) /\ x \in ExtAreaType
    BY <1>1, <1>2, <1>3, FirstIn DEF Mapped
  <2>2. Len(x.civics) <= Len(y.civics) /\ Len(x.geos) = 0
    <3>1. Len(w.ext) = 1 /\ 1 \in DOMAIN w.ext
      BY <1>2, <1>3
    <3>2. Len(x.geos) = 0
      BY <3>1 DEF Untimed
    <3> QED BY <3>1, <3>2 DEF Kept, Both
  <2> HIDE DEF x, y
  <2>3. ExtAreaCopy(x).civics = x.civics
    BY <2>1, CivicsCopied DEF ExtAreaCopy, ExtAreaType
  <2>4. Len(ExtAreaCopy(x).geos) = 0
    <3>1. x.geos = <<>>
      BY <2>1, <2>2 DEF ExtAreaType
    <3>2. GeosCopy(<<>>) = <<>>
      BY DEF GeosCopy, Mapped
    <3> QED BY <3>1, <3>2 DEF ExtAreaCopy
  <2> QED BY <2>1, <2>2, <2>3, <2>4 DEF ExtAreaGrows, y
<1>7. Both(a.info, s.info, InfoGrows)
  <2> SUFFICES ASSUME Len(a.info) = 1, Len(s.info) = 1 PROVE InfoGrows(a.info[1], s.info[1])
    BY DEF Both
  <2> DEFINE x == w.info[1]
             y == s.info[1]
             c == ServiceInfoCopy(x)
  <2>1. Len(w.info) = 1 /\ a.info[1] = c
    BY <1>4
  <2>2. IsServiceInfo(x)
    <3>1. w.info # <<>>
      BY <2>1
    <3> QED BY <1>2, <3>1 DEF IsInfo
  <2>3. IsServiceInfo(y)
    <3>1. s.info # <<>>
      OBVIOUS
    <3> QED BY <3>1, FieldsOf DEF IsInfo
  <2>4. /\ x.comps # <<>> => DOMAIN x.comps = DOMAIN y.comps
        /\ \A f \in {"prio", "app", "ambr"} : Len(x[f]) <= Len(y[f])
    BY <2>1 DEF Kept, Both
  <2>5. \A n \in DOMAIN x.comps \cap DOMAIN y.comps :
          LET v == x.comps[n]
              u == y.comps[n]
          IN /\ \A f \in {"flows", "prio", "media", "qosRef", "qos"} : Len(v[f]) <= Len(u[f])
             /\ Both(v.media, u.media,
                     LAMBDA p, q : /\ Len(Codecs(p)) <= Len(Codecs(q))
                                   /\ \A f \in {"type", "maxBw", "minBw"} : Len(p[f]) <= Len(q[f]))
             /\ Both(v.qos, u.qos,
                     LAMBDA p, q : \A f \in {"guarBitRate", "maxBitRate", "arp"} :
                                      Len(p[f]) <= Len(q[f]))
    BY <2>1 DEF Kept, CommonComps, Both
  <2> HIDE DEF x, y
  <2>6. /\ c.comps = [n \in DOMAIN x.comps |-> CompCopy(x.comps[n])]
        /\ c.prio = x.prio /\ c.app = x.app /\ c.ambr = x.ambr
    BY <2>2 DEF ServiceInfoCopy, IsServiceInfo
  <2> HIDE DEF c
  <2>7. DOMAIN c.comps # {} => DOMAIN c.comps = DOMAIN y.comps
    <3>1. DOMAIN <<>> = {}
      OBVIOUS
    <3> QED BY <2>4, <2>6, <3>1
  <2>8. ASSUME NEW n \in DOMAIN c.comps PROVE CompGrows(c.comps[n], y.comps[n])
    <3> DEFINE v == x.comps[n]
               u == y.comps[n]
    <3>1. /\ n \in DOMAIN x.comps \cap DOMAIN y.comps /\ c.comps[n] = CompCopy(v)
          /\ v \in CompType /\ u \in CompType
      BY <2>2, <2>3, <2>6, <2>7 DEF IsServiceInfo
    <3>2. /\ \A f \in {"flows", "prio", "media", "qosRef", "qos"} : Len(v[f]) <= Len(u[f])
          /\ Len(v.media) = 1 /\ Len(u.media) = 1 => MediaGrows(v.media[1], u.media[1])
          /\ Len(v.qos) = 1 /\ Len(u.qos) = 1 => QosGrows(v.qos[1], u.qos[1])
      BY <2>5, <3>1 DEF Both, MediaGrows, QosGrows
    <3> HIDE DEF v, u
    <3>3. /\ v.media \in Seq(MediaInfoType) /\ v.qos \in Seq(QosReqType) /\ v.flows \in Seq(STRING)
      BY <3>1 DEF CompType, Optional
    <3>4. /\ CompCopy(v).prio = v.prio /\ CompCopy(v).qosRef = v.qosRef
          /\ CompCopy(v).flows = v.flows
          /\ CompCopy(v).media = Mapped(v.media, MediaInfoCopy)
          /\ CompCopy(v).qos = Mapped(v.qos, QosReqCopy)
      BY <3>1, <3>3, FlowsCopied DEF CompCopy, CompType
    <3>5. Mapped(v.qos, QosReqCopy) = v.qos
      BY <3>3, QosReqCopied DEF Mapped
    <3>6. /\ Len(CompCopy(v).media) = Len(v.media)
          /\ Len(v.media) = 1 => CompCopy(v).media[1] = MediaInfoCopy(v.media[1])
      BY <3>3, <3>4 DEF Mapped
    <3>7. \A p \in MediaInfoType : \A q : MediaGrows(p, q) => MediaGrows(MediaInfoCopy(p), q)
      BY CodecsCopied DEF MediaGrows, MediaInfoCopy, MediaInfoType
    <3>8. Both(CompCopy(v).media, u.media, MediaGrows)
      BY <3>2, <3>3, <3>6, <3>7, FirstIn DEF Both
    <3>9. Both(CompCopy(v).qos, u.qos, QosGrows)
      BY <3>2, <3>4, <3>5 DEF Both
    <3> QED BY <3>1, <3>2, <3>4, <3>5, <3>6, <3>8, <3>9 DEF CompGrows, u
  <2> QED BY <2>1, <2>4, <2>6, <2>7, <2>8 DEF InfoGrows, y
<1> QED BY <1>1, <1>2, <1>3, <1>4, <1>5, <1>6, <1>7 DEF SessionGrows, Kept, a
LEMMA CopyHeld ==
    ASSUME "untimed" \in Rules, IInv, phase \in {"created", "updating", "updated", "refused"}
    PROVE  /\ was # <<>> /\ prev[1] = PublicCopy(was[1])
           /\ IsSession(was[1]) /\ IsSession(sess) /\ Untimed(was[1])
<1>1. was # <<>> /\ prev = <<PublicCopy(was[1])>>
  BY DEF IInv, Phased
<1>2. prev[1] = PublicCopy(was[1])
  BY <1>1
<1>3. Untimed(was[1])
  BY <1>1 DEF IInv, Phased
<1>4. IsSession(was[1]) /\ IsSession(sess)
  BY <1>1 DEF IInv, TypeOK
<1> QED BY <1>1, <1>2, <1>3, <1>4

LEMMA PushUpdateSafe ==
    ASSUME {"untimed", "kept"} \subseteq Rules, IInv, NoFault, PushUpdate
    PROVE  NoFault'
<1>1. /\ phase \in {"created", "updated"}
      /\ Kept(was[1], sess)
  BY DEF PushUpdate, MayPush
<1>2. /\ was # <<>> /\ prev[1] = PublicCopy(was[1])
      /\ IsSession(was[1]) /\ IsSession(sess) /\ Untimed(was[1])
  BY <1>1, CopyHeld
<1>3. IsSession(prev[1]) /\ SessionGrows(prev[1], sess)
  BY <1>1, <1>2, CopyTyped, KeptOfCopy
<1>4. ~Contains(Changes, Fault)
  BY <1>2, <1>3, PatchSound, SoundFaultless DEF Changes
<1> QED BY <1>4 DEF PushUpdate, NoFault

LEMMA DeleteSafe ==
    ASSUME "untimed" \in Rules, IInv, NoFault, Delete
    PROVE  NoFault'
<1>1. was # <<>> /\ prev[1] = PublicCopy(was[1]) /\ Untimed(was[1]) /\ IsSession(was[1])
  BY CopyHeld DEF Delete
<1>2. PublicCopy(was[1]).start = was[1].start
  BY <1>1 DEF PublicCopy, IsSession, FieldNames
<1>3. ~SharesTime
  BY <1>1, <1>2 DEF Untimed, SharesTime
<1> QED BY <1>3 DEF Delete, NoFault

(* No patch list runs into a null pointer and no memory is freed twice: a     *)
(* removal is never put under a prefix, no media component is new, and the    *)
(* start time is not shared by a session and its copy. For an application     *)
(* that removes nothing and sets no times.                                    *)
THEOREM UpdateSafe ==
    ASSUME {"untimed", "kept"} \subseteq Rules
    PROVE  Spec => []NoFault
<1>1. Init => NoFault
  BY DEF Init, NoFault
<1>2. IInv /\ NoFault /\ [Next]_vars => NoFault'
  <2> SUFFICES ASSUME IInv, NoFault, [Next]_vars PROVE NoFault'
    OBVIOUS
  <2>1. CASE PushUpdate
    BY <2>1, PushUpdateSafe
  <2>2. CASE Delete
    BY <2>2, DeleteSafe
  <2>3. CASE UNCHANGED fault
    BY <2>3 DEF NoFault
  <2> QED BY <2>1, <2>2, <2>3 DEF Next, SetField, PushCreate, CreateAccepted, PushNothing,
                              UpdateAccepted, UpdateRefused, Restart, vars
<1> QED BY <1>1, <1>2, Invariance, PTL DEF Spec
=============================================================================

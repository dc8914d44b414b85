--------------------------- MODULE SessionUpdate ---------------------------
(***************************************************************************)
(* The update of an MBS Session: the application fills in the fields of a  *)
(* session, has it created at the MB-SMF, changes fields and pushes the    *)
(* changes.  The library keeps a copy of the session as it was when the    *)
(* creation was accepted, compares the session with it and sends a PATCH   *)
(* with the differences.  How requests and answers meet is the subject of  *)
(* MbsSession; here there is one session and the question is whether the   *)
(* MB-SMF comes to hold what the application asked for.                    *)
(*                                                                         *)
(* The fields that are never sent in an update are represented by the DNN. *)
(***************************************************************************)
EXTENDS SessionFields

CONSTANTS
    Bases,    \* the sessions that the application starts from
    Values,   \* for each field the values that the application may give it
    MaxEdits, \* bound on the fields set before, and on those set after the creation
    Rules     \* what the application keeps to, see MayCreate and MayPush

ASSUME RulesAssumption ==
    Rules \subseteq {"waits", "once", "noticed", "expressible", "kept", "untimed"}

ASSUME MaxEditsAssumption == MaxEdits \in Nat \ {0}

VARIABLES
    sess,   \* the fields of the session
    prev,   \* the library's copy of them (optional)
    doc,    \* what the MB-SMF holds of the session (optional)
    sent,   \* the items of the PATCH in flight
    phase,  \* where the session stands, see Phases
    was,    \* the fields when the creation was accepted (optional)
    edits,  \* how many fields were set since the last push
    fault   \* what the program ran into

vars == <<sess, prev, doc, sent, phase, was, edits, fault>>

Phases == {"new", "creating", "created", "updating", "updated", "refused", "gone"}

FieldNames == {"dnn", "contact", "area", "ext", "start", "term", "info", "status",
               "fsas", "assoc"}

(***************************************************************************)
(* The session as a whole.                                                 *)
(***************************************************************************)
\* The values of a field.
FieldOf(f, v) ==
    /\ f \in {"dnn", "contact"} => v \in STRING
    /\ f = "area" => v \in Optional(AreaType)
    /\ f = "ext" => v \in Optional(ExtAreaType)
    /\ f = "info" => v = <<>> \/ (v = <<v[1]>> /\ IsServiceInfo(v[1]))
    /\ f \in {"start", "term", "status", "assoc"} => v \in Optional(STRING)
    /\ f = "fsas" => v \in Seq(STRING)

IsSession(s) ==
    /\ s = [f \in FieldNames \cup {"type"} |-> s[f]]
    /\ s.type \in {"broadcast", "multicast"}
    /\ \A f \in FieldNames : FieldOf(f, s[f])

\* The start time is copied by address; the termination time of the copy is
\* assigned to itself and stays NULL.
PublicCopy(s) ==
    [s EXCEPT !.area = Mapped(@, AreaCopy), !.ext = Mapped(@, ExtAreaCopy),
              !.term = <<>>, !.info = Mapped(@, ServiceInfoCopy), !.fsas = FsasCopy(@)]

\* SSM addresses of no known family are never equal.
SsmEqual(a, b) == a # "none" /\ a = b

PublicEqual(a, b) ==
    /\ \A f \in {"type", "dnn", "contact", "start", "term", "status"} : a[f] = b[f]
    /\ OptEqual(a.area, b.area, AreaEqual)
    /\ OptEqual(a.ext, b.ext, ExtAreaEqual)
    /\ OptEqual(a.info, b.info, ServiceInfoEqual)
    /\ OptEqual(a.assoc, b.assoc, SsmEqual)
    /\ FsasEqual(a.fsas, b.fsas)

PublicPatch(a, b) ==
    LeafPatch("contactPcfInd", a.contact, b.contact)
    \o AppendList(AreaPatch(a.area, b.area), "mbsServiceArea")
    \o AppendList(ExtAreaPatch(a.ext, b.ext), "extMbsServiceArea")
    \o AppendList(ServiceInfoPatch(a.info, b.info), "mbsServInfo")
    \o IF a.type = "broadcast"
       THEN AppendList(FsasPatch(a.fsas, b.fsas), "mbsFsaIdList")
       ELSE OptPatch("activityStatus", a.status, b.status)

\* The body of the creation.  An area without entries is left out, and
\* contactPcfInd is for updates only.
SessionDoc(s) ==
    Obj([dnn |-> <<s.dnn>>,
         mbsServiceArea |->
             IF \E i \in DOMAIN s.area : Len(s.area[i].ncgiTais) + Len(s.area[i].tais) = 0
             THEN <<>> ELSE Mapped(s.area, AreaDoc),
         extMbsServiceArea |->
             IF \E i \in DOMAIN s.ext : Len(s.ext[i].geos) + Len(s.ext[i].civics) = 0
             THEN <<>> ELSE Mapped(s.ext, ExtAreaDoc),
         mbsServInfo |-> Mapped(s.info, ServiceInfoDoc),
         activityStatus |-> s.status,
         mbsFsaIdList |-> NonEmpty(FsasDoc(s.fsas))])

(***************************************************************************)
(* What the application refrains from.                                     *)
(***************************************************************************)
Both(a, b, P(_, _)) == Len(a) = 1 /\ Len(b) = 1 => P(a[1], b[1])

CommonComps(a, b, P(_, _)) ==
    Both(a.info, b.info,
         LAMBDA x, y : \A n \in DOMAIN x.comps \cap DOMAIN y.comps : P(x.comps[n], y.comps[n]))

\* The same entries in another order.
Reordered(a, b) == a # b /\ SameEntries(a, b, LAMBDA x, y : x = y)

Tais(list) == Mapped(list, LAMBDA v : v.tai)

\* No change that the comparisons overlook: of an order, of the cells of a
\* tracking area, of a bandwidth or of a flow description.
Noticed(a, b) ==
    /\ Both(a.area, b.area,
            LAMBDA x, y : /\ ~Reordered(x.tais, y.tais)
                          /\ ~Reordered(Tais(x.ncgiTais), Tais(y.ncgiTais))
                          /\ \A i \in DOMAIN x.ncgiTais \cap DOMAIN y.ncgiTais :
                                x.ncgiTais[i].tai = y.ncgiTais[i].tai
                                  => x.ncgiTais[i] = y.ncgiTais[i])
    /\ Both(a.ext, b.ext, LAMBDA x, y : ~Reordered(x.civics, y.civics))
    /\ CommonComps(a, b,
            LAMBDA x, y : /\ Len(x.flows) = Len(y.flows) => x.flows = y.flows
                          /\ Both(x.media, y.media,
                                  LAMBDA v, w : /\ Both(v.maxBw, w.maxBw, LAMBDA m, n : m = n)
                                                /\ Both(v.minBw, w.minBw, LAMBDA m, n : m = n)
                                                /\ ~Reordered(Codecs(v), Codecs(w))))

Filled(s) ==
    /\ \A i \in DOMAIN s.area : Len(s.area[i].tais) + Len(s.area[i].ncgiTais) > 0
    /\ \A i \in DOMAIN s.ext : Len(s.ext[i].civics) > 0

OneOfThree(s) ==
    \A i \in DOMAIN s.info : \A n \in DOMAIN s.info[i].comps :
        LET comp == s.info[i].comps[n] IN Len(comp.media) + Len(comp.qosRef) + Len(comp.qos) <= 1

\* No change that the patches get wrong: of the contact indicator, of a
\* 5QI, an ARP or a QoS reference in place, first codecs for known media information,
\* areas without entries, geographic areas in a new external area, and more
\* than one description of the QoS of a component.
Expressible(a, b) ==
    /\ a.contact = b.contact
    /\ Filled(b) /\ OneOfThree(b)
    /\ Len(a.ext) = 0 => \A i \in DOMAIN b.ext : Len(b.ext[i].geos) = 0
    /\ CommonComps(a, b,
            LAMBDA x, y : /\ Both(x.qosRef, y.qosRef, LAMBDA v, w : v = w)
                          /\ Both(x.qos, y.qos, LAMBDA v, w : v.arp = w.arp /\ v.fiveQi = w.fiveQi)
                          /\ Both(x.media, y.media,
                                  LAMBDA v, w : Codecs(v) = <<>> => Codecs(w) = <<>>))

\* A list of areas that is replaced whole may become shorter.
Lasting(a, b) == Len(a) > Len(b) => Len(b) > 0 /\ a[1] # b[1]

\* No removal of a part, and no second media component.
Kept(a, b) ==
    /\ Len(a.area) <= Len(b.area)
    /\ Both(a.area, b.area, LAMBDA x, y : /\ Lasting(x.tais, y.tais)
                                          /\ Lasting(Tais(x.ncgiTais), Tais(y.ncgiTais)))
    /\ Len(a.ext) <= Len(b.ext)
    /\ Both(a.ext, b.ext, LAMBDA x, y : Len(x.civics) <= Len(y.civics))
    /\ Len(a.fsas) <= Len(b.fsas) \/ a.type = "multicast"
    /\ Len(a.info) <= Len(b.info)
    /\ Both(a.info, b.info,
            LAMBDA x, y : /\ x.comps # <<>> => DOMAIN x.comps = DOMAIN y.comps
                          /\ \A f \in {"prio", "app", "ambr"} : Len(x[f]) <= Len(y[f]))
    /\ CommonComps(a, b,
            LAMBDA x, y : \A f \in {"flows", "prio", "media", "qosRef", "qos"} :
                              Len(x[f]) <= Len(y[f]))
    /\ CommonComps(a, b,
            LAMBDA x, y : /\ Both(x.media, y.media,
                                  LAMBDA v, w : /\ Len(Codecs(v)) <= Len(Codecs(w))
                                                /\ \A f \in {"type", "maxBw", "minBw"} :
                                                      Len(v[f]) <= Len(w[f]))
                          /\ Both(x.qos, y.qos,
                                  LAMBDA v, w : \A f \in {"guarBitRate", "maxBitRate", "arp"} :
                                                    Len(v[f]) <= Len(w[f])))

\* No field that the copy shares or loses.
Untimed(s) ==
    /\ s.start = <<>> /\ s.term = <<>> /\ s.assoc # <<"none">>
    /\ \A i \in DOMAIN s.ext : Len(s.ext[i].geos) = 0

MayCreate(s) ==
    /\ "untimed" \in Rules => Untimed(s)
    /\ "expressible" \in Rules => Filled(s) /\ OneOfThree(s)

\* The sessions that the application starts from are of the right types and
\* keep to the rules, and the values that it gives to fields are of their types.
ASSUME BasesAssumption == \A s \in Bases : IsSession(s) /\ MayCreate(s)

ASSUME ValuesAssumption == \A f \in FieldNames : \A v \in Values[f] : FieldOf(f, v)

MayPush ==
    /\ "noticed" \in Rules => Noticed(was[1], sess)
    /\ "expressible" \in Rules => Expressible(was[1], sess)
    /\ "kept" \in Rules => Kept(was[1], sess)

-----------------------------------------------------------------------------
Init ==
    /\ sess \in Bases
    /\ prev = <<>> /\ doc = <<>> /\ sent = <<>> /\ was = <<>>
    /\ phase = "new"
    /\ edits = 0
    /\ fault = "none"

\* The application sets a field of the session.
SetField(f, v) ==
    /\ phase \in {"new", "created"}
          \cup (IF "once" \in Rules THEN {} ELSE {"updated"})
          \cup (IF "waits" \in Rules THEN {} ELSE {"creating"})
    /\ edits < MaxEdits
    /\ sess[f] # v
    /\ sess' = [sess EXCEPT ![f] = v]
    /\ phase \in {"new", "creating"} => MayCreate(sess')
    /\ edits' = edits + 1
    /\ UNCHANGED <<prev, doc, sent, phase, was, fault>>

\* _mbs_session_push_changes without a copy: the session is created.
PushCreate ==
    /\ phase = "new"
    /\ doc' = <<SessionDoc(sess)>>
    /\ phase' = "creating"
    /\ edits' = 0
    /\ UNCHANGED <<sess, prev, sent, was, fault>>

\* The creation is accepted: the fields of now are copied.
CreateAccepted ==
    /\ phase = "creating"
    /\ prev' = <<PublicCopy(sess)>>
    /\ was' = <<sess>>
    /\ phase' = "created"
    /\ UNCHANGED <<sess, doc, sent, edits, fault>>

Changes == PublicPatch(prev[1], sess)

\* A push that finds no difference sends nothing.
PushNothing ==
    /\ phase \in {"created", "updated"} /\ MayPush
    /\ PublicEqual(prev[1], sess)
    /\ edits' = 0
    /\ UNCHANGED <<sess, prev, doc, sent, phase, was, fault>>

\* A push that finds one sends the patch list.
PushUpdate ==
    /\ phase \in {"created"} \cup (IF "once" \in Rules THEN {} ELSE {"updated"})
    /\ MayPush
    /\ ~PublicEqual(prev[1], sess)
    /\ LET failed == Contains(Changes, Fault)
       IN /\ fault' = IF failed THEN "null pointer" ELSE fault
          /\ phase' = IF failed THEN "gone" ELSE "updating"
          /\ sent' = IF failed THEN sent ELSE Changes
    /\ edits' = 0
    /\ UNCHANGED <<sess, prev, doc, was>>

\* The MB-SMF carries the PATCH out; the copy is left as it was.
UpdateAccepted ==
    /\ phase = "updating"
    /\ Patched(doc[1], sent) # <<>>
    /\ doc' = Patched(doc[1], sent)
    /\ phase' = "updated"
    /\ sent' = <<>>
    /\ UNCHANGED <<sess, prev, was, edits, fault>>

\* The MB-SMF refuses the PATCH, or the answer is lost.
UpdateRefused ==
    /\ phase = "updating"
    /\ phase' = "refused"
    /\ sent' = <<>>
    /\ UNCHANGED <<sess, prev, doc, was, edits, fault>>

\* The start time is freed with the copy and again with the session.
SharesTime == prev # <<>> /\ prev[1].start # <<>> /\ prev[1].start = sess.start

\* The session is deleted, its removal is answered and it is freed.
Delete ==
    /\ phase \in {"created", "updated", "refused"}
    /\ phase' = "gone"
    /\ doc' = <<>>
    /\ prev' = <<>>
    /\ fault' = IF SharesTime THEN "double free" ELSE fault
    /\ UNCHANGED <<sess, sent, was, edits>>

\* The application starts over with another session.
Restart ==
    /\ phase = "gone" /\ fault = "none"
    /\ sess' \in Bases
    /\ phase' = "new"
    /\ edits' = 0
    /\ was' = <<>>
    /\ UNCHANGED <<prev, doc, sent, fault>>

Next ==
    \/ \E f \in FieldNames : \E v \in Values[f] : SetField(f, v)
    \/ PushCreate
    \/ CreateAccepted
    \/ PushNothing
    \/ PushUpdate
    \/ UpdateAccepted
    \/ UpdateRefused
    \/ Delete
    \/ Restart

Spec == Init /\ [][Next]_vars

-----------------------------------------------------------------------------
\* The state has the declared types; what the MB-SMF holds and what it is sent
\* are documents of any form.
TypeOK ==
    /\ IsSession(sess)
    /\ prev = <<>> \/ (prev = <<prev[1]>> /\ IsSession(prev[1]))
    /\ was = <<>> \/ (was = <<was[1]>> /\ IsSession(was[1]))
    /\ phase \in Phases
    /\ edits \in 0..MaxEdits
    /\ fault \in {"none", "null pointer", "double free"}

\* The attributes that an update may change, which depend on the service type.
Updatable(d) ==
    LET fixed == {"dnn"} \cup (IF sess.type = "broadcast" THEN {"activityStatus"}
                               ELSE {"mbsFsaIdList"})
    IN [n \in DOMAIN d \ fixed |-> d[n]]

\* The document of a session with the geographic areas that ExtAreaDoc leaves out.
Wanted(s) ==
    LET d == SessionDoc(s)
        geos == {"geographicAreaList"}
        All(ext) == [n \in DOMAIN ExtAreaDoc(ext) \cup IF ext.geos = <<>> THEN {} ELSE geos |->
                        IF n \in geos THEN GeosDoc(ext.geos) ELSE ExtAreaDoc(ext)[n]]
    IN [n \in DOMAIN d |-> IF n = "extMbsServiceArea" THEN All(s.ext[1]) ELSE d[n]]

\* As long as the application has changed nothing since the creation was
\* accepted, the comparison of _mbs_session_push_changes finds the session
\* and the copy of _mbs_session_public_copy equal, so that nothing is sent.
CopyFaithful ==
    phase = "created" /\ sess = was[1] => PublicEqual(prev[1], sess)

\* After a push that sent nothing or was accepted, the MB-SMF holds what the
\* application asked for: no comparison overlooks a change and every patch
\* list leads to the new value.
InSync ==
    phase \in {"created", "updated"} /\ edits = 0
      => Updatable(doc[1]) = Updatable(Wanted(sess))

\* Every item of a PATCH names a place that exists at the MB-SMF when its
\* turn comes, so that the update is not refused for its form.
PatchApplies == phase = "updating" => Patched(doc[1], sent) # <<>>

\* No null pointer is followed while a patch list is made and no memory is
\* freed twice.
NoFault == fault = "none"

Rooted(items) == [i \in DOMAIN items |-> [items[i] EXCEPT !.path = <<Member("list")>> \o @]]

Leads(a, b, Doc(_), items) ==
    Patched(Obj([list |-> NonEmpty(Mapped(a, Doc))]), Rooted(items))
      = <<Obj([list |-> NonEmpty(Mapped(b, Doc))])>>

\* Taken by itself, the patch of a list of ids, areas, addresses or flows
\* leads from the old list to the new one, removals included.
ListsPatched ==
    phase = "created" =>
        LET a == prev[1]
        IN /\ Leads(a.fsas, sess.fsas, FsaDoc, FsasPatch(a.fsas, sess.fsas))
           /\ Both(a.area, sess.area,
                   LAMBDA x, y : Leads(x.tais, y.tais, TaiDoc, TaisPatch(x.tais, y.tais)))
           /\ Both(a.ext, sess.ext,
                   LAMBDA x, y : /\ Leads(x.civics, y.civics, CivicDoc, CivicsPatch(x.civics, y.civics))
                                 /\ Leads(x.geos, y.geos, GeoDoc, GeosPatch(x.geos, y.geos)))
           /\ CommonComps(a, sess,
                   LAMBDA x, y : Leads(x.flows, y.flows, FlowDoc, FlowsPatch(x.flows, y.flows)))
=============================================================================

# Verification of the 5GC service consumer libraries

This directory holds TLA+ specifications of the service consumer libraries of this
repository (`lib/mb-smf-service-consumer`, `lib/bsf-service-consumer`,
`lib/pcf-service-consumer`), the TLC configurations that model-check them, and proofs
that TLAPS checks. `PROJECT.json` lists components, runs, mutants, the map from
definitions to source lines, hazards, findings and theorems.

## The system

Each library lets an application talk to one network function of a 5G core: the MB-SMF
(MBS sessions, TMGIs), the BSF (which PCF serves a UE) and the PCF (policy
authorization). A library has no threads of its own. The application runs the event loop
of Open5GS and hands every event to the library (`mb_smf_sc_process_event`,
`bsf_process_event`, `pcf_session_process_event`), which takes it or refuses it. An event
is a response to an HTTP request, the expiry of the timer of a request
(`OGS_TIMER_SBI_CLIENT_WAIT`), a request from the network function (a notification), or
an event the library queued for itself. A request is an *SBI transaction*
(`ogs_sbi_xact_t`): it belongs to an *sbi_object*, has a timer, and its id travels with the
events. When the address of the network function is not known the transaction first
discovers it through the NRF.

So one handler or one API call is one atomic step, and what is hard is the order of the
steps: the application edits and deletes its objects while requests are in flight,
answers are lost or come after the timer, and callbacks run in the middle of handlers.

### Inventory

| Component | State | Operations | What makes it correct |
|---|---|---|---|
| MBS session life cycle (`mbs-session.c`, `nmbsmf-mbs-session-*.c`) | public fields, last accepted copy, id, deleted flag, sbi_object | new, set fields, set TMGI, delete, push; create/update/remove responses, timers | a push sends what differs; a request is reported once; a deleted session is removed at the MB-SMF; no callback after `OGS_DONE` |
| Callback data (`mbs-session.c`) | three slots: function, data, free function | set one, set all, release, destroy | data is freed once and only when no slot holds it |
| MB-SMF context (`context.c`) | lists of sessions and TMGIs, notification server | add, remove, look up by sbi_object, correlation id or notification URL, parse configuration | only live objects are listed; lookups find the right one |
| Shared sbi_objects (`ref_count_sbi_object.h`) | reference count, transactions | new, ref, unref | no transaction outlives its object |
| Status subscriptions (`mbs-status-subscription.c`) | new list, active table, deleted list of a session | new, setters, delete; create/update/delete responses | a subscription is in one container; its id keys the table |
| Status notifications (`mb-smf-service-consumer.c`) | none | look up the subscription, call the application | a notification for a removed subscription is refused |
| TMGI allocation (`tmgi.c`, `nmbsmf-tmgi-*.c`) | TMGIs with id and callback | create, allocate, deallocate, free; match answers | ids are different and allocated; each grant reaches a TMGI that needs one |
| Field types (`arp.c`, `tai.c`, ...) | values | new, copy, equal, patch list, to OpenAPI | the patch list takes the old value to the new one; copies share nothing |
| BSF retrieval (`pcf-bind.c`, `bsf-client-sess.c`, `nbsf-process.c`, `local.c`) | sessions, transactions, local events | retrieve; local event, discovery, response, timer; terminate | a retrieval is answered once, with a binding of that UE |
| Bindings cache (`pcf-bindings-cache.c`, `utils.c`) | entries by UE with expiry | find, add, clear | no expired and no other UE's binding is served |
| BSF configuration (`context.c`, `bsf-configuration.c`) | BSF addresses, NF instance | parse, set | - |
| PCF client (`pcf-service-consumer.c`, `pcf-client*.c`, `npcf-process.c`, `pcf-handler.c`) | PCF sessions, application sessions, subscriptions, notification server | new, create/update/free application session, subscribe; responses, timers, notifications | an answer reaches the session it is for, and never a freed one |
| Tools (`tools/c/*/app-sm.c`, `init.c`) | state machines, event queue, two threads | drive the libraries, stop | nothing freed is used; a failure ends them |

Interactions: the MB-SMF session handlers use the context's lookups, the shared
sbi_objects and the callback slots; a session may share the sbi_object of a TMGI; a
subscription's requests use the session's object. The PCF tool first asks the BSF library
for the PCF of a UE and then opens a PCF session. The libraries share the NF instances of
Open5GS and nothing else.

## Modules

| Module | Models |
|---|---|
| `CallbackData` | the callback slots of one session |
| `BsfLookup` | abstract: what a binding retrieval promises |
| `BsfClient` | the BSF library: retrievals, cache, transactions, timers; refines `BsfLookup` |
| `MbsSession` | MBS sessions: application calls, pushes, discovery, responses, timers, shared sbi_objects |
| `MbsPromise` | abstract: what an application is promised about its sessions, refined by `MbsSession` |
| `StatusSubscription` | the subscriptions of MBS sessions: containers, requests, answers, notifications |
| `Tmgi` | TMGIs: the context's list and its links, allocations, deallocations, answers |
| `JsonPatch` | JSON documents, the library's patch items, and a peer that applies them |
| `SessionFields` | copy, comparison, document and patch list of every field type |
| `SessionUpdate` | a session that is created, edited and updated, built from `SessionFields` |
| `PcfClient` | the PCF library: PCF sessions, application sessions, requests, answers, notifications |
| `Tools` | the two threads and the state machines of the three tools |
| `*_proofs` | inductive invariants and theorems of the module they extend |
| `MC*` | the instances TLC checks |

The MB-SMF library is cut along its state: `MbsSession` has the life cycle of sessions and
takes fields as values and TMGIs as given; `SessionUpdate` opens the fields of one session;
`StatusSubscription` and `Tmgi` take the life cycle of a session from `MbsSession`, for an
application that waits for it, and open the subscriptions and the TMGIs. `Tools` composes
what the libraries report with the programs that use them.

### CallbackData

`slots.data[op]` and `slots.freefn[op]` are the pointer and free function of the three
callbacks, `slots.freed[d]` counts the calls of a free function on `d`. `Release` is
`_mbs_session_release_<op>_callback_data` (the pointer is freed unless one of the other two
slots holds it), `SetSlot` the setter that releases the old pointer first if it differs,
`SetAll` sets the three in the order of the code. The application passes only pointers that
are still allocated. `AppFree[d]` says whether it passes a free function with `d`: data that
always comes with one is never leaked; data passed sometimes with and sometimes without is
freed or not depending on which slot lets go last, and `NoLeak` says nothing of it.

### BsfClient

A retrieval `r` is a call of `bsf_retrieve_pcf_binding_for_pdu_session`. `sess[r]`, `xact[r]`
follow its client session and transaction; `localq` is the self-queued event, `wire` and
`events` are requests and responses in flight. Requests may never be answered and responses
may arrive after the timer. Time counts microseconds, scaled to `Second` ticks a second.

The cache is a set of entries, because its hash table is keyed by a pointer to the UE
address of the session that stored the entry, and that session is freed in the same
handler. Whether a later lookup still finds the entry depends on what is in that memory by
then: `Lookup` therefore returns any entry of the UE or none. It never returns another UE's
entry: the table also compares the stored hash, so that takes a collision of hashes
besides.

`BsfLookup` is the promise to the application: a retrieval is answered at most once, and
with a binding the BSF has held for that UE. `LookupSpec` maps `asked` to the retrievals with
a session or a callback, and `done` to those called back.

### MbsSession

`ses[s]` is `_priv_mbs_session_t`; the session's fields are abstracted to five: the SSM, the
TMGI, the TMGI request flag, `attr` for the fields a PATCH can change, and `term`, the
termination time. `prev` is `previous_session`. `New`, `SetAttr`, `SetSsm`, `SetTmgi`,
`UnsetTmgi`, `MarkDeleted`, `Push`, `PushAll` are the application's calls; `Requests` is the
decision of `_mbs_session_push_changes`. `xacts` are the transactions, each with the request
as it was built; `wire` and `responses` hold what is in flight; `remote` is what the MB-SMF
holds. The handlers of `mb_smf_sc_process_event` are one action per outcome.

An sbi_object is named after the session or TMGI that made it. `Held` says whether any
reference is left, and `Surviving` removes the transactions of objects that are not
(`ogs_sbi_xact_remove_all`). A granted TMGI that a session drops stays in the context with
its reference (`leaked`).

In the create callback the application may edit or delete the session, and the handler then
pushes what changed; this is part of `CreateAccepted`. `fault` records an assertion or a null
pointer, after which nothing more happens in the library.

What the application refrains from is the constant `Rules`: "wait" (push a session only when
none of its requests is outstanding), "created" (push a deletion only of a created session),
"keep" (do not change SSM or TMGI after the first push). The runs that need a rule say so; the
observations below show why each is needed.

`MbsPromise` is what the application may rely on (`PromiseSpec`): the MB-SMF takes a session once (`Take`) and
keeps it until the application deletes it (`Drop`), `OGS_OK` for a creation is reported while the MB-SMF
has the session (`TellCreated`), `OGS_DONE` when it has it no more (`TellDone`), and no creation after it.
The refinement maps `held` to what the MB-SMF holds for the session, `failed` to `lost` and the two
sets of reports to `reports`. For a session with a failed request the MB-SMF may have it or not (`Fail`), but the end
is still reported of deleted sessions only.

### StatusSubscription

`newl`, `active` and `dele` are the three containers of a session, `new_subscriptions`,
`active_subscriptions` and `deleted_subscriptions`. The table of active ones is a set of
entries `[key, sub]`, because the key is the id of the subscription by address and the code
may change the one without the other. `ses[s].table` says whether the session has a table at
all. A push (`PushSubscriptions`, `SubscriptionsUpdate`) asks for the new ones, then the
changed, then the deleted, all in one step; the creation of a session carries its first new subscription
(`PushCreateCarrying`), and the handler of the answer, which pushes as well, asks for it again
(`SessionCreated`). `remote` is what the MB-SMF holds, `posted` the notifications on their
way, each to the URL its resource was made with. A resource is named after the request that
made it, which the code never sees and `ToldToOwner` does. `sub[x].url` is the server and path of
a subscription; with `Fixed` all share the configured port and differ in the path, otherwise each
has a server of its own, whose port may be given again when it is freed.

The rules are in the module: "settled" (a subscription is changed, moved or removed only before
its request was sent or once it has its id), "unique" correlation ids, "emptied" (a session with
active subscriptions is not deleted), "tables" (a new session is given a subscription before the
event loop goes on).

### Tmgi

`tmgi[x]` is `_priv_tmgi_t`, with `by` for who holds it: the application, or a session that was
accepted with a TMGI and keeps one for itself and one in its previous copy (`SessionAccepted`,
`SessionGone`). The context's list is kept with its links (`nxt`, `prv`), because the code unlinks
a TMGI twice: in the answer to its deallocation and when it is freed; `Removed` is
`ogs_list_remove`, `Matching` is `_tmgi_find_matching_openapi_type`, the first TMGI on the list
with the id of the answer or, if it has none, not yet allocated. sbi_objects are numbered by the
request they were made for. `awaits`, `failed` and `told` are history: who asked, whether an
allocation was refused, and the callback of the last step. The seven rules are stated where the
application's actions are; each is needed, as the observations say.

### JsonPatch, SessionFields, SessionUpdate

A document is a string, an array or an object; a field of a session is a record, and an optional
one a sequence of at most one element. For each field type `SessionFields` has four operators,
translated from the four functions of its C file: `XCopy` (`_x_copy`), `XEqual` (`_x_equal`), `XDoc`
(`_x_to_openapi`, `_x_to_json`) and `XPatch` (`_x_patch_list`). `JsonPatch` has the library's patch
items, among them the null pointer that a nested removal runs into (`WithPrefix`), and, as the
reference, what RFC 6902 says they do (`Patched`). A path is a sequence of steps: the member of an object
with a name (`Member`), the entry of an array with an index (`Nth`), the end of an array (`End`). `SessionUpdate` is the application that fills in
a session, creates it, changes fields and pushes: `prev` is `_mbs_session_public_copy` of it at the
accepted creation, `doc` what the MB-SMF holds, `sent` the PATCH in flight.

So `InSync` compares two ways to the same document: the library's patch list applied to the old
one, and the body that the library would create the session with now.

The rules keep to the changes that the code gets right: "waits" and "once" (no edits while the creation
is in flight, one update), "noticed" (no change that the comparison of the code overlooks),
"expressible" (none that its patch list gets wrong), "kept" (nothing is removed), "untimed" (no start
or termination time). They are definitions of the module, `Noticed`, `Expressible`, `Kept`, `Untimed`,
and read as the list of what is wrong; TLC violates the run without any one of them.

### PcfClient

`pcf[p]` is a PCF session, `apps[p]` its list of application sessions, `mem[a]` the
application session allocated at address `a`. Requests and notification URLs carry the raw
address, and the allocator may use an address again, so `mem[a].who` numbers the creations:
the code never sees it, the properties do. The list is a set; its order is the order of
creation (`Earlier`), because sessions are only added at the end.

`CreateAppSession`, `UpdateAppSession`, `SubscribeEvents`, `FreeAppSession`, `SessionFree`
and `Final` are the application's calls; `SubscribeEvents` also stands for unsubscribing,
which differs in the body only. `HandleEvent` has one action per outcome of
`_pcf_process_event`. `Match` is the search by id, made with `strcmp`: `SearchFaults` says
when it meets a null id, and `fault` records it. `wire` and `events` are the requests in
flight and the answers in the queue, `contexts` is what the PCF holds. A request may end in
five ways (`Outcome`); one that timed out or broke may have been carried out.

`DeletedCreating` is the answer to a deletion during which the change callback creates the
next session. The code takes the deleted session from the list before and after the
callback, and `ogs_list_remove` leaves the removed node's links as they were, so that the
second removal joins its former neighbours: a session added behind it is lost from the
list (`FallsOff`, `RelinkedAfter`). The other change callbacks come before the only removal, and a
creation there is the same as one right after the handler.

`hasty` becomes true when the application asks something of a PCF session while another answer
of it is outstanding than the one that is handled, and when a session falls off the list as above;
`lost` has the creations with a request that was lost or refused. Four
properties are about an application that waits (`~hasty`), and `NoFault` besides about
requests that are not lost: the observations below show what goes wrong otherwise.

`answered` has every end of a creation that was taken from the queue, with its outcome.
`CreationReported` says that each was told to the application but for the outcomes in `Untold`, and
but for a session that fell off the list. The documentation of `pcf_app_session_change_callback`
(`pcf-service-consumer.h:72-82`) makes no such exceptions: it promises a call when a context is created and
when there was an error creating one. `NoOrphan` excepts the contexts of a PCF session that the
application freed, against the documentation of `pcf_session_free`.

### Tools

`tool` is the program that runs. The event thread (`EventThread`) pops the queue, gives the event
to the libraries (`LibraryEvent`) and, if they refuse it, to the state machine (`Dispatch`, one action per
state). The main thread waits for a signal, terminates the libraries, the queue and the event thread,
in the order of the code (`MainThread`). `asked` is the request outstanding in a library, `obj` its
session or TMGI, `pcf` the context of the PCF tool. The libraries appear by what they report, in
`Reports`, as the other modules find: a refused allocation or a timed-out application session is
not reported at all. "settled" is the only rule: the user stops a tool when it has no work left.

## Runs

| Run | Shows | Bounds |
|---|---|---|
| `callback_data` | data is never dangling, freed twice or leaked | 3 pointers: two always with a free function, one with and without; 3 slots |
| `bsf_client` | callback at most once, transactions have sessions, fresh cache, refinement of `BsfLookup`, every retrieval ends | 2 retrievals, 2 UEs, 1 binding, 2 kinds of headers, 2 ticks a second, 3 ticks |
| `mbs_free` | ids, objects and reports are sound for an application under no rule | 1 session, 1 TMGI, 1 SSM, with and without termination time, 2 pushes |
| `mbs_pair` | a callback reaches the session that asked, if the request is on an object that a session made | 2 sessions, 1 TMGI, 2 pushes |
| `mbs_single` | no fault, nothing left behind, refinement of `MbsPromise`, creations reported unless the discovery fails, deletions completed | 1 session, 2 attribute values, all five outcomes, an NRF that answers, answers wrongly or refuses, 3 pushes |
| `subscriptions` | one container each, keyed by id, notifications to their owner, ids given up only with a deletion | 1 session, 2 subscriptions, 2 correlation ids, 2 paths at a fixed port, 1 event, 2 requests for each |
| `subscription_move` | no missing or stale table, no freed subscription touched | 2 sessions, 1 subscription, 2 servers, 3 requests |
| `tmgi` | ids different and allocated, grants never lost, deallocations reported to the asker, links to live TMGIs | 3 TMGIs, 2 ids, 4 requests |
| `fields` | faithful copy, applicable patches, the MB-SMF in step with the application | 4 sessions to start from, 2 to 31 values a field, 1 edit before and 1 after the creation |
| `pcf_client` | live lists, callbacks only about live sessions; for an application that waits: own answers, creations reported, no fault, nothing left behind, with the exceptions named under PcfClient | 1 PCF session, 3 addresses, all five outcomes, 4 requests, 1 notification |
| `tools` | nothing freed is used, no self-deadlock, a reported failure ends the tool | 4 programs (the TMGI tool allocates or deallocates), with and without the PCF's address |
| `bsf_default_lifetime` | violation: see Findings | 1 UE |

Two retrievals are enough for one to fill the cache the other reads, and for both to race
for it. Two pushes by the application are enough for a second request to be outstanding
with the first, and the push made by the create handler counts as one; with three, a
session is created, updated and removed. `MaxPush` counts only pushes that send a request
and stops the application, never the library's own push. Symmetry is used only in safety runs.
Four requests of the PCF client are enough to create
and delete a session and to create and use another at its address; three addresses leave one free for
a session created in the callback of a deletion while a second session is on the list.
Two subscriptions are enough for an answer or a notification to be taken for the other's, and two
requests for each to be created and changed, or created and deleted, while the other is; three
let a subscription be made in one session and again in another. Three TMGIs are a list with a middle
element, which a wrong link needs, and two of them compete for an id. In `fields` the values
differ from each other in one part at a time, so that a pair of values is a change of one part;
lists have up to three entries, with entries added, removed, exchanged and doubled.
Deadlock is checked in `fields`, where a session can always be started over; elsewhere a session
that was freed, a client that was terminated, a tool that ended and a run that used up its
requests may rightly stop.

Fairness. `BsfClient` assumes weak fairness of the local event and of the timer,
`MbsSession` of the timer: `ogs_sbi_xact_add` starts the timer of every transaction and the
event loop delivers its expiry unless the transaction is removed first. `Tools` assumes it of each
of the two threads, which the operating system schedules. Nothing is assumed of the NRF, the BSF, the
MB-SMF, the PCF, the application or the user.

Every property has a mutant: a form of one definition as a plausible slip in the code would
make it, which violates the property.

## Findings

- `bsf_default_lifetime`: `utils.c` adds seconds to a time in microseconds, so a binding
  without caching headers expires after 5 microseconds, not the 5 seconds of its comment.

Observations. They have no run of their own, and were met while modelling or as counterexamples of
a run without one of its rules. Sessions:

- The handler of a PATCH response (`nmbsmf-mbs-session-handle.c:179`) tests a status that was never
  parsed: the accepted copy is not brought up to date, contrary to `priv_mbs-session.h:42`, the next
  update is computed from the creation (rule "once"), and an update is reported with `OGS_OK`
  whatever the MB-SMF answered (`UpdateAnswered`).
- After a change of SSM the answer to the removal of the old resource frees the local session, which
  the application still uses (rule "keep").
- A failed discovery drops the pending creation without a callback (`mb-smf-service-consumer.c:187`),
  although `mbs-session.h:59-66` says that the callback is used when a creation has failed. The NRF of `mbs_single`
  may refuse; `CreateReported` excepts this end of a creation and no other.
- Deleting and pushing a session that was never sent runs into the assertion of `ogs_sbi_xact_add`
  (`PushFaults`, rule "created"). An accepted creation whose session is gone runs into the assertion at the
  start of `_nmbsmf_mbs_session_parse` (`CreateOrphaned`).
- Two sessions that share a TMGI share its sbi_object, and an answer goes to the one first in the
  list, whichever asked (`context.c:204`). `CallbackAboutOwn` is about requests on the other objects, those
  that sessions made.

Subscriptions:

- The subscription that travels with the creation of its session is asked for again on its own by
  the push in the answer's handler; only one that travels has a notification URL.
- A removal while the creation is in flight loses the resource: "settled". A second answer
  links the subscription twice.
- A notification that comes while some session has no table calls `ogs_hash_do` on a null pointer
  (`context.c:320`, rule "tables"), and an answer without an event list is dereferenced all the same.
- `__free_status_subscription` is given the session where it expects the table (`mbs-session.c:294`), so a
  session with active subscriptions must not be deleted: "emptied". The list at `mbs-session.c:300` is the wrong
  one, and the write at `mbs-session.c:171` goes to freed memory; neither has an effect that the model sees.
- With equal correlation ids, or with servers of their own whose port is given again, a late notification
  reaches another subscription ("unique", `Fixed`).
- A subscription whose creation is refused or times out is neither retried nor reported.

TMGIs:

- `mb_smf_sc_tmgi_free` does not deallocate, a refused deallocation takes the TMGI off the list
  like an accepted one, and `_tmgi_send_allocate` of a TMGI with an id does not refresh it ("fresh").
- Freeing a TMGI after `OGS_DONE` unlinks it twice ("kept").
- The deallocation answer may be told to a TMGI that has no id yet ("apart"), and an id goes to the first TMGI
  without one: freeing it while it waits leaves another unserved ("quiet", `tmgi.c:430-461`).
- The answer to a deallocation, or one that cannot be parsed, dereferences null when only a session has its
  object ("session", `mb-smf-service-consumer.c:148` and 166).
- An allocation that is refused or times out is never reported; an unparsable answer is reported to the
  holder of the object. The functions for refreshes and for several TMGIs have no callers.

Fields:

- A nested "remove" item crashes in `_json_patch_new_copy_with_prefix`; so do a media component added
  to a table that has one (`mbs-media-comp.c:75`) and everything that shortens a nested list ("kept").
- Wrong attribute names `/regMbsArp` and `/5Qi`; the first codec is added at the end of an array that is
  not there; a QoS reference is never replaced; `contactPcfInd` is replaced although it was never sent
  ("expressible").
- Media bandwidths, flow descriptions of equal number, cells, and the order of areas, addresses
  and codecs are not compared ("noticed").
- Geographic areas are never equal, which sends a PATCH with every push, and are left out of the
  creation. An associated session id without SSM is never equal either.
- The start time is shared by session and copy and freed with both; the termination time is assigned
  to itself; the copy of a polygon drops its points ("untimed"). The area session id is shared and freed with both
  as well (`mbs-session.c:451` and 347); it is not among the modelled fields.
- Edits made while the creation is in flight are taken for accepted and never sent ("waits").

PCF client:

- A session that the application creates in the callback of a deletion falls off the list when the deleted
  one was the last there, and the answer to its creation is refused (`pcf-handler.c:265`).
- A 201 without Location, AscReqData or suppFeat (`pcf-handler.c:173-223`), an answer that does not parse and
  a timeout end a creation without a callback, against `pcf-service-consumer.h:75-76` (`Untold`).
- A late notification for a freed session is given to the session that got its address
  (`npcf-process.c:87`).
- `pcf_session_free` sends nothing to the PCF, although its documentation (`pcf-service-consumer.h:189`) says that
  the AppSessionContexts are destroyed (`SessionFree`); any status ends a session that is deleted (`Deleted`);
  a refused update or a timeout is not reported (`LeaveSession`); a refused subscription is reported with a
  null pointer while the session stays (`EventsAnswered`); a session created in a callback during
  `pcf_session_free` may be left with a freed PCF session.

Tools:

- Stopping a tool before it has settled lets the event thread use what the main thread has freed: a result
  event with its session, a request to a library that is finalised, or a context that was never made.
- `_start_bsf_discovery` holds its mutex while it calls the library, which would call back at once for a
  cached binding; it never has one there, because the address is set with it, and `NoFault` shows that.
- The TMGI tool does not end when its allocation is refused or times out, nor the PCF tool when its
  creation times out or is not sent. The TMGI tool exits with status 1 also after a success.

## Proofs

For every value of the constants (any number of sessions, retrievals, pointers, any bound):

- `CallbackData_proofs`: `TypeOK`, `NoDanglingData`, `NoDoubleFree`, `NoLeak`. A release
  step is shown to keep the inductive invariant for any slot; a setter is a release and an
  assignment, and the destruction three releases, so each action follows from lemmas about
  `Release` and `SetSlot`.
- `BsfClient_proofs`: `TypeOK`, `AtMostOneCallback`, `XactHasSession` and the refinement
  `LookupSpec`. `LifeCycle` ties session, transaction and number of callbacks together: a
  live transaction has an active session, and a called-back retrieval neither. The
  refinement needs `OnlyRegistered` besides: every binding in the cache or in a response
  was held by the BSF for that UE, and `InFlightAsked`: what is in flight belongs to a
  retrieval that was made. `CachedAnswerFresh` is an action property of its own: a retrieval
  that is answered without asking gets an entry that had not expired.
- `MbsSession_proofs`: `TypeOK`, `ListIsLive`, `PatchTargetKnown`, `XactObjectHeld`,
  `OneReportPerRequest` and the action property `NoCallbackAfterDone`. `IInv` adds
  `SessionsSound` (a session with an accepted copy has an id and an object; without it an
  update could be built without a target), `Numbered` (no transaction, report or message
  has a number above `serial`, so that a new request was never reported), and `DoneIsFreed`
  (a session reported done is freed, hence found by no lookup). The second half says more of
  responses. Whatever the application does, a response to a request on an object that a session
  made is reported to the session that asked (`CallbackAboutOwn`), since no other session ever holds
  such an object (`ObjectsOwn`). For an application that shares no TMGIs (`Tmgi = {}`) and keeps the rules
  `wait`, `created` and `keep`, `NoOrphan`, `NoFault` and `FreedWasDeleted`. The
  invariant follows a session through its requests: it has one outstanding at most, and what is
  outstanding is what its copies say (a creation while it has no id, an update or a deletion when
  it has one), so the answer meets the state it was sent from. `KeepsPromise`, the refinement of `MbsPromise`,
  needs two facts besides: a request names a resource of its own session (`TargetsOwn`), so that no removal takes another
  one's, and a creation whose answer is in the queue is still held by the MB-SMF (`CreationsHeld`), so that its report is true.
- `StatusSubscription_proofs`: `OneContainer`, `KeyedById`, `ToldToOwner` (with one fixed port)
  and the action property `IdGivenUpWithDeletion` for an application that keeps the rules `settled`,
  `unique` and `emptied`; `NoFault` when it keeps `tables` too. The subscription's own fields say in
  which container it is: a new one has no id, an active one has the id that keys its entry, and one
  to delete has an id and is no longer the application's. The answer to a creation finds the
  subscription it was asked for since that one keeps its correlation id meanwhile, and no
  other live one has it.
- `Tmgi_proofs`: `TypeOK` for any application; `IdsSound`, `AllServed`, `DoneToAsker` and `NoFault`
  for one that keeps all the rules. The first half is about the linked list alone: ranked by the time
  they were added, the listed objects form a ring, so a walk from the head meets each once
  and `FirstOf` is the oldest that fits (`AppendLinked`, `RemoveLinked`, `WalkLinked`, `FirstLinked`).
  The second half needs that no more allocations are outstanding than TMGIs are waiting
  (hence every answer finds one), and that an id that was deallocated is held by nobody but
  the one who asked, or by a session's TMGI behind it in the list: so the first match is the asker's.
- `SessionUpdate_proofs`: `TypeOK` whatever rules are kept; `CopyFaithful` under the rule `untimed`,
  from a theorem that needs no state: a session without times and geographic areas is equal to
  its copy (`CopyIsEqual`), by one lemma per field type. `NoFault` under `untimed` and `kept`: each
  level of a patch list copies the items of the level below under a prefix, which reads the value
  that a removal does not have, so all items below the top must have one. `Valued` says
  so; one lemma per field type shows it when no part loses entries (`SessionGrows`), and
  `KeptOfCopy` that what `kept` says of the session holds of its copy. The lists are flattened with
  `FlattenSeq`, whose recursion is dealt with once, by the least index that goes wrong (`FlatTyped`).
- `SessionPatch_proofs`: `ListsPatched` for any application; `PatchApplies` and `InSync` for one that
  keeps the six rules, for any values of the fields, lists of any length and any number of edits. It has three
  parts. First the peer: what its recursive functions `Way` and `After` compute is
  shown by the least number of steps at which they would go wrong, whence a list of items may be cut in two
  (`Patched` of the first part, then of the second) and may be taken under an attribute, where it changes
  that member as it changed the document before. Then the patches: `Puts` says that a patch list leads from the document
  of one value to that of another, with a lemma for each field type that rests on those of its parts. For
  a list of entries the document after `n` of the patches is the new list up to `n` and the old one behind it, and while
  the entries behind the end are removed, all at one index, the rest moves up. The rules appear as conditions on two
  values of a type (`MediaFits`, `CompFits`, ...), which follow from `Noticed`, `Expressible` and `Kept`.
  Last the state: until the first update is answered the MB-SMF holds the document of the creation and
  what is in flight is the patch list from the copy (`Held`); so its acceptance leads to the document of now
  (`UpdateLeads`), and a push that sends nothing was right because values that the comparisons do not
  tell apart have the same document (the lemmas `...Agree`).
- `PcfClient_proofs`: `TypeOK`, `ListedAlive`, the action property `SilentAfterGone`, and, for
  an application that waits, `AnswerOwn`, `CreationReported`, `NoOrphan`, `NoFault`, with the exceptions that
  the section on the module names. `Numbered` and
  `IdsDiffer` show that no two sessions have the same id, so that the search by id finds the
  session it was given (`MatchSelf`). `OneOutstanding` is the heart: as long as the
  application waits, the session of an outstanding request stays listed at its address, so
  the comparison of addresses does tell sessions apart. `Identified` adds that a session
  without an id has its creation outstanding, which is why no search meets a null id. A session created in
  the callback of a deletion keeps all this when it stays on the list (`DeletedCreatingStep`).

The assumptions are the named `ASSUME`s of the modules: the null value is none of the others,
sessions and TMGIs are different objects, outcomes and rules are drawn from their sets, there
is a PCF session.

Where a theorem needs rules, its premise is a condition on the constant `Rules` (or `hasty`) that a run's
instance satisfies, and the section on the module says which line of the code makes the rule necessary.

`TypeOK` of these modules and `ListIsLive` are theorems. Only `TypeOK` of `StatusSubscription`
depends on the rules.

Every safety property that a run checks is a theorem, but for one. Only model-checked are the liveness
properties (`RetrievalEnds`, `DeletionCompletes`, `CreateReported`, `FailureEnds`), which are out of the prover's
reach, and `NoFault` of `Tools`, which has no parameter but its rule and a finite state space, all of which TLC visits.

## Plan

1. Done: `CallbackData`, `BsfLookup`/`BsfClient`, `MbsSession`, `PcfClient`, `StatusSubscription`, `Tmgi`,
   `JsonPatch`/`SessionFields`/`SessionUpdate` with their proofs; `Tools`, model-checked.
2. The rest of the PCF client: the merging of event subscriptions, which walks the list it
   appends to, and the notification callbacks of a session, which may change under the walk.

## Not modelled

Generated OpenAPI code and its JSON conversion, the Open5GS libraries (modelled only as the
handlers use them: discovery, transactions, timers, lists), configuration parsing, option parsing,
logging, the printing of the tools (`dump-openapi.c`) and the bodies of the PCF's requests: data without
control beyond null checks. Failures of allocation and of sending inside Open5GS are left out of the MB-SMF
modules; `BsfClient`, `PcfClient` and `Tools` model a failed send. The PCF tool's `_start_bsf_discovery` can
also fail while it is called, which `Tools` leaves out. An empty list of flow descriptions and none at all are one
value in `SessionFields`. Pushes that the
application makes from inside a result callback are left out. Of the geographic areas only points are
modelled, and fields that the code treats alike are represented by one of them.

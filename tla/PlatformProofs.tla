--------------------------- MODULE PlatformProofs ---------------------------
(* Devices: what the API server has answered about them, for any number of    *)
(* requests, devices and failures of the database.                            *)
EXTENDS ApiDevices, TLAPS

-----------------------------------------------------------------------------
(* Devices and the answers of the API server.                                 *)

Ids(ds) == {x.device : x \in ds}

Unique(ds) == \A x, y \in ds : x.device = y.device => x = y

\* Identifiers of the devices that are registered or have been.
Settled == Ids(devices) \cup removed

\* A request that has begun is a record of four fields.
Formed(q) == q = [op |-> q.op, at |-> q.at, todo |-> q.todo, sent |-> q.sent]

\* A bulk registration has each of its devices registered or still to do, and the ones to
\* do are its own; a registration that is answered has all of them registered.
RequestOK(q, settled, ids) ==
    /\ q.at # "waiting" => Formed(q)
    /\ q.at = "register" =>
          /\ Ids(q.todo) \subseteq ids \ settled /\ Unique(q.todo)
          /\ q.sent \subseteq settled \cup Ids(q.todo)
    /\ q.at = "write" => q.op \notin {"CreateDevice", "BulkRegisterDevices"}
    /\ q.op \in {"CreateDevice", "BulkRegisterDevices"} /\ q.at = "ok" => q.sent \subseteq settled

\* Two bulk registrations have no device in common.
Apart(q1, q2) ==
    q1.at = "register" /\ q2.at = "register" => Ids(q1.todo) \cap Ids(q2.todo) = {}

DevicesInv ==
    /\ req = [r \in Requests |-> req[r]]
    /\ Unique(devices) /\ Ids(devices) \cap removed = {} /\ Settled \subseteq used
    /\ \A r \in Requests : RequestOK(req[r], Settled, used)
    /\ \A r, s \in Requests : r # s => Apart(req[r], req[s])

\* A request takes a step and becomes q: nothing that is settled is forgotten, and what
\* becomes settled, or is to be done by q, is of no other request.
LEMMA DeviceMove ==
    ASSUME DevicesInv, NEW r \in Requests, NEW q, req' = [req EXCEPT ![r] = q],
           Unique(devices'), Ids(devices') \cap removed' = {},
           Settled' \subseteq used', used \subseteq used', Settled \subseteq Settled',
           RequestOK(q, Settled', used'),
           \A s \in Requests \ {r} : /\ Apart(q, req[s])
                                     /\ req[s].at = "register" => Ids(req[s].todo) \cap Settled' = {}
    PROVE  DevicesInv'
<1>1. req'[r] = q /\ \A s \in Requests \ {r} : req'[s] = req[s]
    BY DEF DevicesInv
<1>2. req' = [s \in Requests |-> req'[s]]
    BY DEF DevicesInv
<1>3. ASSUME NEW s \in Requests \ {r} PROVE RequestOK(req[s], Settled', used')
    <2>1. RequestOK(req[s], Settled, used)
        BY DEF DevicesInv
    <2> QED
        BY <2>1 DEF RequestOK
<1>4. \A s \in Requests : RequestOK(req'[s], Settled', used')
    BY <1>1, <1>3, Zenon
<1>5. \A s \in Requests \ {r} : Apart(q, req[s]) /\ Apart(req[s], q)
    BY DEF Apart
<1>6. \A s, u \in Requests : s # u => Apart(req'[s], req'[u])
    BY <1>1, <1>5, Zenon DEF DevicesInv
<1> QED
    BY <1>2, <1>4, <1>6, Zenon DEF DevicesInv

\* A step that settles nothing: the request that takes it registers no device.
LEMMA DeviceStill ==
    ASSUME DevicesInv, NEW r \in Requests, NEW q, req' = [req EXCEPT ![r] = q],
           Unique(devices'), Ids(devices') = Ids(devices), removed' = removed,
           used \subseteq used', Formed(q), q.at \in {"ok", "error", "save", "write"},
           q.at \in {"ok", "write"} => q.op \notin {"CreateDevice", "BulkRegisterDevices"}
    PROVE  DevicesInv'
<1>1. Settled' = Settled
    BY Zenon DEF Settled
<1>2. RequestOK(q, Settled', used')
    BY DEF RequestOK
<1>3. ASSUME NEW s \in Requests \ {r}
      PROVE  /\ Apart(q, req[s])
             /\ req[s].at = "register" => Ids(req[s].todo) \cap Settled' = {}
    <2>1. RequestOK(req[s], Settled, used)
        BY DEF DevicesInv
    <2> QED
        BY <1>1, <2>1 DEF Apart, RequestOK
<1>4. Ids(devices') \cap removed' = {} /\ Settled' \subseteq used'
    BY <1>1 DEF DevicesInv
<1> QED
    BY <1>1, <1>2, <1>3, <1>4, DeviceMove, Zenon

\* Begin and Go make records of requests.
LEMMA BeginsRequest ==
    ASSUME DevicesInv, NEW r \in Requests, NEW op, NEW at, NEW todo, NEW sent,
           Begin(r, op, at, todo, sent)
    PROVE  \E q : /\ req' = [req EXCEPT ![r] = q]
                  /\ Formed(q) /\ q.op = op /\ q.at = at /\ q.todo = todo /\ q.sent = sent
<1> DEFINE q == [op |-> op, at |-> at, todo |-> todo, sent |-> sent]
<1>1. req' = [req EXCEPT ![r] = q]
    BY DEF Begin
<1>2. Formed(q) /\ q.op = op /\ q.at = at /\ q.todo = todo /\ q.sent = sent
    BY DEF Formed
<1> HIDE DEF q
<1> QED
    BY <1>1, <1>2, Zenon

\* A request goes to its next step and keeps what it has to do.
LEMMA GoesRequest ==
    ASSUME DevicesInv, NEW r \in Requests, NEW at, req[r].at # "waiting", Go(r, at)
    PROVE  \E q : /\ req' = [req EXCEPT ![r] = q]
                  /\ Formed(q) /\ q.op = req[r].op /\ q.at = at
                  /\ q.todo = req[r].todo /\ q.sent = req[r].sent
<1> DEFINE q == [op |-> req[r].op, at |-> at, todo |-> req[r].todo, sent |-> req[r].sent]
<1>1. Formed(req[r])
    BY DEF DevicesInv, RequestOK
<1>2. [req[r] EXCEPT !.at = at] = q
    BY <1>1 DEF Formed
<1>3. req' = [req EXCEPT ![r] = q]
    BY <1>2, Zenon DEF Go, DevicesInv
<1>4. /\ Formed(q) /\ q.op = req[r].op /\ q.at = at
      /\ q.todo = req[r].todo /\ q.sent = req[r].sent
    BY DEF Formed
<1> HIDE DEF q
<1> QED
    BY <1>3, <1>4, Zenon

\* A request with two fields changed.
LEMMA ExceptTwo ==
    ASSUME NEW q, Formed(q), NEW t, NEW a
    PROVE  [q EXCEPT !.todo = t, !.at = a] = [op |-> q.op, at |-> a, todo |-> t, sent |-> q.sent]
<1> DEFINE u == [q EXCEPT !.todo = t]
<1>1. u = [op |-> q.op, at |-> q.at, todo |-> t, sent |-> q.sent]
    BY DEF Formed
<1>2. [u EXCEPT !.at = a] = [q EXCEPT !.todo = t, !.at = a]
    BY Zenon
<1> HIDE DEF u
<1>3. [u EXCEPT !.at = a] = [op |-> q.op, at |-> a, todo |-> t, sent |-> q.sent]
    BY <1>1
<1> QED
    BY <1>2, <1>3, Zenon

\* A document that replaces one of the same device changes no identifier.
LEMMA ReplaceKeeps ==
    ASSUME NEW D, NEW E, NEW doc, Unique(D), E \in UpdateDevice(D, doc)
    PROVE  Unique(E) /\ Ids(E) = Ids(D)
<1>1. PICK x \in D : x.device = doc.device /\ E = (D \ {x}) \cup {doc}
    BY DEF UpdateDevice, Replacements
<1> QED
    BY <1>1 DEF Unique, Ids

\* A device that is registered was not.
LEMMA RegisterAdds ==
    ASSUME NEW D, NEW E, NEW doc, Unique(D), E \in RegisterDevice(D, doc)
    PROVE  Unique(E) /\ Ids(E) = Ids(D) \cup {doc.device} /\ doc.device \notin Ids(D)
<1>1. E = D \cup {doc} /\ {x \in D : x.device = doc.device} = {}
    BY DEF RegisterDevice, Insertions, DeviceKey
<1>2. \A x \in D : x.device # doc.device
    BY <1>1
<1> QED
    BY <1>1, <1>2 DEF Unique, Ids

\* A device that is deleted was registered, and is no longer.
LEMMA DeleteTakes ==
    ASSUME NEW D, NEW E, NEW p, NEW d, Unique(D), E \in DeleteDevice(D, p, d)
    PROVE  Unique(E) /\ d \in Ids(D) /\ Ids(E) = Ids(D) \ {d}
<1>1. PICK x \in D : x.device = d /\ E = D \ {x}
    BY DEF DeleteDevice, Removals
<1> QED
    BY <1>1 DEF Unique, Ids

\* A registry without devices and requests satisfies the invariant.
LEMMA DevicesStart == DevicesInit => DevicesInv
<1> SUFFICES ASSUME DevicesInit PROVE DevicesInv
    OBVIOUS
<1>1. \A r \in Requests : req[r].at = "waiting"
    BY DEF DevicesInit, Waiting
<1>2. \A r \in Requests : RequestOK(req[r], Settled, used)
    BY <1>1 DEF RequestOK
<1>3. \A r, s \in Requests : Apart(req[r], req[s])
    BY <1>1 DEF Apart
<1>4. Ids(devices) = {} /\ Unique(devices) /\ removed = {}
    BY DEF DevicesInit, Ids, Unique
<1>5. req = [r \in Requests |-> req[r]]
    BY DEF DevicesInit
<1> QED
    BY <1>2, <1>3, <1>4, <1>5 DEF DevicesInv, Settled

\* CreateDevice, answered: its identifier is new.
LEMMA CreateKeeps ==
    ASSUME DevicesInv, NEW r \in Requests, NEW p, NEW n, NEW d, d \notin used,
           Begin(r, "CreateDevice", "ok", {}, {d}),
           devices' \in RegisterDevice(devices, NewDevice(p, n, d)),
           used' = used \cup {d}, UNCHANGED removed
    PROVE  DevicesInv'
<1>1. PICK q : /\ req' = [req EXCEPT ![r] = q] /\ Formed(q)
               /\ q.op = "CreateDevice" /\ q.at = "ok" /\ q.todo = {} /\ q.sent = {d}
    BY BeginsRequest
<1>2. NewDevice(p, n, d).device = d
    BY DEF NewDevice
<1>3. Unique(devices') /\ Ids(devices') = Ids(devices) \cup {d}
    BY <1>2, RegisterAdds DEF DevicesInv
<1>4. Settled' = Settled \cup {d} /\ Settled' \subseteq used' /\ Ids(devices') \cap removed' = {}
    BY <1>3 DEF Settled, DevicesInv
<1>5. RequestOK(q, Settled', used')
    BY <1>1, <1>4 DEF RequestOK
<1>6. ASSUME NEW s \in Requests \ {r}
      PROVE  /\ Apart(q, req[s])
             /\ req[s].at = "register" => Ids(req[s].todo) \cap Settled' = {}
    <2>1. RequestOK(req[s], Settled, used)
        BY DEF DevicesInv
    <2> QED
        BY <1>1, <1>4, <2>1 DEF Apart, RequestOK
<1> QED
    BY <1>1, <1>3, <1>4, <1>5, <1>6, DeviceMove, Zenon

\* BulkRegisterDevices begins: its identifiers are new.
LEMMA BulkBegins ==
    ASSUME DevicesInv, NEW r \in Requests, NEW p, NEW n, NEW ids, BulkRegisterDevices(r, p, n, ids)
    PROVE  DevicesInv'
<1> DEFINE todo == {NewDevice(p, n, d) : d \in ids}
<1>1. PICK q : /\ req' = [req EXCEPT ![r] = q] /\ Formed(q) /\ q.at = "register"
               /\ q.op = "BulkRegisterDevices" /\ q.todo = todo /\ q.sent = ids
    BY BeginsRequest DEF BulkRegisterDevices
<1>2. ids \cap used = {} /\ used' = used \cup ids /\ UNCHANGED <<devices, removed>>
    BY DEF BulkRegisterDevices
<1>3. Ids(todo) = ids /\ Unique(todo)
    <2>1. \A d : NewDevice(p, n, d).device = d
        BY DEF NewDevice
    <2>2. \A x \in todo : \E d \in ids : x = NewDevice(p, n, d)
        BY Zenon
    <2>3. \A d \in ids : NewDevice(p, n, d) \in todo
        BY Zenon
    <2> HIDE DEF todo
    <2>4. Unique(todo)
        <3> SUFFICES ASSUME NEW x \in todo, NEW y \in todo, x.device = y.device PROVE x = y
            BY DEF Unique
        <3>1. PICK d1 \in ids : x = NewDevice(p, n, d1)
            BY <2>2
        <3>2. PICK d2 \in ids : y = NewDevice(p, n, d2)
            BY <2>2
        <3>3. d1 = d2
            BY <2>1, <3>1, <3>2
        <3> QED
            BY <3>1, <3>2, <3>3, Zenon
    <2>5. \A d : d \in Ids(todo) <=> d \in ids
        BY <2>1, <2>2, <2>3 DEF Ids
    <2> QED
        BY <2>4, <2>5
<1> HIDE DEF todo
<1>4. Settled' = Settled /\ Settled' \subseteq used'
    BY <1>2 DEF Settled, DevicesInv
<1>5. RequestOK(q, Settled', used')
    BY <1>1, <1>2, <1>3, <1>4 DEF RequestOK, DevicesInv
<1>6. ASSUME NEW s \in Requests \ {r}
      PROVE  /\ Apart(q, req[s])
             /\ req[s].at = "register" => Ids(req[s].todo) \cap Settled' = {}
    <2>1. RequestOK(req[s], Settled, used)
        BY DEF DevicesInv
    <2> QED
        BY <1>1, <1>2, <1>3, <1>4, <2>1 DEF Apart, RequestOK
<1>7. Unique(devices') /\ Ids(devices') \cap removed' = {}
    BY <1>2 DEF DevicesInv
<1> QED
    BY <1>1, <1>2, <1>4, <1>5, <1>6, <1>7, DeviceMove, Zenon

\* One device of a bulk registration gets registered.
LEMMA BulkRegisters ==
    ASSUME DevicesInv, NEW r \in Requests, req[r].at = "register", NEW doc \in req[r].todo,
           devices' \in RegisterDevice(devices, doc),
           req' = [req EXCEPT ![r].todo = @ \ {doc},
                              ![r].at = IF req[r].todo = {doc} THEN "ok" ELSE @],
           UNCHANGED <<used, removed>>
    PROVE  DevicesInv'
<1> DEFINE q == [op |-> req[r].op, at |-> IF req[r].todo = {doc} THEN "ok" ELSE "register",
                 todo |-> req[r].todo \ {doc}, sent |-> req[r].sent]
<1>1. RequestOK(req[r], Settled, used) /\ Formed(req[r])
    BY Zenon DEF DevicesInv, RequestOK
<1>2. req' = [req EXCEPT ![r] = q]
    <2>1. req' = [req EXCEPT ![r] = [req[r] EXCEPT !.todo = req[r].todo \ {doc},
                                    !.at = IF req[r].todo = {doc} THEN "ok" ELSE req[r].at]]
        BY Zenon DEF DevicesInv
    <2>2. [req[r] EXCEPT !.todo = req[r].todo \ {doc},
                         !.at = IF req[r].todo = {doc} THEN "ok" ELSE req[r].at] = q
        <3> DEFINE a == IF req[r].todo = {doc} THEN "ok" ELSE req[r].at
        <3>1. a = IF req[r].todo = {doc} THEN "ok" ELSE "register"
            OBVIOUS
        <3> HIDE DEF a
        <3>2. \A e : [req[r] EXCEPT !.todo = e, !.at = a]
                       = [op |-> req[r].op, at |-> a, todo |-> e, sent |-> req[r].sent]
            BY <1>1, ExceptTwo, Zenon
        <3> QED
            BY <3>1, <3>2, Zenon DEF a
    <2> QED
        BY <2>1, <2>2, Zenon
<1>3. /\ q.op = req[r].op /\ q.todo = req[r].todo \ {doc} /\ q.sent = req[r].sent
      /\ q.at = IF req[r].todo = {doc} THEN "ok" ELSE "register"
    OBVIOUS
<1>4. Formed(q)
    BY DEF Formed
<1> HIDE DEF q
<1>5. Unique(devices') /\ Ids(devices') = Ids(devices) \cup {doc.device}
    BY RegisterAdds, Zenon DEF DevicesInv
<1>6. doc.device \in used \ Settled /\ doc.device \in Ids(req[r].todo) /\ Unique(req[r].todo)
    BY <1>1 DEF RequestOK, Ids
<1>7. Ids(q.todo) = Ids(req[r].todo) \ {doc.device} /\ Unique(q.todo)
    BY <1>3, <1>6 DEF Ids, Unique
<1>8. /\ Settled' = Settled \cup {doc.device} /\ Settled' \subseteq used'
      /\ Ids(devices') \cap removed' = {}
    BY <1>5, <1>6, Zenon DEF Settled, DevicesInv
<1>9. q.sent \subseteq Settled' \cup Ids(q.todo) /\ Ids(q.todo) \subseteq used' \ Settled'
    BY <1>1, <1>3, <1>7, <1>8, Zenon DEF RequestOK
<1>10. q.at = "ok" => Ids(q.todo) = {}
    BY <1>3 DEF Ids
<1>11. RequestOK(q, Settled', used')
    BY <1>3, <1>4, <1>7, <1>9, <1>10 DEF RequestOK
<1>12. ASSUME NEW s \in Requests \ {r}
      PROVE  /\ Apart(q, req[s])
             /\ req[s].at = "register" => Ids(req[s].todo) \cap Settled' = {}
    <2>1. RequestOK(req[s], Settled, used) /\ Apart(req[r], req[s])
        BY Zenon DEF DevicesInv
    <2> QED
        BY <1>6, <1>7, <1>8, <2>1 DEF Apart, RequestOK
<1> QED
    BY <1>2, <1>5, <1>8, <1>11, <1>12, DeviceMove, Zenon

\* RemoveDevice, answered.
LEMMA RemoveKeeps ==
    ASSUME DevicesInv, NEW r \in Requests, NEW p, NEW d, Begin(r, "RemoveDevice", "ok", {}, d),
           devices' \in DeleteDevice(devices, p, d), removed' = removed \cup {d}, UNCHANGED used
    PROVE  DevicesInv'
<1>1. PICK q : /\ req' = [req EXCEPT ![r] = q] /\ Formed(q) /\ q.op = "RemoveDevice" /\ q.at = "ok"
    BY BeginsRequest
<1>2. Unique(devices') /\ d \in Ids(devices) /\ Ids(devices') = Ids(devices) \ {d}
    BY DeleteTakes DEF DevicesInv
<1>3. Settled' = Settled /\ Settled' \subseteq used' /\ Ids(devices') \cap removed' = {}
    BY <1>2 DEF Settled, DevicesInv
<1>4. RequestOK(q, Settled', used')
    BY <1>1 DEF RequestOK
<1>5. ASSUME NEW s \in Requests \ {r}
      PROVE  /\ Apart(q, req[s])
             /\ req[s].at = "register" => Ids(req[s].todo) \cap Settled' = {}
    <2>1. RequestOK(req[s], Settled, used)
        BY DEF DevicesInv
    <2> QED
        BY <1>1, <1>3, <2>1 DEF Apart, RequestOK
<1> QED
    BY <1>1, <1>2, <1>3, <1>4, <1>5, DeviceMove, Zenon

\* A request that begins and settles nothing.
LEMMA BeginStill ==
    ASSUME DevicesInv, NEW r \in Requests, NEW op, NEW at, NEW todo, NEW sent,
           Begin(r, op, at, todo, sent), at \in {"ok", "error", "save", "write"},
           at \in {"ok", "write"} => op \notin {"CreateDevice", "BulkRegisterDevices"},
           Unique(devices'), Ids(devices') = Ids(devices), removed' = removed, used \subseteq used'
    PROVE  DevicesInv'
<1>1. PICK q : /\ req' = [req EXCEPT ![r] = q]
               /\ Formed(q) /\ q.op = op /\ q.at = at /\ q.todo = todo /\ q.sent = sent
    BY BeginsRequest
<1> QED
    BY <1>1, DeviceStill, Zenon

\* Every command of a request keeps the invariant.
LEMMA DevicesStep == DevicesInv /\ [DevicesNext]_deviceVars => DevicesInv'
<1> SUFFICES ASSUME DevicesInv, [DevicesNext]_deviceVars PROVE DevicesInv'
    OBVIOUS
<1>1. Unique(devices)
    BY DEF DevicesInv
<1>2. ASSUME NEW r \in Requests, NEW p, RemoveProductRequest(r, p) PROVE DevicesInv'
    BY <1>1, <1>2, BeginStill DEF RemoveProductRequest
<1>3. ASSUME NEW r \in Requests, NEW p, NEW n, NEW d, CreateDevice(r, p, n, d) PROVE DevicesInv'
    <2>1. CASE Begin(r, "CreateDevice", "error", {}, {d}) /\ UNCHANGED devices
        BY <1>1, <1>3, <2>1, BeginStill DEF CreateDevice
    <2> QED
        BY <1>3, <2>1, CreateKeeps DEF CreateDevice
<1>4. ASSUME NEW r \in Requests, NEW p, NEW d, RemoveDevice(r, p, d) PROVE DevicesInv'
    <2>1. CASE Begin(r, "RemoveDevice", "error", {}, d) /\ UNCHANGED <<devices, removed>>
        BY <1>1, <1>4, <2>1, BeginStill DEF RemoveDevice
    <2> QED
        BY <1>4, <2>1, RemoveKeeps DEF RemoveDevice
<1>5. ASSUME NEW r \in Requests, NEW p, NEW n, NEW d, UpdateDeviceRequest(r, p, n, d)
      PROVE  DevicesInv'
    <2>1. Unique(devices') /\ Ids(devices') = Ids(devices)
        BY <1>1, <1>5, ReplaceKeeps DEF UpdateDeviceRequest
    <2> QED
        BY <1>5, <2>1, BeginStill DEF UpdateDeviceRequest
<1>6. ASSUME NEW r \in Requests, NEW p, NEW d, NEW ks, SaveDeviceProps(r, p, d, ks)
      PROVE  DevicesInv'
    BY <1>1, <1>6, BeginStill, Zenon DEF SaveDeviceProps
<1>7. ASSUME NEW r \in Requests, NEW p, NEW n, NEW ks,
             SaveDevicePropsByName(r, p, n, ks) \/ RemoveDevicePropsByName(r, p, n)
      PROVE  DevicesInv'
    BY <1>1, <1>7, BeginStill DEF SaveDevicePropsByName, RemoveDevicePropsByName, ReadByName
<1>8. ASSUME NEW r \in Requests, NEW at \in {"ok", "error"}, Go(r, at),
             req[r].at \in {"register", "save", "write"},
             at = "ok" => req[r].op \notin {"CreateDevice", "BulkRegisterDevices"},
             Unique(devices'), Ids(devices') = Ids(devices), UNCHANGED <<used, removed>>
      PROVE  DevicesInv'
    <2>1. PICK q : /\ req' = [req EXCEPT ![r] = q]
                   /\ Formed(q) /\ q.op = req[r].op /\ q.at = at
        BY <1>8, GoesRequest
    <2> QED
        BY <1>8, <2>1, DeviceStill, Zenon
<1>9. ASSUME NEW r \in Requests, RegisterNext(r) PROVE DevicesInv'
    <2>1. CASE Go(r, "error") /\ UNCHANGED devices
        BY <1>1, <1>8, <1>9, <2>1 DEF RegisterNext
    <2> QED
        BY <1>9, <2>1, BulkRegisters, Zenon DEF RegisterNext
<1>10. ASSUME NEW r \in Requests, StoreProps(r) PROVE DevicesInv'
    <2>1. Unique(devices') /\ Ids(devices') = Ids(devices)
        BY <1>1, <1>10, ReplaceKeeps DEF StoreProps
    <2> QED
        BY <1>8, <1>10, <2>1 DEF StoreProps
<1>11. ASSUME NEW r \in Requests, BulkUpdateNext(r) PROVE DevicesInv'
    <2>1. RequestOK(req[r], Settled, used) /\ Formed(req[r]) /\ req[r].at = "write"
        BY <1>11 DEF DevicesInv, RequestOK, BulkUpdateNext
    <2>2. CASE Go(r, "ok") /\ UNCHANGED devices
        BY <1>1, <1>8, <1>11, <2>1, <2>2 DEF BulkUpdateNext, RequestOK
    <2>3. ASSUME NEW doc \in req[r].todo, devices' \in UpdateDevice(devices, doc) \cup {devices},
                 req' = [req EXCEPT ![r].todo = @ \ {doc}]
          PROVE  DevicesInv'
        <3> DEFINE q == [op |-> req[r].op, at |-> "write", todo |-> req[r].todo \ {doc},
                         sent |-> req[r].sent]
        <3>1. req' = [req EXCEPT ![r] = q]
            <4>1. req' = [req EXCEPT ![r] = [req[r] EXCEPT !.todo = req[r].todo \ {doc}]]
                BY <2>3 DEF DevicesInv
            <4>2. [req[r] EXCEPT !.todo = req[r].todo \ {doc}] = q
                BY <2>1 DEF Formed
            <4> QED
                BY <4>1, <4>2, Zenon
        <3>2. Formed(q) /\ q.at = "write" /\ q.op = req[r].op
            BY DEF Formed
        <3> HIDE DEF q
        <3>3. Unique(devices') /\ Ids(devices') = Ids(devices)
            BY <1>1, <2>3, ReplaceKeeps
        <3>4. removed' = removed /\ used' = used
            BY <1>11 DEF BulkUpdateNext
        <3> QED
            BY <2>1, <3>1, <3>2, <3>3, <3>4, DeviceStill, Zenon DEF RequestOK
    <2> QED
        BY <1>11, <2>2, <2>3 DEF BulkUpdateNext
<1>12. CASE UNCHANGED deviceVars
    BY <1>12 DEF deviceVars, DevicesInv, Settled
<1> QED
    BY <1>2, <1>3, <1>4, <1>5, <1>6, <1>7, <1>9, <1>10, <1>11, <1>12, BulkBegins, Zenon
       DEF DevicesNext, DeviceRequest

\* For any number of concurrent requests, devices and properties, and although the
\* database may fail in every command: a registration that was answered has its devices
\* in the registry until they are removed, and none comes back (v1api/device.go).
THEOREM DevicesStayAsAnswered == DevicesSpec => []DevicesAsAnswered
<1>1. DevicesInv => DevicesAsAnswered
    <2> SUFFICES ASSUME DevicesInv PROVE RegisteredAreStored /\ RemovedStaysRemoved
        BY DEF DevicesAsAnswered
    <2>1. RemovedStaysRemoved
        BY DEF DevicesInv, Ids, RemovedStaysRemoved
    <2>2. RegisteredAreStored
        BY DEF DevicesInv, Ids, RequestOK, Settled, RegisteredAreStored
    <2> QED
        BY <2>1, <2>2
<1> QED
    BY <1>1, DevicesStart, DevicesStep, PTL DEF DevicesSpec
=============================================================================

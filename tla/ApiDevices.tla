----------------------------- MODULE ApiDevices -----------------------------
(* apiserver/v1api/device.go: devices and their properties.  Handlers of      *)
(* concurrent requests interleave between the commands to the registry; those *)
(* that change properties read a document and write all of it back.           *)
EXTENDS Registry

CONSTANTS
    Requests,       \* requests, each served once
    ProductIds, DeviceIds, Names,
    Keys,           \* names of properties
    BulkSize,       \* bound: devices of a bulk registration
    Routes          \* the routes that are exercised

VARIABLES
    products,       \* identifiers of the products in the registry
    devices,        \* the collection of devices
    req,            \* what each request is doing
    used,           \* identifiers that util.NewObjectId has handed out
    removed,        \* history: devices that have been removed
    kept            \* history: properties of a device that were saved with success

deviceVars == <<products, devices, req, used, removed, kept>>

Waiting == [op |-> "none", at |-> "waiting"]

DevicesInit ==
    /\ products = ProductIds
    /\ devices = {}
    /\ req = [r \in Requests |-> Waiting]
    /\ used = {} /\ removed = {}
    /\ kept = [d \in DeviceIds |-> {}]

Begin(r, op, at, todo, sent) ==
    /\ op \in Routes /\ req[r].at = "waiting"
    /\ req' = [req EXCEPT ![r] = [op |-> op, at |-> at, todo |-> todo, sent |-> sent]]

Go(r, at) == req' = [req EXCEPT ![r].at = at]

NewDevice(p, n, d) == [product |-> p, device |-> d, name |-> n, props |-> {}]

\* RemoveProduct leaves the devices of the product alone.
RemoveProductRequest(r, p) ==
    /\ p \in products
    /\ Begin(r, "RemoveProduct", "ok", {}, {x.device : x \in GetProductDevices(devices, p)})
    /\ products' = products \ {p}
    /\ UNCHANGED <<devices, used, removed, kept>>

\* CreateDevice: nobody asks whether the product exists.
CreateDevice(r, p, n, d) ==
    /\ d \notin used
    /\ \/ /\ Begin(r, "CreateDevice", "ok", {}, {d})
          /\ devices' \in RegisterDevice(devices, NewDevice(p, n, d))
       \/ Begin(r, "CreateDevice", "error", {}, {d}) /\ UNCHANGED devices
    /\ used' = used \cup {d}
    /\ UNCHANGED <<products, removed, kept>>

\* BulkRegisterDevices makes up the documents, with new identifiers.
BulkRegisterDevices(r, p, n, ids) ==
    /\ ids \cap used = {}
    /\ Begin(r, "BulkRegisterDevices", "register", {NewDevice(p, n, d) : d \in ids}, ids)
    /\ used' = used \cup ids
    /\ UNCHANGED <<products, devices, removed, kept>>

\* Registry.BulkRegisterDevices registers one device after the other, and
\* returns at the first error: the devices before it stay registered.
RegisterNext(r) ==
    /\ req[r].at = "register"
    /\ \/ \E doc \in req[r].todo :
            /\ devices' \in RegisterDevice(devices, doc)
            /\ req' = [req EXCEPT ![r].todo = @ \ {doc},
                                  ![r].at = IF req[r].todo = {doc} THEN "ok" ELSE @]
       \/ Go(r, "error") /\ UNCHANGED devices
    /\ UNCHANGED <<products, used, removed, kept>>

RemoveDevice(r, p, d) ==
    /\ \/ /\ Begin(r, "RemoveDevice", "ok", {}, d)
          /\ devices' \in DeleteDevice(devices, p, d)
          /\ removed' = removed \cup {d}
          /\ kept' = [kept EXCEPT ![d] = {}]
       \/ Begin(r, "RemoveDevice", "error", {}, d) /\ UNCHANGED <<devices, removed, kept>>
    /\ UNCHANGED <<products, used>>

\* UpdateDevice (and UpdateShadowDevice) writes a document with the name alone.
UpdateDeviceRequest(r, p, n, d) ==
    /\ \/ /\ Begin(r, "UpdateDevice", "ok", {}, d)
          /\ devices' \in UpdateDevice(devices, NewDevice(p, n, d))
          /\ kept' = [kept EXCEPT ![d] = {}]
       \/ Begin(r, "UpdateDevice", "error", {}, d) /\ UNCHANGED <<devices, kept>>
    /\ UNCHANGED <<products, used, removed>>

\* SaveDeviceProps reads the device and merges the properties of the request.
SaveDeviceProps(r, p, d, ks) ==
    /\ \/ \E doc \in GetDevice(devices, p, d) :
            Begin(r, "SaveDeviceProps", "save", {[doc EXCEPT !.props = @ \cup ks]}, ks)
       \/ Begin(r, "SaveDeviceProps", "error", {}, ks)
    /\ UNCHANGED <<products, devices, used, removed, kept>>

\* Faulty variant: the document is stored again when the device is gone.
UpsertProps(r) ==
    /\ req[r].op = "SaveDeviceProps" /\ req[r].at = "save"
    /\ \E doc \in req[r].todo :
        devices' = {x \in devices : x.device # doc.device} \cup {doc}
    /\ Go(r, "ok")
    /\ UNCHANGED <<products, used, removed, kept>>

StoreProps(r) ==
    /\ req[r].op = "SaveDeviceProps" /\ req[r].at = "save"
    /\ \/ \E doc \in req[r].todo :
            /\ devices' \in UpdateDevice(devices, doc)
            /\ kept' = [kept EXCEPT ![doc.device] = @ \cup req[r].sent]
            /\ Go(r, "ok")
       \/ Go(r, "error") /\ UNCHANGED <<devices, kept>>
    /\ UNCHANGED <<products, used, removed>>

\* GetDevicesByName, and documents to be written back.
ReadByName(r, op, p, n, ks) ==
    /\ \/ LET read == GetDevicesByName(devices, p, n) IN
             Begin(r, op, "write", read, [keys |-> ks, to |-> {x.device : x \in read}])
       \/ Begin(r, op, "error", {}, ks)
    /\ UNCHANGED <<products, devices, used, removed, kept>>

\* SaveDevicePropsByName merges the properties into the loop variable, which is a
\* copy of the element: the documents written back are the ones that were read.
SaveDevicePropsByName(r, p, n, ks) == ReadByName(r, "SaveDevicePropsByName", p, n, ks)

\* RemoveDevicePropsByName empties the properties of a copy likewise.
RemoveDevicePropsByName(r, p, n) == ReadByName(r, "RemoveDevicePropsByName", p, n, {})

\* BulkUpdateDevice ignores the errors of the single updates.
BulkUpdateNext(r) ==
    /\ req[r].at = "write"
    /\ \/ /\ req[r].todo = {}
          /\ Go(r, "ok") /\ UNCHANGED devices
       \/ \E doc \in req[r].todo :
            /\ devices' \in UpdateDevice(devices, doc) \cup {devices}
            /\ req' = [req EXCEPT ![r].todo = @ \ {doc}]
    /\ UNCHANGED <<products, used, removed, kept>>

-----------------------------------------------------------------------------
DeviceRequest(r) ==
    \E p \in ProductIds :
        \/ RemoveProductRequest(r, p)
        \/ \E n \in Names :
            \/ \E ids \in SUBSET DeviceIds :
                  /\ Cardinality(ids) \in 1 .. BulkSize
                  /\ BulkRegisterDevices(r, p, n, ids)
            \/ \E ks \in (SUBSET Keys) \ {{}} : SaveDevicePropsByName(r, p, n, ks)
            \/ RemoveDevicePropsByName(r, p, n)
        \/ \E d \in DeviceIds :
            \/ RemoveDevice(r, p, d)
            \/ \E n \in Names : CreateDevice(r, p, n, d) \/ UpdateDeviceRequest(r, p, n, d)
            \/ \E ks \in (SUBSET Keys) \ {{}} : SaveDeviceProps(r, p, d, ks)

DevicesNext ==
    \E r \in Requests :
        DeviceRequest(r) \/ RegisterNext(r) \/ StoreProps(r) \/ BulkUpdateNext(r)

DevicesSpec == DevicesInit /\ [][DevicesNext]_deviceVars

-----------------------------------------------------------------------------
(* Properties.                                                                *)

\* A registration that was answered with OK has all its devices in the registry
\* until they are removed, also when the database failed in between.
RegisteredAreStored ==
    \A r \in Requests : (req[r].op \in {"CreateDevice", "BulkRegisterDevices"} /\ req[r].at = "ok") =>
        \A d \in req[r].sent : d \in removed \/ \E x \in devices : x.device = d

\* A device that was removed does not come back by a handler that read it before.
RemovedStaysRemoved == \A x \in devices : x.device \notin removed

\* Both: the registry has the devices that the answers of the API server promise.
DevicesAsAnswered == RegisteredAreStored /\ RemovedStaysRemoved

-----------------------------------------------------------------------------
(* What the code does not keep: TLC has a counterexample to each, see the   *)
(* known disagreements in the README.                                       *)

\* Properties that SaveDeviceProps has acknowledged are in the device: a later
\* request replaces the properties that it names, and no others.
SavedPropsKept ==
    \A x \in devices : x.device \notin removed => kept[x.device] \subseteq x.props

\* The devices that SaveDevicePropsByName found have the properties that it was
\* given once the request is answered.
SavedByName ==
    \A r \in Requests : (req[r].op = "SaveDevicePropsByName" /\ req[r].at = "ok") =>
        \A x \in devices : x.device \in req[r].sent.to => req[r].sent.keys \subseteq x.props

\* The devices of a product are deleted with it.
DeletedWithProduct ==
    \A r \in Requests : (req[r].op = "RemoveProduct" /\ req[r].at = "ok") =>
        \A x \in devices : x.device \notin req[r].sent
=============================================================================

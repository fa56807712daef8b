---------------------------- MODULE OutlayerApp -----------------------------
(***************************************************************************)
(* The outlayer app (contracts/outlayer/app): an admin publishes the hash  *)
(* of a code together with the URL it can be fetched from.                 *)
(***************************************************************************)
EXTENDS Naturals

CONSTANTS
    Admins,      \* accounts that may be admin
    AppHashes,   \* SHA-256 hashes of codes, and 0
    Urls,        \* URLs of codes
    NoUrl,       \* the empty URL
    AppDeposits  \* deposits attached to calls, in yoctoNEAR

ASSUME AppAssumption == 0 \in AppHashes /\ NoUrl \in Urls /\ AppDeposits \subseteq Nat

VARIABLES
    app,          \* State: admin_id, code_hash, code_url
    app_indexed   \* the State as a reader of the events knows it

appVars == <<app, app_indexed>>

AppState == [admin_id : Admins, code_hash : AppHashes, code_url : Urls]
-----------------------------------------------------------------------------
NewApp(admin) == [admin_id |-> admin, code_hash |-> 0, code_url |-> NoUrl]
WithCodeHash(st, hash) == [st EXCEPT !.code_hash = hash]
WithCodeUrl(st, url) == [st EXCEPT !.code_url = url]

(* The states that the near-oa tool prepares.                              *)
AppInits == {WithCodeUrl(WithCodeHash(NewApp(admin), hash), url) :
                 admin \in Admins, hash \in AppHashes, url \in Urls}

AppInit == app \in AppInits /\ app_indexed = app

IsAdmin(account) == app.admin_id = account
IsCurrentAppHash(hash) == app.code_hash = hash

(* OaEvent, as its readers apply it to what they know.                     *)
SetCodeEvent(st, hash, url) == [st EXCEPT !.code_hash = hash, !.code_url = url]
TransferAdminEvent(st, admin) == [st EXCEPT !.admin_id = admin]

SetCode(st, hash, url) == WithCodeUrl(WithCodeHash(st, hash), url)

oa_set_code(caller, deposit, old_hash, new_hash, new_url) ==
    /\ deposit > 0
    /\ IsAdmin(caller)
    /\ IsCurrentAppHash(old_hash)
    /\ app' = SetCode(app, new_hash, new_url)
    /\ app_indexed' = SetCodeEvent(app_indexed, new_hash, new_url)

oa_transfer_admin(caller, deposit, new_admin) ==
    /\ deposit = 1
    /\ IsAdmin(caller)
    /\ ~ IsAdmin(new_admin)
    /\ app' = [app EXCEPT !.admin_id = new_admin]
    /\ app_indexed' = TransferAdminEvent(app_indexed, new_admin)

AppNext ==
    \/ \E caller \in Admins, deposit \in AppDeposits, old, new \in AppHashes,
          url \in Urls : oa_set_code(caller, deposit, old, new, url)
    \/ \E caller, new_admin \in Admins, deposit \in AppDeposits :
           oa_transfer_admin(caller, deposit, new_admin)

AppSpec == AppInit /\ [][AppNext]_appVars
=============================================================================

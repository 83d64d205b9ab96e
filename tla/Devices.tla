------------------------------- MODULE Devices -------------------------------
(***************************************************************************)
(* The life of a VPN device in the API: the handlers of routes/devices.rs, *)
(* routes/admin.rs and routes/me.rs that write its row or its peer, the    *)
(* quota sweep, the retention purge and the start of the API, with the     *)
(* three places they keep in step: the rows of PostgreSQL, the in-memory   *)
(* address allocator, and the peers of the running WireGuard interface.    *)
(*                                                                         *)
(* The interface is the one the `kernel' and `shell' backends of           *)
(* WgController drive peer by peer.  It is modelled by its routing: which  *)
(* key an address belongs to.  A peer without an address carries nothing.  *)
(* With the host-agent backend, add_peer and remove_peer only ask for a    *)
(* reconcile: that is module HostReconcile.                                *)
(*                                                                         *)
(* A handler is a sequence of steps, one for each statement, allocator     *)
(* call or peer change, and others run in between.  What a handler read at *)
(* its start it uses to its end.  Audit, notification and rendering are    *)
(* left out: where they fail, the handler is abandoned.                    *)
(***************************************************************************)
EXTENDS IpAllocator, FiniteSets

CONSTANTS
    Tasks,         \* requests the API works on at a time
    Users,         \* the accounts
    Nobody,        \* not an account
    DeviceLimit,   \* users.device_limit of a new account
    MaxLimit,      \* bound on the limits administrators set
    MaxOps,        \* bound on requests
    MaxMeter,      \* bound on changes of usage or caps
    MaxFaults      \* bound on failures

ASSUME DevicesAssumption ==
    /\ Nobody \notin Users
    /\ MaxLimit \in Nat /\ DeviceLimit \in 1..MaxLimit
    /\ MaxOps \in Nat /\ MaxMeter \in Nat /\ MaxFaults \in Nat

Ids == 1..(MaxOps + 1)     \* a device id, never used twice
Keys == 1..(MaxOps + 1)    \* a key pair: its public and its private part
NoKey == 0

Devices == [id : Ids, user : Users, ip : Offsets, key : Keys, priv : Keys,
            status : {"active", "paused", "revoked"}, auto_paused : BOOLEAN]

NoDevice == [id |-> 0, user |-> Nobody, ip |-> 0, key |-> NoKey, priv |-> NoKey,
             status |-> "revoked", auto_paused |-> FALSE]

VARIABLES
    users,              \* status of each account, see Gone
    limit,              \* users.device_limit
    devices,            \* the rows of the table, by id
    alloc,              \* the allocator
    wg,                 \* the key each address is routed to
    overDevice,         \* devices at or over their own cap
    overUser,           \* accounts at or over theirs
    task,               \* the requests in progress
    sweep,              \* the quota sweep
    issued, minted,     \* ids and keys used
    manual,             \* history: devices whose last pause or resume was a request to pause
    slips,              \* history: the kinds of trouble met, see Slips
    ops, meter, faults  \* how much of the bounds is used

quotaVars == <<overDevice, overUser, limit, meter>>
vars == <<users, devices, alloc, wg, quotaVars, task, sweep, issued, minted,
          manual, slips, ops, faults>>

(* The kinds of trouble a promise below may have to except.  Requests that meet:
     overlap    two requests, or a request and the sweep, at one account at a time
     repeat     the address of a device that was revoked before is released again
     revived    a pause or resume wrote over the row of a device revoked meanwhile
     crossed    a key rotation stored its private key after another's public one
     late       a device made for an account after it had deleted itself
   Calls that by themselves leave the interface or the allocator behind the rows:
     paused     a peer added for a paused device (connect, key rotation)
     suspended  a peer added for an account that is not active (restart, admin resume)
     marked     a change of an account's status to or from `deleted', which moves no peer
     erased     an account with devices deleted itself
     server     the server's key pair was changed, which empties the interface
     orphan     an account purged with a device that was not on the list to tear down
   Failures:
     abandon    a handler cut short: client gone, statement failed, API stopped
     lost       an INSERT that took effect and reported an error
     wg         a peer change that failed, which handlers log and pass over *)
Slips == {"overlap", "repeat", "revived", "crossed", "late", "paused", "suspended", "marked",
          "erased", "server", "orphan", "abandon", "lost", "wg"}

\* An account whose row is gone, or hidden from every query: soft_delete sets deleted_at.
Gone == {"erased", "purged"}

Statuses == {"active", "suspended", "deleted"}   \* what an administrator may set

Idle == [pc |-> "idle", user |-> Nobody, dev |-> NoDevice, key |-> NoKey, to |-> "active",
         todo |-> {}]
Asleep == [pc |-> "asleep", dev |-> NoDevice, todo |-> {}]

(* The API has just started, with no device yet or with one of account u. *)
Init ==
    /\ users = [u \in Users |-> "active"]
    /\ limit = [u \in Users |-> DeviceLimit]
    /\ \E family \in Families :
           \/ /\ devices = [d \in {} |-> NoDevice]
              /\ alloc = NewAllocator(family)
              /\ wg = [o \in Offsets |-> NoKey]
              /\ issued = 0 /\ minted = 0
           \/ \E u \in Users, ip \in Reservable(NewAllocator(family)) :
              /\ devices = [d \in {1} |-> [id |-> 1, user |-> u, ip |-> ip, key |-> 1, priv |-> 1,
                                           status |-> "active", auto_paused |-> FALSE]]
              /\ alloc = Seeded(family, {ip})
              /\ wg = [o \in Offsets |-> IF o = ip THEN 1 ELSE NoKey]
              /\ issued = 1 /\ minted = 1
    /\ overDevice = {}
    /\ overUser = {}
    /\ task = [t \in Tasks |-> Idle]
    /\ sweep = Asleep
    /\ manual = {}
    /\ slips = {}
    /\ ops = 0
    /\ meter = 0
    /\ faults = 0

-----------------------------------------------------------------------------
Rows == {devices[d] : d \in DOMAIN devices}

\* list_for_user: the rows an account is charged for.
list_for_user(u) == {r \in Rows : r.user = u /\ r.status # "revoked"}


(* The partial unique index of migration 2: another device that is not revoked
   has the address. *)
Conflict(ip, d) == \E r \in Rows : r.id # d /\ r.ip = ip /\ r.status # "revoked"

(* add_peer: the key has the address and no other, and the address no other key. *)
add_peer(w, k, ip) ==
    [o \in Offsets |-> IF o = ip THEN k ELSE IF w[o] = k THEN NoKey ELSE w[o]]

(* remove_peer *)
remove_peer(w, k) == [o \in Offsets |-> IF w[o] = k THEN NoKey ELSE w[o]]

Goto(t, pc) == task' = [task EXCEPT ![t].pc = pc]
Finish(t) == task' = [task EXCEPT ![t] = Idle]

\* The loop over a list read before: one entry less, and the end after the last.
Continue(t, rest) ==
    IF rest = {} THEN Finish(t) ELSE task' = [task EXCEPT ![t].todo = rest]

\* These are excepted together with overlap: after one they need not be recorded.
WithOverlap == {"paused", "suspended", "marked", "server", "wg"}

Slip(s) == slips' = (slips \cup s) \ (IF "overlap" \in slips \cup s THEN WithOverlap ELSE {})

\* A peer change succeeds, or fails and is logged.
ChangesTo(w) ==
    \/ wg' = w /\ UNCHANGED <<slips, faults>>
    \/ /\ w # wg
       /\ faults < MaxFaults
       /\ faults' = faults + 1
       /\ Slip({"wg"})
       /\ UNCHANGED wg

\* Accounts some request or the sweep is at work for.
TaskUsers == {task[t].user : t \in Tasks} \ {Nobody}
SweepUsers == {r.user : r \in sweep.todo \cup {sweep.dev}} \ {Nobody}

\* A request is accepted and starts with record r; it may meet trouble s.
Accept(t, r, s) ==
    /\ task[t].pc = "idle"
    /\ ops < MaxOps
    /\ ops' = ops + 1
    /\ task' = [task EXCEPT ![t] = r]
    /\ Slip(s \cup (IF r.user \in TaskUsers \cup SweepUsers THEN {"overlap"} ELSE {}))

On(d, pc) == [Idle EXCEPT !.pc = pc, !.user = devices[d].user, !.dev = devices[d],
                          !.key = devices[d].key]

rowVars == <<users, devices, issued, manual>>

-----------------------------------------------------------------------------
(* Creation: create, and connect when it provisions. *)

(* The per-account cap is compared with the devices there are. *)
BeginCreate(t, u) ==
    /\ users[u] = "active"
    /\ Cardinality(list_for_user(u)) < limit[u]
    /\ Accept(t, [Idle EXCEPT !.pc = "allocate", !.user = u], {})
    /\ UNCHANGED <<rowVars, alloc, wg, quotaVars, sweep, minted, faults>>

\* A fresh key pair and the row to insert.
Draft(t, o) ==
    LET k == minted + 1
    IN  /\ alloc' = mark_allocated(alloc, o)
        /\ minted' = k
        /\ task' = [task EXCEPT ![t].pc = "insert", ![t].key = k,
                                ![t].dev = [id |-> 0, user |-> task[t].user, ip |-> o, key |-> k,
                                            priv |-> k, status |-> "active", auto_paused |-> FALSE]]

(* allocate_auto *)
AllocateAuto(t) ==
    /\ task[t].pc = "allocate"
    /\ IF Exhausted(alloc)
         THEN alloc' = ScanToEnd(alloc) /\ Finish(t) /\ UNCHANGED minted
         ELSE Draft(t, NextOffset(alloc))
    /\ UNCHANGED <<rowVars, wg, quotaVars, sweep, slips, ops, faults>>

(* reserve_specific: the address the caller asks for, if it can be had. *)
ReserveSpecific(t) ==
    /\ task[t].pc = "allocate"
    /\ \E o \in Reservable(alloc) : Draft(t, o)
    /\ UNCHANGED <<rowVars, wg, quotaVars, sweep, slips, ops, faults>>

\* INSERT: the account is there and the address is nobody else's.
Inserted(t) ==
    LET d == issued + 1
        r == [task[t].dev EXCEPT !.id = d]
    IN  /\ users[r.user] # "purged"
        /\ ~Conflict(r.ip, d)
        /\ issued' = d
        /\ devices' = [x \in DOMAIN devices \cup {d} |-> IF x = d THEN r ELSE devices[x]]

(* devices::create *)
Insert(t) ==
    /\ task[t].pc = "insert"
    /\ Inserted(t)
    /\ task' = [task EXCEPT ![t].pc = "stored", ![t].dev.id = issued']
    /\ UNCHANGED <<users, alloc, wg, quotaVars, sweep, minted, manual, slips, ops, faults>>

\* Mutant of InsertFails: the address is not given back.
InsertFailsKeeps(t) ==
    /\ task[t].pc = "insert"
    /\ Finish(t)
    /\ UNCHANGED <<rowVars, alloc, wg, quotaVars, sweep, minted, slips, ops, faults>>

(* The INSERT fails, for whatever reason: the address will be released. *)
InsertFails(t) ==
    /\ task[t].pc = "insert"
    /\ Goto(t, "release")
    /\ UNCHANGED <<rowVars, alloc, wg, quotaVars, sweep, minted, slips, ops, faults>>

(* The row is in the table, but the connection fails before the answer. *)
InsertUnanswered(t) ==
    /\ task[t].pc = "insert"
    /\ faults < MaxFaults
    /\ faults' = faults + 1
    /\ Inserted(t)
    /\ Goto(t, "release")
    /\ Slip({"lost"})
    /\ UNCHANGED <<users, alloc, wg, quotaVars, sweep, minted, manual, ops>>

Release(t) ==
    /\ task[t].pc = "release"
    /\ alloc' = release(alloc, task[t].dev.ip)
    /\ Finish(t)
    /\ UNCHANGED <<rowVars, wg, quotaVars, sweep, minted, slips, ops, faults>>

(* The row is read back before its peer is added. *)
ReadBack(t) ==
    /\ task[t].pc = "stored"
    /\ IF task[t].dev.id \in DOMAIN devices THEN Goto(t, "add") ELSE Finish(t)
    /\ UNCHANGED <<rowVars, alloc, wg, quotaVars, sweep, minted, slips, ops, faults>>

-----------------------------------------------------------------------------
(* The last step of most handlers: the peer change. *)

Add(t) ==
    /\ task[t].pc = "add"
    /\ ChangesTo(add_peer(wg, task[t].key, task[t].dev.ip))
    /\ Finish(t)
    /\ UNCHANGED <<rowVars, alloc, quotaVars, sweep, minted, ops>>

Remove(t) ==
    /\ task[t].pc = "remove"
    /\ ChangesTo(remove_peer(wg, task[t].dev.key))
    /\ Finish(t)
    /\ UNCHANGED <<rowVars, alloc, quotaVars, sweep, minted, ops>>

-----------------------------------------------------------------------------
(* connect with the id of a device that is not revoked: its peer is asserted
   again. *)
Reconnect(t, d) ==
    /\ users[devices[d].user] = "active"
    /\ devices[d].status # "revoked"
    /\ Accept(t, On(d, "add"), {"paused"} \cap {devices[d].status})
    /\ UNCHANGED <<rowVars, alloc, wg, quotaVars, sweep, minted, faults>>

(* rotate_keys *)
BeginRotate(t, d) ==
    /\ users[devices[d].user] = "active"
    /\ devices[d].status # "revoked"
    /\ minted' = minted + 1
    /\ Accept(t, [On(d, "rekey") EXCEPT !.key = minted'], {"paused"} \cap {devices[d].status})
    /\ UNCHANGED <<rowVars, alloc, wg, quotaVars, sweep, faults>>

\* Mutant of Rekey: the stored private key is left as it was.
RekeyPublicOnly(t) ==
    /\ task[t].pc = "rekey"
    /\ LET d == task[t].dev.id
       IN  IF d \in DOMAIN devices
             THEN Goto(t, "swap") /\ devices' = [devices EXCEPT ![d].key = task[t].key]
             ELSE Finish(t) /\ UNCHANGED devices
    /\ UNCHANGED <<users, alloc, wg, quotaVars, sweep, issued, minted, manual, slips, ops, faults>>

(* update_public_key *)
Rekey(t) ==
    /\ task[t].pc = "rekey"
    /\ LET d == task[t].dev.id
       IN  IF d \in DOMAIN devices
             THEN Goto(t, "store") /\ devices' = [devices EXCEPT ![d].key = task[t].key]
             ELSE Finish(t) /\ UNCHANGED devices
    /\ UNCHANGED <<users, alloc, wg, quotaVars, sweep, issued, minted, manual, slips, ops, faults>>

(* set_private_key_encrypted *)
StorePrivateKey(t) ==
    /\ task[t].pc = "store"
    /\ LET d == task[t].dev.id
       IN  IF d \in DOMAIN devices
             THEN /\ devices' = [devices EXCEPT ![d].priv = task[t].key]
                  /\ Slip(IF devices[d].key # task[t].key THEN {"crossed"} ELSE {})
             ELSE UNCHANGED <<devices, slips>>
    /\ Goto(t, "swap")
    /\ UNCHANGED <<users, alloc, wg, quotaVars, sweep, issued, minted, manual, ops, faults>>

\* The peer of the old key is removed; the new one is added next.
SwapPeer(t) ==
    /\ task[t].pc = "swap"
    /\ ChangesTo(remove_peer(wg, task[t].dev.key))
    /\ Goto(t, "add")
    /\ UNCHANGED <<rowVars, alloc, quotaVars, sweep, minted, ops>>

-----------------------------------------------------------------------------
(* delete and admin_revoke_device.  The owner's DELETE does not look at the
   status of the row; the administrator's refuses a revoked device. *)
BeginDelete(t, d) ==
    /\ devices[d].status = "revoked" => users[devices[d].user] = "active"
    /\ Accept(t, On(d, "revoke"), {})
    /\ UNCHANGED <<rowVars, alloc, wg, quotaVars, sweep, minted, faults>>

(* teardown_device: the row first, then the address, then the peer. *)
Revoke(t) ==
    /\ task[t].pc = "revoke"
    /\ LET d == task[t].dev.id
       IN  IF d \in DOMAIN devices
             THEN /\ devices' = [devices EXCEPT ![d].status = "revoked"]
                  /\ Slip(IF devices[d].status = "revoked" THEN {"repeat"} ELSE {})
                  /\ Goto(t, "free")
             ELSE Finish(t) /\ UNCHANGED <<devices, slips>>
    /\ UNCHANGED <<users, alloc, wg, quotaVars, sweep, issued, minted, manual, ops, faults>>

Free(t) ==
    /\ task[t].pc = "free"
    /\ alloc' = release(alloc, task[t].dev.ip)
    /\ Goto(t, "remove")
    /\ UNCHANGED <<rowVars, wg, quotaVars, sweep, minted, slips, ops, faults>>

\* Mutant of BeginPause: a revoked device may change its status.
BeginPauseAny(t, d, target) ==
    /\ Accept(t, On(d, target),
              IF target = "unpause" /\ users[devices[d].user] # "active" THEN {"suspended"} ELSE {})
    /\ UNCHANGED <<rowVars, alloc, wg, quotaVars, sweep, minted, faults>>

(* set_pause_state and admin_set_device_pause, up to the check of the status
   that was read.  An administrator may resume a device of an account that is not active. *)
BeginPause(t, d, target) ==
    /\ devices[d].status # "revoked"
    /\ Accept(t, On(d, target),
              IF target = "unpause" /\ users[devices[d].user] # "active" THEN {"suspended"} ELSE {})
    /\ UNCHANGED <<rowVars, alloc, wg, quotaVars, sweep, minted, faults>>

(* apply_pause_state: set_status writes whatever the status is by now.  The
   unique index may refuse to make a row count again; auto_paused stays. *)
SetPauseState(t) ==
    /\ task[t].pc \in {"pause", "unpause"}
    /\ LET d == task[t].dev.id
           to == IF task[t].pc = "pause" THEN "paused" ELSE "active"
       IN  IF d \in DOMAIN devices /\ ~Conflict(devices[d].ip, d)
             THEN /\ devices' = [devices EXCEPT ![d].status = to]
                  /\ manual' = IF to = "paused" THEN manual \cup {d} ELSE manual \ {d}
                  /\ Slip(IF devices[d].status = "revoked" THEN {"revived"} ELSE {})
                  /\ Goto(t, IF to = "paused" THEN "remove" ELSE "add")
             ELSE Finish(t) /\ UNCHANGED <<devices, manual, slips>>
    /\ UNCHANGED <<users, alloc, wg, quotaVars, sweep, issued, minted, ops, faults>>

-----------------------------------------------------------------------------
(* set_user_status.  Whether the peers follow depends on the status read before
   the update: only a suspension and its end move them. *)
BeginSetStatus(t, u, to) ==
    /\ users[u] \notin Gone
    /\ Accept(t, [Idle EXCEPT !.user = u, !.to = to,
                              !.pc = CASE to = "suspended" /\ users[u] # "suspended" -> "suspend"
                                       [] to = "active" /\ users[u] = "suspended"    -> "reinstate"
                                       [] OTHER                                      -> "mark"],
              IF "deleted" \in {to, users[u]} THEN {"marked"} ELSE {})
    /\ UNCHANGED <<rowVars, alloc, wg, quotaVars, sweep, minted, faults>>

(* admin_set_status *)
SetUserStatus(t) ==
    /\ task[t].pc \in {"suspend", "reinstate", "mark"}
    /\ LET u == task[t].user
       IN  IF users[u] \in Gone
             THEN Finish(t) /\ UNCHANGED users
             ELSE /\ users' = [users EXCEPT ![u] = task[t].to]
                  /\ CASE task[t].pc = "suspend"   -> Goto(t, "list down")
                       [] task[t].pc = "reinstate" -> Goto(t, "list up")
                       [] task[t].pc = "mark"      -> Finish(t)
    /\ UNCHANGED <<devices, alloc, wg, quotaVars, sweep, issued, minted, manual, slips, ops, faults>>

(* remove_user_peers and restore_user_peers read the active devices ... *)
ListPeers(t) ==
    /\ task[t].pc \in {"list down", "list up"}
    /\ LET active == {r \in list_for_user(task[t].user) : r.status = "active"}
       IN  IF active = {}
             THEN Finish(t)
             ELSE task' = [task EXCEPT ![t].todo = active,
                                       ![t].pc = IF @ = "list down" THEN "down" ELSE "up"]
    /\ UNCHANGED <<rowVars, alloc, wg, quotaVars, sweep, minted, slips, ops, faults>>

(* ... and change their peers one by one, past any that fails. *)
ChangePeer(t) ==
    /\ task[t].pc \in {"down", "up"}
    /\ \E r \in task[t].todo :
           /\ ChangesTo(IF task[t].pc = "down" THEN remove_peer(wg, r.key) ELSE add_peer(wg, r.key, r.ip))
           /\ Continue(t, task[t].todo \ {r})
    /\ UNCHANGED <<rowVars, alloc, quotaVars, sweep, minted, ops>>

(* set_user_device_limit: nothing is done about devices there are already. *)
SetDeviceLimit(u, n) ==
    /\ users[u] \notin Gone
    /\ n # limit[u]
    /\ ops < MaxOps
    /\ ops' = ops + 1
    /\ limit' = [limit EXCEPT ![u] = n]
    /\ UNCHANGED <<rowVars, alloc, wg, overDevice, overUser, meter, task, sweep, minted, slips, faults>>

(* rotate_server_keys: the interface is taken down and made anew from a file that
   has no peers, and nothing adds them (reapply_wg_interface). *)
RotateServerKeys ==
    /\ ops < MaxOps
    /\ ops' = ops + 1
    /\ wg' = [o \in Offsets |-> NoKey]
    /\ Slip({"server"})
    /\ UNCHANGED <<rowVars, alloc, quotaVars, task, sweep, minted, faults>>

-----------------------------------------------------------------------------
(* delete_user: the devices are listed, the account and all it owns purged, and
   only then the peers of the active ones removed and the addresses released. *)
BeginDeleteUser(t, u) ==
    /\ users[u] \notin Gone
    /\ Accept(t, [Idle EXCEPT !.user = u, !.pc = "list all"], {})
    /\ UNCHANGED <<rowVars, alloc, wg, quotaVars, sweep, minted, faults>>

\* A listing that fails is taken for an empty one.
ListAll(t) ==
    /\ task[t].pc = "list all"
    /\ \/ /\ task' = [task EXCEPT ![t].pc = "purge", ![t].todo = list_for_user(task[t].user)]
          /\ UNCHANGED faults
       \/ /\ faults < MaxFaults
          /\ faults' = faults + 1
          /\ Goto(t, "purge")
    /\ UNCHANGED <<rowVars, alloc, wg, quotaVars, sweep, minted, slips, ops>>

\* The row of account u goes, and those of its devices with it.
PurgeRows(u) ==
    /\ users' = [users EXCEPT ![u] = "purged"]
    /\ devices' = [d \in {x \in DOMAIN devices : devices[x].user # u} |-> devices[d]]
    /\ manual' = manual \cap DOMAIN devices'
    /\ overDevice' = overDevice \cap DOMAIN devices'
    /\ overUser' = overUser \ {u}

(* hard_delete *)
Purge(t) ==
    /\ task[t].pc = "purge"
    /\ PurgeRows(task[t].user)
    /\ IF task[t].todo = {} THEN Finish(t) ELSE Goto(t, "teardown")
    /\ LET listed == {r.id : r \in task[t].todo}
           live   == {r.id : r \in list_for_user(task[t].user)}
       IN  Slip(  (IF live \subseteq listed THEN {} ELSE {"orphan"})
             \cup (IF listed \subseteq live THEN {} ELSE {"repeat"}))
    /\ UNCHANGED <<alloc, wg, limit, meter, sweep, issued, minted, ops, faults>>

(* The devices listed are torn down in turn: the peer of an active one first ... *)
TearDown(t) ==
    /\ task[t].pc = "teardown"
    /\ \E r \in task[t].todo :
           /\ IF r.status = "active" THEN ChangesTo(remove_peer(wg, r.key))
                                     ELSE UNCHANGED <<wg, slips, faults>>
           /\ task' = [task EXCEPT ![t].pc = "give back", ![t].dev = r, ![t].todo = @ \ {r}]
    /\ UNCHANGED <<rowVars, alloc, quotaVars, sweep, minted, ops>>

(* ... and then the address. *)
GiveBack(t) ==
    /\ task[t].pc = "give back"
    /\ alloc' = release(alloc, task[t].dev.ip)
    /\ IF task[t].todo = {} THEN Finish(t) ELSE Goto(t, "teardown")
    /\ UNCHANGED <<rowVars, wg, quotaVars, sweep, minted, slips, ops, faults>>

(* delete_account, by which an account deletes itself. *)
BeginDeleteAccount(t, u) ==
    /\ users[u] = "active"
    /\ Accept(t, [Idle EXCEPT !.user = u, !.pc = "erase"], {})
    /\ UNCHANGED <<rowVars, alloc, wg, quotaVars, sweep, minted, faults>>

(* soft_delete: one transaction hides the account and revokes all its devices. *)
SoftDelete(t) ==
    /\ task[t].pc = "erase"
    /\ LET u == task[t].user
       IN  /\ users' = [users EXCEPT ![u] = IF @ = "purged" THEN @ ELSE "erased"]
           /\ devices' = [d \in DOMAIN devices |->
                             IF devices[d].user = u THEN [devices[d] EXCEPT !.status = "revoked"]
                                                    ELSE devices[d]]
           /\ Slip(IF list_for_user(u) # {} THEN {"erased"} ELSE {})
    /\ Goto(t, "list rest")
    /\ UNCHANGED <<alloc, wg, quotaVars, sweep, issued, minted, manual, ops, faults>>

(* Only then its devices are listed to be torn down; revoked ones are not listed. *)
ListRest(t) ==
    /\ task[t].pc = "list rest"
    /\ LET rest == list_for_user(task[t].user)
       IN  IF rest = {}
             THEN Finish(t) /\ UNCHANGED slips
             ELSE /\ task' = [task EXCEPT ![t].pc = "teardown", ![t].todo = rest]
                  /\ Slip({"late"})
    /\ UNCHANGED <<rowVars, alloc, wg, quotaVars, sweep, minted, ops, faults>>

(* The retention pass of the worker: 30 days later the rows go. *)
PurgeErased(u) ==
    /\ users[u] = "erased"
    /\ PurgeRows(u)
    /\ Slip(IF list_for_user(u) # {} THEN {"orphan"} ELSE {})
    /\ UNCHANGED <<alloc, wg, limit, meter, task, sweep, issued, minted, ops, faults>>

-----------------------------------------------------------------------------
(* The quota sweep (run_once), once a minute. *)

\* Mutant of OverCap: only the device's own cap is looked at.
OverCapOwn(r) == r.id \in overDevice

\* At or over the device's own cap or the account's.
OverCap(r) == r.id \in overDevice \/ r.user \in overUser

\* Mutant of resume_candidates: the owner's status is not looked at.
ResumeAnyones == {r \in Rows : r.auto_paused /\ r.status = "paused" /\ ~OverCap(r)}

resume_candidates ==
    {r \in Rows : r.auto_paused /\ r.status = "paused" /\ users[r.user] = "active" /\ ~OverCap(r)}

pause_candidates ==
    {r \in Rows : r.status = "active" /\ users[r.user] = "active" /\ OverCap(r)}

\* The sweep is at a list it has just read.
Candidates(pc, rows) ==
    /\ sweep' = [pc |-> pc, dev |-> NoDevice, todo |-> rows]
    /\ Slip(IF \E r \in rows : r.user \in TaskUsers THEN {"overlap"} ELSE {})

(* reset_due_users and reset_due_devices: the month of some is over. *)
SweepReset ==
    /\ sweep.pc = "asleep"
    /\ overDevice # {} \/ overUser # {}
    /\ \E D \in SUBSET overDevice : overDevice' = overDevice \ D
    /\ \E U \in SUBSET overUser : overUser' = overUser \ U
    /\ UNCHANGED <<rowVars, alloc, wg, limit, meter, task, sweep, minted, slips, ops, faults>>

(* The devices to resume are listed and seen to, and then those to pause.  A list
   with nothing on it leaves no trace, so the next one is read in the same step. *)
SweepFind ==
    /\ sweep.todo = {} /\ sweep.dev = NoDevice
    /\ LET pausing == IF pause_candidates = {}
                        THEN sweep' = Asleep /\ UNCHANGED slips
                        ELSE Candidates("pause", pause_candidates)
       IN  CASE sweep.pc = "asleep" -> IF resume_candidates = {}
                                         THEN pausing
                                         ELSE Candidates("resume", resume_candidates)
             [] sweep.pc = "resume" -> pausing
             [] sweep.pc = "pause"  -> sweep' = Asleep /\ UNCHANGED slips
    /\ UNCHANGED <<rowVars, alloc, wg, quotaVars, task, minted, ops, faults>>

(* mark_resumed and mark_auto_paused look at the status again; when it has
   changed since the list was read, the device is skipped. *)
SweepMark ==
    /\ sweep.pc \in {"resume", "pause"}
    /\ \E r \in sweep.todo :
           LET d       == r.id
               resumes == sweep.pc = "resume"
               marks   == /\ d \in DOMAIN devices
                          /\ IF resumes THEN devices[d].status = "paused" /\ devices[d].auto_paused
                                        ELSE devices[d].status = "active"
           IN  /\ devices' = IF marks
                               THEN [devices EXCEPT ![d].status = IF resumes THEN "active" ELSE "paused",
                                                    ![d].auto_paused = ~resumes]
                               ELSE devices
               /\ sweep' = [pc   |-> IF ~marks THEN sweep.pc ELSE IF resumes THEN "up" ELSE "down",
                            dev  |-> IF marks THEN r ELSE NoDevice,
                            todo |-> sweep.todo \ {r}]
    /\ UNCHANGED <<users, alloc, wg, quotaVars, task, issued, minted, manual, slips, ops, faults>>

SweepPeer ==
    /\ sweep.pc \in {"up", "down"}
    /\ ChangesTo(IF sweep.pc = "up" THEN add_peer(wg, sweep.dev.key, sweep.dev.ip)
                                    ELSE remove_peer(wg, sweep.dev.key))
    /\ sweep' = [sweep EXCEPT !.pc = IF @ = "up" THEN "resume" ELSE "pause", !.dev = NoDevice]
    /\ UNCHANGED <<rowVars, alloc, quotaVars, task, minted, ops>>

(* A statement of the sweep fails: the rest waits for the next minute. *)
SweepFails ==
    /\ sweep.pc \in {"resume", "pause"}
    /\ faults < MaxFaults
    /\ faults' = faults + 1
    /\ sweep' = Asleep
    /\ UNCHANGED <<rowVars, alloc, wg, quotaVars, task, minted, slips, ops>>

-----------------------------------------------------------------------------
\* Used or left: the element changes sides.
Toggle(S, x) == IF x \in S THEN S \ {x} ELSE S \cup {x}

(* The worker adds to the counters, and owners and administrators change the
   caps (set_my_quota, set_device_quota, set_user_quota): a device or an account
   comes over its cap, or under it. *)
Meter ==
    /\ meter < MaxMeter
    /\ meter' = meter + 1
    /\ \/ \E d \in DOMAIN devices : overDevice' = Toggle(overDevice, d) /\ UNCHANGED overUser
       \/ \E u \in Users : users[u] \notin Gone /\ overUser' = Toggle(overUser, u) /\ UNCHANGED overDevice
    /\ UNCHANGED <<rowVars, limit, alloc, wg, task, sweep, minted, slips, ops, faults>>

(* A handler is dropped at an await: its client has gone, or a statement on its
   way failed. *)
Abandon(t) ==
    /\ task[t].pc # "idle"
    /\ faults < MaxFaults
    /\ faults' = faults + 1
    /\ Finish(t)
    /\ Slip({"abandon"})
    /\ UNCHANGED <<rowVars, alloc, wg, quotaVars, sweep, minted, ops>>

\* Mutant of allocated_ips: only the addresses of active devices are in use.
ActiveIps == {r.ip : r \in {x \in Rows : x.status = "active"}}

(* allocated_ips_for_server *)
allocated_ips == {r.ip : r \in {x \in Rows : x.status # "revoked"}}

\* reconcile_peers: the active devices, whoever owns them.
ActiveRows == {r \in Rows : r.status = "active"}

Reconciled(w, rows) ==
    [o \in Offsets |->
        IF \E r \in rows : r.ip = o THEN (CHOOSE r \in rows : r.ip = o).key
        ELSE IF w[o] \in {r.key : r \in rows} THEN NoKey ELSE w[o]]

(* The API stops and starts again, on an interface that is still there or on a
   new one: the allocator is built from the rows and the active peers added, but
   for those whose add_peer fails. *)
Restart ==
    /\ faults < MaxFaults
    /\ faults' = faults + 1
    /\ task' = [t \in Tasks |-> Idle]
    /\ sweep' = Asleep
    /\ alloc' = Seeded(alloc.family, allocated_ips)
    /\ \E w \in {wg, [o \in Offsets |-> NoKey]}, rows \in SUBSET ActiveRows :
           /\ wg' = Reconciled(w, rows)
           /\ Slip(  (IF TaskUsers # {} \/ sweep.dev # NoDevice THEN {"abandon"} ELSE {})
                \cup (IF \E r \in rows : users[r.user] # "active" THEN {"suspended"} ELSE {})
                \cup (IF rows # ActiveRows THEN {"wg"} ELSE {}))
    /\ UNCHANGED <<rowVars, quotaVars, minted, ops>>

-----------------------------------------------------------------------------
Request(t) ==
    \/ \E u \in Users : \/ BeginCreate(t, u)
                        \/ BeginDeleteUser(t, u)
                        \/ BeginDeleteAccount(t, u)
                        \/ \E to \in Statuses : BeginSetStatus(t, u, to)
    \/ \E d \in DOMAIN devices : \/ Reconnect(t, d)
                                 \/ BeginRotate(t, d)
                                 \/ BeginDelete(t, d)
                                 \/ \E target \in {"pause", "unpause"} : BeginPause(t, d, target)

\* Requests of one statement, or of one that matters here.
ShortRequest ==
    \/ \E u \in Users, n \in 1..MaxLimit : SetDeviceLimit(u, n)
    \/ RotateServerKeys

Step(t) ==
    \/ AllocateAuto(t) \/ ReserveSpecific(t) \/ Insert(t) \/ InsertFails(t) \/ Release(t)
    \/ ReadBack(t) \/ Add(t) \/ Remove(t)
    \/ Rekey(t) \/ StorePrivateKey(t) \/ SwapPeer(t)
    \/ Revoke(t) \/ Free(t) \/ SetPauseState(t)
    \/ SetUserStatus(t) \/ ListPeers(t) \/ ChangePeer(t)
    \/ ListAll(t) \/ Purge(t) \/ TearDown(t) \/ GiveBack(t)
    \/ SoftDelete(t) \/ ListRest(t)

Sweep == SweepReset \/ SweepFind \/ SweepMark \/ SweepPeer

Trouble ==
    \/ \E t \in Tasks : InsertUnanswered(t) \/ Abandon(t)
    \/ SweepFails \/ Restart

Next ==
    \/ \E t \in Tasks : Request(t) \/ Step(t)
    \/ ShortRequest
    \/ Sweep
    \/ Meter
    \/ \E u \in Users : PurgeErased(u)
    \/ Trouble

Spec == Init /\ [][Next]_vars

(* The runtime keeps the sweep's timer going.  No request is promised an end, and
   no month either. *)
FairSpec == Spec /\ WF_vars(SweepFind \/ SweepMark \/ SweepPeer)

-----------------------------------------------------------------------------
TaskPcs == {"idle", "allocate", "insert", "release", "stored", "add", "remove", "rekey", "store",
            "swap", "revoke", "free", "pause", "unpause", "suspend", "reinstate", "mark",
            "list down", "list up", "down", "up", "list all", "purge", "teardown", "give back",
            "erase", "list rest"}

\* A row as a handler may hold it: its id is 0 before the INSERT.
Drafts == [id : {0} \cup Ids, user : Users \cup {Nobody}, ip : Offsets, key : {NoKey} \cup Keys,
           priv : {NoKey} \cup Keys, status : {"active", "paused", "revoked"}, auto_paused : BOOLEAN]

(* Type correctness: every row, snapshot and allocator is one the code can hold. *)
TypeOK ==
    /\ users \in [Users -> Statuses \cup Gone]
    /\ limit \in [Users -> 1..MaxLimit]
    /\ DOMAIN devices \subseteq 1..issued
    /\ \A d \in DOMAIN devices : devices[d] \in Devices /\ devices[d].id = d
    /\ alloc \in Allocators
    /\ wg \in [Offsets -> {NoKey} \cup Keys]
    /\ overDevice \subseteq Ids /\ overUser \subseteq Users
    /\ \A t \in Tasks : /\ task[t].pc \in TaskPcs
                        /\ task[t].user \in Users \cup {Nobody}
                        /\ task[t].dev \in Drafts
                        /\ task[t].key \in {NoKey} \cup Keys
                        /\ task[t].to \in Statuses
                        /\ task[t].todo \subseteq Devices
    /\ sweep.pc \in {"asleep", "resume", "up", "pause", "down"}
    /\ sweep.dev \in Drafts /\ sweep.todo \subseteq Devices
    /\ issued \in 0..(MaxOps + 1) /\ minted \in 0..(MaxOps + 1)
    /\ manual \subseteq Ids /\ slips \subseteq Slips

Met(S) == slips \cap S # {}

LiveRows == {r \in Rows : r.status # "revoked"}

\* Nobody is at work.
Quiet == sweep.pc = "asleep" /\ \A t \in Tasks : task[t].pc = "idle"


(* The allocator never offers an address that a device still has, or a reserved
   one, whatever handlers run together, crash or are abandoned.  It may only once
   an address was released twice (a DELETE repeated, or run beside another
   teardown of the device), a device revived or made after the deletion it was
   meant to be gone with, or an INSERT's answer lost (each releases the address
   of a row that stays). *)
AllocatorCovers ==
    ~Met({"repeat", "revived", "late", "lost"}) =>
        Reserved(alloc.family) \cup {r.ip : r \in LiveRows} \subseteq alloc.taken

\* The requests that hold an address which is in no row of theirs yet.
Holding == {t \in Tasks : task[t].pc \in {"insert", "release"}}

(* Between allocate and INSERT an address is the request's alone: taken in the
   allocator, in no other request's hands and in no live row, whatever is revoked,
   resumed, purged or restarted meanwhile.  So the index refuses an INSERT for
   its address only after one of the troubles AllocatorCovers excepts. *)
DraftsAreExclusive ==
    ~Met({"repeat", "revived", "late", "lost"}) =>
        \A t \in Holding :
            LET ip == task[t].dev.ip
            IN  /\ ip \in alloc.taken
                /\ \A r \in LiveRows : r.ip # ip
                /\ \A x \in Holding \ {t} : task[x].dev.ip # ip

(* When nobody is at work the allocator holds no address back: what requests took
   and did not use, and what revoked or purged devices had, is released, whatever
   ran together, and whichever INSERT or peer change failed.  Four things do leak
   an address until the API restarts: a handler cut short, an account that deletes
   itself (delete_account), an account purged while its devices were not listed
   or while it got another one (delete_user), and the retention purge of one that
   got a device after its deletion. *)
NoLeakedAddress ==
    Quiet /\ ~Met({"abandon", "erased", "orphan"}) =>
        alloc.taken \subseteq Reserved(alloc.family) \cup {r.ip : r \in LiveRows}

(* When nobody is at work, the interface routes exactly the active devices of
   active accounts, each by its current key: creation, pauses and resumes by hand
   and by the sweep, suspension and its end, rotation, revocation, repeated or
   not, deletion by an administrator and restarts leave it so, if they do not
   overlap at one account.  Everything else in Slips breaks it: connect to or
   rotation of a paused device, a restart while an account is suspended, a status
   set to `deleted', an account that deletes itself, a change of the server's
   keys, and failures. *)
WgMatchesRows ==
    Quiet /\ slips \subseteq {"repeat"} =>
        \A o \in Offsets : \A k \in Keys :
            wg[o] = k <=> \E r \in Rows : /\ r.ip = o /\ r.key = k
                                          /\ r.status = "active" /\ users[r.user] = "active"

(* The private key a profile is rendered from belongs to the public key of the
   row, but while a rotation is between its two updates (update_public_key,
   set_private_key_encrypted): whatever runs beside the rotation, unless it is
   cut short there or another rotation of the device comes in between. *)
StoredKeyMatches ==
    ~Met({"abandon", "crossed"}) =>
        \A d \in DOMAIN devices :
            \/ devices[d].priv = devices[d].key
            \/ \E t \in Tasks : task[t].pc = "store" /\ task[t].dev.id = d

(* A revoked row stays revoked until it is purged, through sweeps, restarts and
   every interleaving, but for one way back: a pause or resume that had read the
   row before the DELETE and writes after it (set_status does not look at the
   status it replaces). *)
RevokedIsFinal ==
    [][ \A d \in DOMAIN devices \cap DOMAIN devices' :
            devices[d].status = "revoked" /\ devices'[d].status # "revoked" =>
                \E t \in Tasks : /\ task[t].pc \in {"pause", "unpause"}
                                 /\ task[t].dev.id = d /\ task[t].dev.status # "revoked" ]_vars

\* An active device of an active account at or over a cap.
Overdrawn(d) ==
    /\ d \in DOMAIN devices
    /\ devices[d].status = "active" /\ users[devices[d].user] = "active"
    /\ d \in overDevice \/ devices[d].user \in overUser

(* Enforcement happens: the row of such a device is paused, or no longer over its
   cap, in the end, even if sweeps fail half-way or the API restarts.  This is
   about the row: a remove_peer that fails is logged and leaves the peer up. *)
EnforcementHappens == \A d \in Ids : Overdrawn(d) ~> ~Overdrawn(d)

(* quota.rs: "a user's *manual* pause is never disturbed by the reset sweep". *)
ManualPauseHolds ==
    ~Met({"overlap"}) => \A d \in manual : devices[d].status # "active"

(* admin.rs: "Only `Active` devices have a peer registered on the WG box"; with
   suspension, no peer of a paused device or a suspended account. *)
OffMeansOff ==
    Quiet /\ ~Met({"overlap", "marked", "erased", "abandon", "lost", "wg"}) =>
        \A r \in Rows : r.status # "active" \/ users[r.user] # "active" => wg[r.ip] # r.key

(* me.rs, of an account that deletes itself: "Tear down the live WG peers AND
   release device IPs from the in-memory allocator". *)
DeletedAccountIsTornDown ==
    Quiet /\ ~Met({"overlap", "abandon", "wg"}) =>
        \A r \in Rows : users[r.user] = "erased" =>
            /\ wg[r.ip] # r.key
            /\ r.ip \in alloc.taken => \E x \in LiveRows : x.ip = r.ip
=============================================================================

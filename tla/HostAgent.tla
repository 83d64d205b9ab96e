------------------------------ MODULE HostAgent ------------------------------
(***************************************************************************)
(* The privileged host agent (crates/zerovpn-host-agent): concurrent       *)
(* ApplyState handlers, the apply coordinator with its rollback journal,   *)
(* both host backends, and the start-up gate that verifies or restores the *)
(* tunnel.  A handler is one `apply_state' task; `Boot' is the start-up    *)
(* task, which runs the same backend steps on the journalled state.        *)
(*                                                                         *)
(* The host is abstracted to what the agent's own checks tell apart: the   *)
(* wg0 link (absent, partly set up, configured but down, up), the peers it *)
(* serves, and the VPN-owned firewall chains (none, some, all).            *)
(* HostCutover takes the firewall and tunnel steps apart into commands.    *)
(***************************************************************************)
EXTENDS Naturals

CONSTANTS
    Handlers,        \* ApplyState requests the agent may be serving at once
    Boot,            \* the start-up task
    Nobody,          \* "the apply lock is free"
    Servers,         \* server public keys a request may name
    AgentKey,        \* the public key of the private key file on the host
    PeerLists,       \* peer lists a request may carry
    ValidPeerLists,  \* those that pass DesiredState::validate
    Unknown,         \* the peers of a half-configured interface
    MaxRevision,     \* bound on the revisions requested
    Faults           \* the failure classes the environment may inject

FaultClasses == {"fsync", "reload", "late", "dirty", "crash", "reboot"}

ASSUME HostAgentAssumption ==
    /\ Boot \notin Handlers
    /\ Nobody \notin Handlers \cup {Boot}
    /\ AgentKey \in Servers
    /\ ValidPeerLists \subseteq PeerLists
    /\ Unknown \notin PeerLists
    /\ MaxRevision \in Nat
    /\ Faults \subseteq FaultClasses

VARIABLES
    agent,     \* the agent process: "down", "restoring", "serving"
    journal,   \* last-known-good.json as processes read it
    survivors, \* what a power loss may leave of last-known-good.json
    host,      \* the data plane: wg0, its peers, the owned firewall chains
    lock,      \* the holder of apply.lock
    task,      \* the program state of each handler and of start-up
    operator,  \* this agent run reported "operator recovery required"
    acked      \* states some client was told are applied

vars == <<agent, journal, survivors, host, lock, task, operator, acked>>

-----------------------------------------------------------------------------
Tasks == Handlers \cup {Boot}

DesiredStates == [revision : 1..MaxRevision, server : Servers, peers : PeerLists]

NoState == [revision |-> 0, server |-> AgentKey, peers |-> Unknown]

Journals == DesiredStates \cup {NoState}

Hosts == [wg : {"absent", "partial", "configured", "up"},
          peers : PeerLists \cup {Unknown},
          fw : {"none", "partial", "full"}]

Absent == [wg |-> "absent", peers |-> Unknown, fw |-> "none"]

wg0_exists == host.wg # "absent"

\* verify_restarted_host: the interface's identity, address and exact peers
\* and every owned rule.  Nothing it runs asks whether the link is up.
Verified(s) == /\ host.wg \in {"configured", "up"}
               /\ host.peers = s.peers
               /\ host.fw = "full"

\* DesiredState::validate, after the revision test.
validate(s) == s.peers \in ValidPeerLists

Pcs == {"idle", "open", "lock", "snapshot", "sync", "firewall", "tunnel",
        "verify", "record", "fsync", "rollback"}

TaskStates == [pc : Pcs, want : Journals, prev : Journals,
               fwOwned : BOOLEAN, wgOwned : BOOLEAN]

Idle == [pc |-> "idle", want |-> NoState, prev |-> NoState,
         fwOwned |-> FALSE, wgOwned |-> FALSE]

Updating(t) == task[t].prev.revision # 0

Goto(t, l) == task' = [task EXCEPT ![t].pc = l]

Finish(t) == task' = [task EXCEPT ![t] = Idle]

\* What a failed or interrupted `wg syncconf' may leave behind.
SyncLeftovers(t) ==
    {[host EXCEPT !.peers = p] : p \in {host.peers, task[t].want.peers, Unknown}}

\* What activate_wg0 may leave behind when it fails after `ip link add'.
TunnelLeftovers(t) ==
    {[host EXCEPT !.wg = "partial"]} \cup
    {[host EXCEPT !.wg = w, !.peers = task[t].want.peers] : w \in {"configured", "up"}}

\* What FirewallCommands::install or uninstall may leave of the owned chains
\* when it fails or is interrupted.
FirewallLeftovers(x) == {[x EXCEPT !.fw = f] : f \in {"none", "partial", "full"}}

Init ==
    /\ agent = "down"
    /\ journal = NoState
    /\ survivors = {NoState}
    /\ host = Absent
    /\ lock = Nobody
    /\ task = [t \in Tasks |-> Idle]
    /\ operator = FALSE
    /\ acked = {}

-----------------------------------------------------------------------------
(* A client sends ApplyState. *)
Receive(h) ==
    /\ agent = "serving"
    /\ task[h].pc = "idle"
    /\ \E s \in DesiredStates :
          task' = [task EXCEPT ![h] = [Idle EXCEPT !.pc = "open", !.want = s]]
    /\ UNCHANGED <<agent, journal, survivors, host, lock, operator, acked>>

(* apply_state reads the journal before the lock is taken and picks the
   backend from it: an update of a live wg0, or a first cutover. *)
Open(h) ==
    /\ task[h].pc = "open"
    /\ IF journal.revision # 0
         THEN wg0_exists /\ journal.server = AgentKey
         ELSE ~wg0_exists /\ task[h].want.server = AgentKey
    /\ task' = [task EXCEPT ![h].pc = "lock", ![h].prev = journal]
    /\ UNCHANGED <<agent, journal, survivors, host, lock, operator, acked>>

\* Mutant of Begin: the stale-revision test is missing.
BeginStale(h) ==
    /\ task[h].pc = "lock"
    /\ lock = Nobody
    /\ journal.revision # 0 => task[h].want.server = journal.server
    /\ validate(task[h].want)
    /\ lock' = h
    /\ Goto(h, "snapshot")
    /\ UNCHANGED <<agent, journal, survivors, host, operator, acked>>

(* ApplyCoordinator::apply takes the lock and re-reads the journal: stale
   revision, server identity and whole-state validation. *)
Begin(h) ==
    /\ task[h].pc = "lock"
    /\ lock = Nobody
    /\ task[h].want.revision > journal.revision
    /\ journal.revision # 0 => task[h].want.server = journal.server
    /\ validate(task[h].want)
    /\ lock' = h
    /\ Goto(h, "snapshot")
    /\ UNCHANGED <<agent, journal, survivors, host, operator, acked>>

\* Mutant of SnapshotUpdate: the host is not compared with the journal that was
\* read before the lock.
SnapshotUnverified(h) ==
    /\ task[h].pc = "snapshot"
    /\ Updating(h)
    /\ Goto(h, "sync")
    /\ UNCHANGED <<agent, journal, survivors, host, lock, operator, acked>>

(* PeerUpdateBackend::snapshot insists that the host still matches the journal
   that was read before the lock. *)
SnapshotUpdate(h) ==
    /\ task[h].pc = "snapshot"
    /\ Updating(h)
    /\ Verified(task[h].prev)
    /\ Goto(h, "sync")
    /\ UNCHANGED <<agent, journal, survivors, host, lock, operator, acked>>

(* HostCutoverBackend::snapshot insists on a host with neither wg0 nor owned
   chains. *)
SnapshotCutover(t) ==
    /\ task[t].pc = "snapshot"
    /\ ~Updating(t)
    /\ ~wg0_exists
    /\ host.fw = "none"
    /\ Goto(t, "firewall")
    /\ UNCHANGED <<agent, journal, survivors, host, lock, operator, acked>>

\* Mutant of Refuse: an early return leaks the lock.
RefuseKeepsLock(t) ==
    /\ task[t].pc \in {"open", "lock", "snapshot"}
    /\ agent' = IF t = Boot THEN "down" ELSE agent
    /\ Finish(t)
    /\ UNCHANGED <<journal, survivors, host, lock, operator, acked>>

(* Every refusal before the host is touched: a busy lock, a stale, foreign or
   invalid state, a host that is not ready, a failed audit or observation.
   The lock, if held, is dropped. *)
Refuse(t) ==
    /\ task[t].pc \in {"open", "lock", "snapshot"}
    /\ lock' = IF lock = t THEN Nobody ELSE lock
    /\ agent' = IF t = Boot THEN "down" ELSE agent
    /\ Finish(t)
    /\ UNCHANGED <<journal, survivors, host, operator, acked>>

(* `wg syncconf' of the candidate onto the live interface. *)
Sync(h) ==
    /\ task[h].pc = "sync"
    /\ \/ /\ host' = [host EXCEPT !.peers = task[h].want.peers]
          /\ Goto(h, "verify")
       \/ /\ host' \in SyncLeftovers(h)
          /\ Goto(h, "rollback")
    /\ UNCHANGED <<agent, journal, survivors, lock, operator, acked>>

(* FirewallCommands::install, which cleans up after itself when it fails; the
   clean-up may fail too ("dirty"). *)
InstallFirewall(t) ==
    /\ task[t].pc = "firewall"
    /\ \/ /\ host' = [host EXCEPT !.fw = "full"]
          /\ task' = [task EXCEPT ![t].pc = "tunnel", ![t].fwOwned = TRUE]
       \/ /\ host' \in IF "dirty" \in Faults THEN FirewallLeftovers(host) ELSE {host}
          /\ Goto(t, "rollback")
    /\ UNCHANGED <<agent, journal, survivors, lock, operator, acked>>

(* activate_wg0: link add, address, setconf, link up.  The interface is owned
   once `ip link add' has reported success. *)
ActivateTunnel(t) ==
    /\ task[t].pc = "tunnel"
    /\ \/ /\ host' = [host EXCEPT !.wg = "up", !.peers = task[t].want.peers]
          /\ task' = [task EXCEPT ![t].pc = "verify", ![t].wgOwned = TRUE]
       \/ /\ host' \in TunnelLeftovers(t)
          /\ task' = [task EXCEPT ![t].pc = "rollback", ![t].wgOwned = TRUE]
       \/ /\ host' \in {host} \cup
                IF "late" \in Faults THEN {[host EXCEPT !.wg = "partial"]} ELSE {}
          /\ Goto(t, "rollback")
    /\ UNCHANGED <<agent, journal, survivors, lock, operator, acked>>

(* HostBackend::verify and the apply_verified audit record. *)
Verify(t) ==
    /\ task[t].pc = "verify"
    /\ \/ Verified(task[t].want) /\ Goto(t, "record")
       \/ Goto(t, "rollback")
    /\ UNCHANGED <<agent, journal, survivors, host, lock, operator, acked>>

\* Mutant of Record: the caller is told as soon as the rename is done.
RecordAnswersEarly(h) ==
    /\ task[h].pc = "record"
    /\ h # Boot
    /\ \/ /\ journal' = task[h].want
          /\ survivors' = survivors \cup {journal'}
          /\ acked' = acked \cup {journal'}
          /\ Goto(h, "fsync")
       \/ UNCHANGED <<journal, survivors, acked>> /\ Goto(h, "rollback")
    /\ UNCHANGED <<agent, host, lock, operator>>

(* record_applied up to the rename: the candidate becomes readable and may reach
   the disk any time, or the write fails and nothing changes. *)
Record(h) ==
    /\ task[h].pc = "record"
    /\ h # Boot
    /\ \/ /\ journal' = task[h].want
          /\ survivors' = survivors \cup {journal'}
          /\ Goto(h, "fsync")
       \/ UNCHANGED <<journal, survivors>> /\ Goto(h, "rollback")
    /\ UNCHANGED <<agent, host, lock, operator, acked>>

\* Mutant of SyncJournal: a failed directory sync is reported as applied.
SyncErrorIgnored(h) ==
    /\ task[h].pc = "fsync"
    /\ survivors' \in {{journal}} \cup (IF "fsync" \in Faults THEN {survivors} ELSE {})
    /\ acked' = acked \cup {journal}
    /\ lock' = Nobody
    /\ Finish(h)
    /\ UNCHANGED <<agent, journal, host, operator>>

\* Mutant of SyncJournal: any error of record_applied rolls back.
SyncErrorRollsBack(h) ==
    /\ task[h].pc = "fsync"
    /\ \/ /\ survivors' = {journal}
          /\ acked' = acked \cup {journal}
          /\ lock' = Nobody
          /\ Finish(h)
       \/ /\ "fsync" \in Faults
          /\ Goto(h, "rollback")
          /\ UNCHANGED <<survivors, acked, lock>>
    /\ UNCHANGED <<agent, journal, host, operator>>

\* Mutant of SyncJournal: the answer names the state that was replaced.
SyncAnswersPrevious(h) ==
    /\ task[h].pc = "fsync"
    /\ survivors' = {journal}
    /\ acked' = acked \cup {task[h].prev}
    /\ lock' = Nobody
    /\ Finish(h)
    /\ UNCHANGED <<agent, journal, host, operator>>

(* The directory sync after the rename.  When it fails, the coordinator reads
   the journal again: if it sees its own state it keeps the host and reports
   an uncertain commit; if it cannot read it, it rolls the host back. *)
SyncJournal(h) ==
    /\ task[h].pc = "fsync"
    /\ \/ /\ survivors' = {journal}
          /\ acked' = acked \cup {journal}
          /\ lock' = Nobody
          /\ Finish(h)
       \/ /\ "fsync" \in Faults
          /\ lock' = Nobody
          /\ Finish(h)
          /\ UNCHANGED <<survivors, acked>>
       \/ /\ {"fsync", "reload"} \subseteq Faults
          /\ Goto(h, "rollback")
          /\ UNCHANGED <<survivors, acked, lock>>
    /\ UNCHANGED <<agent, journal, host, operator>>

(* The end of rollback_failure (or of a failed restore): the lock is dropped,
   and start-up gives up. *)
Abandon(t) ==
    /\ lock' = Nobody
    /\ agent' = IF t = Boot THEN "down" ELSE agent
    /\ Finish(t)
    /\ UNCHANGED <<journal, survivors, acked>>

(* PeerUpdateBackend::rollback: syncconf of the snapshot, verified against the
   state the backend was built with. *)
RollbackSync(h) ==
    /\ task[h].pc = "rollback"
    /\ Updating(h)
    /\ \/ /\ host' = [host EXCEPT !.peers = task[h].prev.peers]
          /\ UNCHANGED operator
       \/ /\ host' \in SyncLeftovers(h) \cup {[host EXCEPT !.peers = task[h].prev.peers]}
          /\ operator' = TRUE
    /\ Abandon(h)

\* wg0 removed if the backend owns it.
WithoutTunnel(t) ==
    IF task[t].wgOwned THEN [host EXCEPT !.wg = "absent", !.peers = Unknown] ELSE host

\* Mutant of RollbackCutover: the firewall is removed before the tunnel.
RollbackFirewallFirst(t) ==
    /\ task[t].pc = "rollback"
    /\ ~Updating(t)
    /\ \/ /\ host' = IF task[t].fwOwned THEN [WithoutTunnel(t) EXCEPT !.fw = "none"]
                                        ELSE WithoutTunnel(t)
          /\ UNCHANGED operator
       \/ /\ task[t].fwOwned
          /\ host' = [host EXCEPT !.fw = "none"]
          /\ operator' = TRUE
    /\ Abandon(t)

(* HostCutoverBackend::rollback: an owned wg0 goes first, and only then an
   installed firewall. *)
RollbackCutover(t) ==
    /\ task[t].pc = "rollback"
    /\ ~Updating(t)
    /\ \/ /\ host' = IF task[t].fwOwned THEN [WithoutTunnel(t) EXCEPT !.fw = "none"]
                                        ELSE WithoutTunnel(t)
          /\ UNCHANGED operator
       \/ /\ task[t].wgOwned
          /\ host' \in {host, WithoutTunnel(t)}
          /\ operator' = TRUE
       \/ /\ task[t].fwOwned
          /\ host' \in FirewallLeftovers(WithoutTunnel(t))
          /\ operator' = TRUE
    /\ Abandon(t)

-----------------------------------------------------------------------------
(* prepare_startup.  No journal: wg0 must be absent. *)
StartEmpty ==
    /\ agent = "down"
    /\ journal.revision = 0
    /\ ~wg0_exists
    /\ agent' = "serving"
    /\ operator' = FALSE
    /\ UNCHANGED <<journal, survivors, host, lock, task, acked>>

(* A journal and a wg0: they must agree. *)
StartVerified ==
    /\ agent = "down"
    /\ journal.revision # 0
    /\ journal.server = AgentKey
    /\ wg0_exists
    /\ Verified(journal)
    /\ agent' = "serving"
    /\ operator' = FALSE
    /\ UNCHANGED <<journal, survivors, host, lock, task, acked>>

(* A journal and no wg0: restore_from_journal takes the lock and drives the
   cutover backend with the journalled state. *)
StartRestore ==
    /\ agent = "down"
    /\ journal.revision # 0
    /\ journal.server = AgentKey
    /\ ~wg0_exists
    /\ lock = Nobody
    /\ agent' = "restoring"
    /\ operator' = FALSE
    /\ lock' = Boot
    /\ task' = [task EXCEPT ![Boot] = [Idle EXCEPT !.pc = "snapshot", !.want = journal]]
    /\ UNCHANGED <<journal, survivors, host, acked>>

(* The restored tunnel is verified.  If the final audit record cannot be
   written the process exits, and the host keeps the restored tunnel. *)
Restored ==
    /\ task[Boot].pc = "record"
    /\ agent' \in {"serving", "down"}
    /\ lock' = Nobody
    /\ Finish(Boot)
    /\ UNCHANGED <<journal, survivors, host, operator, acked>>

-----------------------------------------------------------------------------
\* What the host looks like if the agent dies inside the step it is running.
Interrupted ==
    {host} \cup
    IF lock = Nobody THEN {}
    ELSE CASE task[lock].pc = "sync"     -> SyncLeftovers(lock)
           [] task[lock].pc = "firewall" -> FirewallLeftovers(host)
           [] task[lock].pc = "tunnel"   -> TunnelLeftovers(lock)
           [] task[lock].pc = "rollback" /\ Updating(lock) -> SyncLeftovers(lock)
           [] task[lock].pc = "rollback" /\ ~Updating(lock) ->
                {WithoutTunnel(lock)} \cup
                IF task[lock].fwOwned THEN FirewallLeftovers(WithoutTunnel(lock)) ELSE {}
           [] OTHER -> {}

\* Handlers, the file lock and the run's reports end with the process.
ProcessEnds ==
    /\ agent' = "down"
    /\ task' = [t \in Tasks |-> Idle]
    /\ lock' = Nobody
    /\ operator' = FALSE
    /\ UNCHANGED acked

(* The agent process dies at any point; the host keeps what it has. *)
Crash ==
    /\ "crash" \in Faults
    /\ agent # "down"
    /\ host' \in Interrupted
    /\ ProcessEnds
    /\ UNCHANGED <<journal, survivors>>

(* The machine restarts: wg0 and the chains are gone, and of the renames since
   the last sync of the directory any number may be gone too. *)
Reboot ==
    /\ "reboot" \in Faults
    /\ host' = Absent
    /\ journal' \in survivors
    /\ survivors' = {journal'}
    /\ ProcessEnds

(* Start-up refuses a host that disagrees with the journal; an operator then
   removes wg0 and the owned chains by hand. *)
OperatorRecovery ==
    /\ agent = "down"
    /\ host # Absent
    /\ host' = Absent
    /\ UNCHANGED <<agent, journal, survivors, lock, task, operator, acked>>

\* The steps only an ApplyState handler takes.
Handle(h) ==
    \/ Open(h) \/ Begin(h) \/ SnapshotUpdate(h) \/ Sync(h)
    \/ Record(h) \/ SyncJournal(h) \/ RollbackSync(h)

\* The backend steps that handlers and start-up share.
Drive(t) ==
    \/ Refuse(t) \/ SnapshotCutover(t) \/ InstallFirewall(t) \/ ActivateTunnel(t)
    \/ Verify(t) \/ RollbackCutover(t)

Start == StartEmpty \/ StartVerified \/ StartRestore \/ Restored

Next ==
    \/ \E h \in Handlers : Receive(h) \/ Handle(h)
    \/ \E t \in Tasks : Drive(t)
    \/ Start
    \/ Crash \/ Reboot \/ OperatorRecovery

Spec == Init /\ [][Next]_vars

\* A task that has begun keeps running: it is a blocking thread whose commands
\* are killed after ten seconds, and nothing it waits for is held by another.
Fairness ==
    /\ \A h \in Handlers : WF_vars(Handle(h) \/ Drive(h))
    /\ WF_vars(Drive(Boot) \/ Restored)

FairSpec == Spec /\ Fairness

-----------------------------------------------------------------------------
TypeOK ==
    /\ agent \in {"down", "restoring", "serving"}
    /\ journal \in Journals
    /\ survivors \subseteq Journals
    /\ host \in Hosts
    /\ lock \in Tasks \cup {Nobody}
    /\ task \in [Tasks -> TaskStates]
    /\ operator \in BOOLEAN
    /\ acked \subseteq DesiredStates

\* While the agent serves and no apply is in flight, the host is the one the
\* journal describes (apply.rs: "stage, activate, verify, then record", or
\* roll back), unless this run has reported that an operator must step in.
\* Assumed: a command that fails has no late effect, and the journal can be read
\* back after a failed sync.
HostMatchesJournal ==
    Faults \cap {"late", "reload"} = {} =>
    (agent = "serving" /\ lock = Nobody /\ ~operator =>
        IF journal.revision = 0 THEN ~wg0_exists ELSE Verified(journal))

\* wg0 never carries traffic without the complete VPN-owned chains: they are
\* installed before the link and removed after it (host_cutover.rs), whatever
\* fails, crashes or is restored in between.
NoTunnelWithoutFirewall == host.wg = "up" => host.fw = "full"

\* recovery.rs: verify_restarted_host "returns success only when the protected
\* journal, live WireGuard interface, current Docker route, and every VPN-owned
\* firewall rule agree".  Read for the tunnel itself: an agent that serves a
\* journalled state, with nothing in flight and no operator called, has wg0 up.
ServingTunnelIsUp ==
    agent = "serving" /\ lock = Nobody /\ ~operator /\ journal.revision # 0 =>
        host.wg = "up"

\* apply.rs: "A rename may have succeeded before fsync failed. Rolling back then
\* would make the durable state disagree with the host."  So the coordinator
\* never rolls back a host whose state the journal already holds, as long as it
\* can read the journal back.
NoRollbackPastJournal ==
    "reload" \notin Faults => \A h \in Handlers : task[h].pc = "rollback" => journal # task[h].want

\* A client that received Applied finds that state, or a newer one, in the
\* journal of every later start, even after a power loss (state.rs syncs the
\* file and its directory before apply answers).
AckedSurvive ==
    \A s \in acked : /\ journal.revision >= s.revision
                     /\ \A d \in survivors : /\ d.revision >= s.revision
                                             /\ d.revision = s.revision => d = s

\* The journal never goes back to an older revision, late and duplicated
\* requests included; only a power loss may forget renames that were never
\* synced.
JournalMovesForward ==
    [][journal' # journal => \/ journal'.revision > journal.revision
                             \/ journal' \in survivors /\ survivors' = {journal'}]_vars

\* Every request is answered and the apply lock is always given back: no
\* failure path leaves a later apply facing "another host apply is already
\* running" for good.
ApplyTerminates ==
    \A t \in Tasks : task[t].pc # "idle" ~> (task[t].pc = "idle" /\ lock # t)

Register == INSTANCE AppliedRegister
              WITH States <- DesiredStates, visible <- journal

\* The agent implements the register the control plane relies on.
ImplementsRegister == Register!Spec
=============================================================================

---------------------------- MODULE HostReconcile ----------------------------
(***************************************************************************)
(* Desired-state reconciliation (HostAgentController::reconcile): API      *)
(* processes read the active devices from PostgreSQL under an advisory     *)
(* lock, ask the agent what it has applied, send it a new revision if the  *)
(* two differ, and commit the outcome to host_agent_reconcile.             *)
(*                                                                         *)
(* The agent is the AppliedRegister that HostAgent implements, with the    *)
(* requests it is working on.  A request outlives the connection it came   *)
(* by: when the API gives up or dies, the agent carries on.                *)
(*                                                                         *)
(* A digest is injective, so a digest is modelled by the state it stands   *)
(* for, and a content hash by the peers.                                   *)
(***************************************************************************)
EXTENDS Naturals

CONSTANTS
    Procs,         \* API tasks that may reconcile
    Gone,          \* the sender of a request whose connection is closed
    PeerLists,     \* what the active devices may come to
    NoPeers,       \* the peers of the empty journal; an empty content hash
    MaxRevision,   \* bound on revisions
    MaxChanges,    \* bound on changes of the devices
    MaxFaults,     \* bound on injected failures
    MaxRefusals,   \* bound on requests that find the agent at work
    Faults         \* the failure classes the environment may inject

FaultClasses == {"api crash", "timeout", "agent failure", "agent crash", "power"}

ASSUME HostReconcileAssumption ==
    /\ Gone \notin Procs
    /\ NoPeers \notin PeerLists
    /\ MaxRevision \in Nat /\ MaxChanges \in Nat /\ MaxFaults \in Nat /\ MaxRefusals \in Nat
    /\ Faults \subseteq FaultClasses

States == [revision : 1..MaxRevision, peers : PeerLists]

NoState == [revision |-> 0, peers |-> NoPeers]

VARIABLES
    devices,                  \* the peers of the active devices of active users
    row,                      \* the committed host_agent_reconcile row
    holder,                   \* who holds the advisory transaction lock
    tx,                       \* each task's reconcile in progress
    visible, survivors, acked,  \* the agent's register
    requests,                 \* ApplyState requests the agent has not answered
    busy,                     \* the one it is applying: its handler holds the apply lock
    answers,                  \* answers on open connections
    sent,                     \* every state ever sent
    changes, faults, refusals,  \* how much of the bounds is used
    hit                       \* the failure classes met so far

agentVars == <<visible, survivors, acked>>
faultVars == <<faults, refusals, hit>>
vars == <<devices, row, holder, tx, agentVars, requests, busy, answers, sent, changes, faultVars>>

Register == INSTANCE AppliedRegister

Free == "free"
NoRequest == [state |-> NoState, from |-> Gone]
NotRunning == [pc |-> "idle", content |-> NoPeers, next |-> NoState]

Requests == [state : States, from : Procs \cup {Gone}]

Init ==
    /\ devices \in PeerLists
    /\ row = [desired |-> NoState, applied |-> NoState, status |-> "pending"]
    /\ holder = Free
    /\ tx = [p \in Procs |-> NotRunning]
    /\ Register!Init
    /\ requests = {}
    /\ busy = NoRequest
    /\ answers = {}
    /\ sent = {}
    /\ changes = 0
    /\ faults = 0
    /\ refusals = 0
    /\ hit = {}

-----------------------------------------------------------------------------
\* Mutant of ChangeDevices: a peer-affecting write without the advisory lock.
ChangeWithoutLock ==
    /\ changes < MaxChanges
    /\ devices' \in PeerLists \ {devices}
    /\ changes' = changes + 1
    /\ UNCHANGED <<row, holder, tx, agentVars, requests, busy, answers, sent, faultVars>>

(* Any write that changes the peers takes the same advisory lock first (the
   triggers of migration 45). *)
ChangeDevices ==
    /\ changes < MaxChanges
    /\ holder = Free
    /\ devices' \in PeerLists \ {devices}
    /\ changes' = changes + 1
    /\ UNCHANGED <<row, holder, tx, agentVars, requests, busy, answers, sent, faultVars>>

(* reconcile: take the lock, read the row and the active devices. *)
Begin(p) ==
    /\ tx[p].pc = "idle"
    /\ holder = Free
    /\ holder' = p
    /\ tx' = [tx EXCEPT ![p] = [pc |-> "status", content |-> devices, next |-> NoState]]
    /\ UNCHANGED <<devices, row, agentVars, requests, busy, answers, sent, changes, faultVars>>

\* The transaction ends, by commit or by rollback, and the lock with it.
EndTx(p) ==
    /\ holder' = Free
    /\ tx' = [tx EXCEPT ![p] = NotRunning]

\* Mutant of next_revision: only the agent's revision counts.
AfterAgentOnly(a, b) == b + 1

next_revision(a, b) == (IF a > b THEN a ELSE b) + 1

\* Mutant of Status: the fast path trusts the row and not the agent's journal.
StatusTrustsRow(p) ==
    /\ tx[p].pc = "status"
    /\ IF row.desired.peers = tx[p].content
         THEN /\ tx' = [tx EXCEPT ![p].pc = "commit", ![p].next = row.desired]
              /\ UNCHANGED <<requests, sent>>
         ELSE LET s == [revision |-> next_revision(row.desired.revision, visible.revision),
                        peers |-> tx[p].content]
              IN  /\ s.revision <= MaxRevision
                  /\ tx' = [tx EXCEPT ![p].pc = "apply", ![p].next = s]
                  /\ requests' = requests \cup {[state |-> s, from |-> p]}
                  /\ sent' = sent \cup {s}
    /\ UNCHANGED <<devices, row, holder, agentVars, busy, answers, changes, faultVars>>

(* StateStatus.  Either the journal already holds what the row and the devices
   ask for, and the reconcile only has to commit; or a new revision, beyond
   both the row and the journal, is sent. *)
Status(p) ==
    /\ tx[p].pc = "status"
    /\ IF row.desired.peers = tx[p].content /\ row.desired = visible
         THEN /\ tx' = [tx EXCEPT ![p].pc = "commit", ![p].next = visible]
              /\ UNCHANGED <<requests, sent>>
         ELSE LET s == [revision |-> next_revision(row.desired.revision, visible.revision),
                        peers |-> tx[p].content]
              IN  /\ s.revision <= MaxRevision
                  /\ tx' = [tx EXCEPT ![p].pc = "apply", ![p].next = s]
                  /\ requests' = requests \cup {[state |-> s, from |-> p]}
                  /\ sent' = sent \cup {s}
    /\ UNCHANGED <<devices, row, holder, agentVars, busy, answers, changes, faultVars>>

\* The row after this reconcile, for a given outcome.
Outcome(p, status) ==
    [desired |-> tx[p].next,
     applied |-> IF status = "applied" THEN tx[p].next ELSE row.applied,
     status  |-> status]

(* Nothing to apply: the row is marked applied. *)
CommitUnchanged(p) ==
    /\ tx[p].pc = "commit"
    /\ row' = Outcome(p, "applied")
    /\ EndTx(p)
    /\ UNCHANGED <<devices, agentVars, requests, busy, answers, sent, changes, faultVars>>

\* Mutant of Answered: any answer counts as applied.
AnyAnswerApplied(p) ==
    /\ tx[p].pc = "apply"
    /\ \E a \in answers :
         /\ a.to = p
         /\ row' = Outcome(p, "applied")
         /\ answers' = answers \ {a}
    /\ EndTx(p)
    /\ UNCHANGED <<devices, agentVars, requests, busy, sent, changes, faultVars>>

(* The agent answered: commit the outcome. *)
Answered(p) ==
    /\ tx[p].pc = "apply"
    /\ \E a \in answers :
         /\ a.to = p
         /\ row' = Outcome(p, IF a.ok THEN "applied" ELSE "failed")
         /\ answers' = answers \ {a}
    /\ EndTx(p)
    /\ UNCHANGED <<devices, agentVars, requests, busy, sent, changes, faultVars>>

\* An injected failure of a given class.
Inject(class) ==
    /\ class \in Faults
    /\ faults < MaxFaults
    /\ faults' = faults + 1
    /\ hit' = hit \cup {class}
    /\ UNCHANGED refusals

\* The task's connection to the agent closes; the agent does not notice.
Disconnected(p, r) == IF r.from = p THEN [r EXCEPT !.from = Gone] ELSE r

Disconnect(p) ==
    /\ requests' = {Disconnected(p, r) : r \in requests}
    /\ busy' = Disconnected(p, busy)
    /\ answers' = {a \in answers : a.to # p}

\* Mutant of ApplyTimeout: a timeout is recorded as applied.
TimeoutApplied(p) ==
    /\ tx[p].pc = "apply"
    /\ Inject("timeout")
    /\ row' = Outcome(p, "applied")
    /\ Disconnect(p)
    /\ EndTx(p)
    /\ UNCHANGED <<devices, agentVars, sent, changes>>

(* AGENT_TIMEOUT on ApplyState: the row is committed as failed. *)
ApplyTimeout(p) ==
    /\ tx[p].pc = "apply"
    /\ Inject("timeout")
    /\ row' = Outcome(p, "failed")
    /\ Disconnect(p)
    /\ EndTx(p)
    /\ UNCHANGED <<devices, agentVars, sent, changes>>

(* StateStatus fails or times out, or the candidate does not validate: the
   transaction is rolled back. *)
StatusFails(p) ==
    /\ tx[p].pc = "status"
    /\ Inject("timeout")
    /\ EndTx(p)
    /\ UNCHANGED <<devices, row, agentVars, requests, busy, answers, sent, changes>>

(* The API process or its database connection dies: PostgreSQL rolls the
   transaction back and releases the lock. *)
ApiCrash(p) ==
    /\ tx[p].pc # "idle"
    /\ Inject("api crash")
    /\ Disconnect(p)
    /\ EndTx(p)
    /\ UNCHANGED <<devices, row, agentVars, sent, changes>>

-----------------------------------------------------------------------------
\* The agent finishes with a request and answers if anyone still listens.
Answer(r, ok) ==
    /\ requests' = requests \ {r}
    /\ answers' = answers \cup
         (IF r.from = Gone THEN {} ELSE {[to |-> r.from, ok |-> ok]})

(* The apply lock is free and the request newer than the journal: its apply
   begins.  A request still in `requests' has not been received yet. *)
AgentBegin(r) ==
    /\ busy = NoRequest
    /\ r.state.revision > visible.revision
    /\ busy' = r
    /\ UNCHANGED <<devices, row, holder, tx, agentVars, requests, answers, sent, changes, faultVars>>

(* The host is changed and verified, and the journal renamed. *)
AgentPublish ==
    /\ busy # NoRequest /\ visible # busy.state
    /\ visible' = busy.state
    /\ Register!Publish
    /\ UNCHANGED <<devices, row, holder, tx, requests, busy, answers, sent, changes, faultVars>>

(* The journal is synced and the caller is told. *)
AgentConfirm ==
    /\ busy # NoRequest /\ visible = busy.state
    /\ acked' = acked \cup {visible}
    /\ Register!Harden
    /\ Answer(busy, TRUE)
    /\ busy' = NoRequest
    /\ UNCHANGED <<devices, row, holder, tx, sent, changes, faultVars>>

(* A stale revision is refused (with the other error when the lock is taken). *)
AgentRefuse(r) ==
    /\ r # busy
    /\ r.state.revision <= visible.revision
    /\ Answer(r, FALSE)
    /\ UNCHANGED <<devices, row, holder, tx, agentVars, busy, sent, changes, faultVars>>

(* acquire_apply_lock does not wait: a request that comes while another is being
   applied is refused at once. *)
AgentAtWork(r) ==
    /\ busy # NoRequest /\ r # busy
    /\ refusals < MaxRefusals
    /\ refusals' = refusals + 1
    /\ Answer(r, FALSE)
    /\ UNCHANGED <<devices, row, holder, tx, agentVars, busy, sent, changes, faults, hit>>

\* Mutant of AgentFails: a failed apply stays in progress.
FailureKeepsBusy(r) ==
    /\ Inject("agent failure")
    /\ Answer(r, FALSE)
    /\ UNCHANGED <<devices, row, holder, tx, agentVars, busy, sent, changes>>

(* An apply fails and is rolled back, or ends uncertain after its state was
   published. *)
AgentFails(r) ==
    /\ Inject("agent failure")
    /\ Answer(r, FALSE)
    /\ busy' = IF busy = r THEN NoRequest ELSE busy
    /\ UNCHANGED <<devices, row, holder, tx, agentVars, sent, changes>>

\* Every connection to the agent breaks.
AllFail ==
    /\ requests' = {}
    /\ busy' = NoRequest
    /\ answers' = answers \cup
         {[to |-> r.from, ok |-> FALSE] : r \in {q \in requests : q.from # Gone}}

AgentCrash ==
    /\ Inject("agent crash")
    /\ AllFail
    /\ UNCHANGED <<devices, row, holder, tx, agentVars, sent, changes>>

HostPowerLoss ==
    /\ Inject("power")
    /\ Register!PowerLoss
    /\ AllFail
    /\ UNCHANGED <<devices, row, holder, tx, sent, changes>>

Reconcile(p) ==
    Status(p) \/ CommitUnchanged(p) \/ Answered(p)

AgentStep ==
    \/ AgentPublish \/ AgentConfirm
    \/ \E r \in requests : AgentBegin(r) \/ AgentRefuse(r) \/ AgentAtWork(r)

Next ==
    \/ ChangeDevices
    \/ \E p \in Procs : \/ Begin(p) \/ Reconcile(p)
                        \/ ApplyTimeout(p) \/ StatusFails(p) \/ ApiCrash(p)
    \/ AgentStep
    \/ \E r \in requests : AgentFails(r)
    \/ AgentCrash \/ HostPowerLoss

Spec == Init /\ [][Next]_vars

\* The five-second tick of `spawn' restarts a reconcile for ever, PostgreSQL
\* grants the advisory lock to some waiter, every wait on the agent is bounded
\* by AGENT_TIMEOUT, and the agent's handlers run to completion.
Fairness ==
    /\ WF_vars(\E p \in Procs : Begin(p))
    /\ \A p \in Procs : WF_vars(Reconcile(p))
    /\ WF_vars(AgentStep)

FairSpec == Spec /\ Fairness

-----------------------------------------------------------------------------
TypeOK ==
    /\ devices \in PeerLists
    /\ row \in [desired : States \cup {NoState}, applied : States \cup {NoState},
                status : {"pending", "applied", "failed"}]
    /\ holder \in Procs \cup {Free}
    /\ tx \in [Procs -> [pc : {"idle", "status", "commit", "apply"},
                         content : PeerLists \cup {NoPeers},
                         next : States \cup {NoState}]]
    /\ visible \in States \cup {NoState} /\ survivors \subseteq States \cup {NoState}
    /\ acked \subseteq States /\ sent \subseteq States
    /\ requests \subseteq Requests
    /\ busy \in requests \cup {NoRequest}
    /\ answers \subseteq [to : Procs, ok : BOOLEAN]
    /\ changes \in 0..MaxChanges /\ faults \in 0..MaxFaults
    /\ refusals \in 0..MaxRefusals /\ hit \subseteq Faults

\* No API process died or gave up on the agent, and the host kept its power.
Orderly == hit \subseteq {"agent failure", "agent crash"}

\* The database never claims more than the agent did: the revision it records
\* as applied has been in the agent's journal, and the journal is not older,
\* however API processes, requests and the agent die or time out.  (A power
\* loss may take a rename back that the fast path has already recorded.)
AppliedRowIsReal ==
    "power" \notin hit =>
        /\ row.applied.revision <= visible.revision
        /\ row.applied.revision = visible.revision => row.applied = visible
        /\ row.status = "applied" => row.desired = row.applied

\* Migration 45: "Peer-affecting writes take the same lock before modifying
\* rows, so a commit cannot slip between snapshot and agent journal commit."
\* What enters the journal is therefore what the devices are at that moment.
JournalFollowsDevices ==
    [][visible' # visible => visible'.peers = devices]_vars

\* The same, for as long as no API process dies or times out: the agent may
\* fail and crash.
JournalFollowsDevicesIfOrderly ==
    [][Orderly' /\ visible' # visible => visible'.peers = devices]_vars

\* host_agent_controller.rs: "Never reuse a revision or assume that an
\* uncommitted DB status means apply failed."  Two states sent to the agent
\* under one revision are the same state.
NeverReuseRevision ==
    \A s, t \in sent : s.revision = t.revision => s = t

\* The same, for as long as no API process dies with its transaction open: a
\* timed-out apply commits its revision, so timeouts are allowed here.
NeverReuseRevisionIfCommitted ==
    hit \cap {"api crash", "power"} = {} => NeverReuseRevision

\* While nobody reconciles and every failure so far was the agent's, a row that
\* says "applied" names the very state in the agent's journal.
AppliedRowMatchesAgent ==
    Orderly /\ holder = Free /\ row.status = "applied" => row.applied = visible

\* Once the devices stop changing and failures stop, the host ends up serving
\* exactly the active devices and the row says so, whatever was in flight.
Converges ==
    <>[](visible.peers = devices /\ row.status = "applied" /\ row.applied = visible)
=============================================================================

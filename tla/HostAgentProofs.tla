--------------------------- MODULE HostAgentProofs ---------------------------
(***************************************************************************)
(* Machine-checked proofs about HostAgent, for every number of handlers,   *)
(* every set of requests and every combination of the failure classes that *)
(* a theorem does not exclude by name.                                     *)
(***************************************************************************)
EXTENDS HostAgent, TLAPS

\* The program points at which a task holds the apply lock.
Critical == {"snapshot", "sync", "firewall", "tunnel", "verify", "record",
             "fsync", "rollback"}

\* The apply lock is held exactly by the task inside the transaction.
LockInv == \A t \in Tasks : task[t].pc \in Critical <=> lock = t

\* A running task wants a real state.
WantInv == \A t \in Tasks : task[t].pc # "idle" => task[t].want \in DesiredStates

\* Inside the transaction a handler's candidate is newer than the journal,
\* until the rename makes it the journal.
NewerInv ==
    \A h \in Handlers :
        /\ task[h].pc \in Critical \ {"fsync", "rollback"} =>
              task[h].want.revision > journal.revision
        /\ task[h].pc = "fsync" => journal = task[h].want

\* What a power loss may leave is what is readable or older.
DurableInv == /\ journal \in survivors
              /\ \A d \in survivors : /\ d.revision <= journal.revision
                                      /\ d.revision = journal.revision => d = journal

JournalInv == TypeOK /\ LockInv /\ WantInv /\ NewerInv /\ DurableInv /\ AckedSurvive

-----------------------------------------------------------------------------
LEMMA RevisionsAreNat ==
    /\ \A s \in Journals : s.revision \in Nat
    /\ \A s \in DesiredStates : s.revision \in Nat \ {0} /\ s \in Journals
    /\ NoState \in Journals /\ NoState.revision = 0
BY HostAgentAssumption DEF Journals, DesiredStates, NoState

LEMMA InitJournalInv == Init => JournalInv
<1> SUFFICES ASSUME Init PROVE JournalInv
  OBVIOUS
<1>1. TypeOK
  BY HostAgentAssumption DEF Init, TypeOK, Journals, NoState, Hosts, Absent, TaskStates, Idle, Pcs, Tasks
<1>2. LockInv /\ WantInv /\ NewerInv /\ DurableInv /\ AckedSurvive
  BY HostAgentAssumption DEF Init, LockInv, WantInv, NewerInv, DurableInv, AckedSurvive, Idle,
     Critical, Tasks, NoState
<1> QED
  BY <1>1, <1>2 DEF JournalInv

-----------------------------------------------------------------------------
(* Type correctness. *)
LEMMA TaskFields ==
    ASSUME TypeOK
    PROVE  \A t \in Tasks :
              /\ task[t] \in TaskStates
              /\ task[t].pc \in Pcs
              /\ task[t].want \in Journals
              /\ task[t].want.peers \in PeerLists \cup {Unknown}
              /\ task[t].prev \in Journals
              /\ task[t].prev.peers \in PeerLists \cup {Unknown}
              /\ task[t].fwOwned \in BOOLEAN /\ task[t].wgOwned \in BOOLEAN
<1>1. \A s \in Journals : s.peers \in PeerLists \cup {Unknown}
  BY DEF Journals, DesiredStates, NoState
<1>2. \A t \in Tasks : task[t] \in TaskStates
  BY DEF TypeOK
<1> QED
  BY <1>1, <1>2 DEF TaskStates

\* A task may be given any well-typed program state.
LEMMA TaskReplaced ==
    ASSUME TypeOK
    PROVE  \A t \in Tasks, x \in TaskStates : [task EXCEPT ![t] = x] \in [Tasks -> TaskStates]
BY DEF TypeOK

LEMMA TaskFinished ==
    ASSUME TypeOK
    PROVE  \A t \in Tasks : [task EXCEPT ![t] = Idle] \in [Tasks -> TaskStates]
<1>1. Idle \in TaskStates
  BY RevisionsAreNat DEF TaskStates, Idle, Pcs
<1> QED
  BY <1>1, TaskReplaced

LEMMA TaskMoved ==
    ASSUME TypeOK
    PROVE  \A t \in Tasks, l \in Pcs : [task EXCEPT ![t].pc = l] \in [Tasks -> TaskStates]
<1> SUFFICES ASSUME NEW t \in Tasks, NEW l \in Pcs
             PROVE  [task EXCEPT ![t].pc = l] \in [Tasks -> TaskStates]
  OBVIOUS
<1>1. task[t] \in TaskStates
  BY TaskFields
<1>2. [task[t] EXCEPT !.pc = l] \in TaskStates
  BY <1>1 DEF TaskStates
<1> QED
  BY <1>2 DEF TypeOK

LEMMA TypeStep == JournalInv /\ [Next]_vars => TypeOK'
<1> SUFFICES ASSUME JournalInv, [Next]_vars PROVE TypeOK'
  OBVIOUS
<1> USE HostAgentAssumption
<1>a. TypeOK
  BY DEF JournalInv
<1>b. Handlers \subseteq Tasks /\ Boot \in Tasks
  BY DEF Tasks
<1>p. \A l \in {"idle", "open", "lock", "snapshot", "sync", "firewall", "tunnel",
                "verify", "record", "fsync", "rollback"} : l \in Pcs
  BY DEF Pcs
<1>f. \A t \in Tasks : [task EXCEPT ![t] = Idle] \in [Tasks -> TaskStates]
  BY <1>a, TaskFinished
<1>g. \A t \in Tasks, l \in Pcs : [task EXCEPT ![t].pc = l] \in [Tasks -> TaskStates]
  BY <1>a, TaskMoved
<1>h. \A t \in Tasks, l \in Pcs : Goto(t, l) => task' \in [Tasks -> TaskStates]
  BY <1>g DEF Goto
<1>t. \A t \in Tasks : /\ task[t] \in TaskStates
                       /\ task[t].want \in Journals
                       /\ task[t].want.peers \in PeerLists \cup {Unknown}
                       /\ task[t].prev.peers \in PeerLists \cup {Unknown}
  BY <1>a, TaskFields
<1>1. ASSUME NEW h \in Handlers, Receive(h) PROVE TypeOK'
  <2>1. PICK s \in DesiredStates :
           task' = [task EXCEPT ![h] = [Idle EXCEPT !.pc = "open", !.want = s]]
    BY <1>1 DEF Receive
  <2>2. [Idle EXCEPT !.pc = "open", !.want = s] \in TaskStates
    BY RevisionsAreNat DEF TaskStates, Idle, Pcs
  <2>3. task' \in [Tasks -> TaskStates]
    BY <1>a, <1>b, <2>1, <2>2, TaskReplaced
  <2> QED
    BY <1>1, <1>a, <2>3 DEF Receive, TypeOK
<1>2. ASSUME NEW h \in Handlers, Open(h) PROVE TypeOK'
  <2>1. [task[h] EXCEPT !.pc = "lock", !.prev = journal] \in TaskStates
    BY <1>a, <1>b, <1>p, <1>t DEF TypeOK, TaskStates
  <2>2. task' = [task EXCEPT ![h] = [task[h] EXCEPT !.pc = "lock", !.prev = journal]]
    BY <1>2, <1>a DEF Open, TypeOK
  <2>3. task' \in [Tasks -> TaskStates]
    BY <1>a, <1>b, <2>1, <2>2, TaskReplaced
  <2> QED
    BY <1>2, <1>a, <2>3 DEF Open, TypeOK
<1>3. ASSUME NEW h \in Handlers, Begin(h) PROVE TypeOK'
  BY <1>3, <1>a, <1>b, <1>p, <1>g DEF Begin, Goto, TypeOK
<1>4. ASSUME NEW h \in Handlers, SnapshotUpdate(h) PROVE TypeOK'
  BY <1>4, <1>a, <1>b, <1>p, <1>g DEF SnapshotUpdate, Goto, TypeOK
<1>5. ASSUME NEW h \in Handlers, Sync(h) PROVE TypeOK'
  <2>1. host' \in Hosts
    BY <1>5, <1>a, <1>b, <1>t DEF Sync, SyncLeftovers, TypeOK, Hosts
  <2>2. Goto(h, "verify") \/ Goto(h, "rollback")
    BY <1>5 DEF Sync
  <2>3. task' \in [Tasks -> TaskStates]
    BY <2>2, <1>b, <1>p, <1>h
  <2> QED
    BY <1>5, <1>a, <2>1, <2>3 DEF Sync, TypeOK
<1>6. ASSUME NEW h \in Handlers, Record(h) PROVE TypeOK'
  <2>1. Goto(h, "fsync") \/ Goto(h, "rollback")
    BY <1>6 DEF Record
  <2>2. task' \in [Tasks -> TaskStates]
    BY <2>1, <1>b, <1>p, <1>h
  <2>3. journal' \in Journals
    BY <1>6, <1>a, <1>b, <1>t DEF Record, TypeOK
  <2> QED
    BY <1>6, <1>a, <2>2, <2>3 DEF Record, TypeOK
<1>7. ASSUME NEW h \in Handlers, SyncJournal(h) PROVE TypeOK'
  <2>1. journal \in DesiredStates
    BY <1>7, <1>b DEF SyncJournal, JournalInv, WantInv, NewerInv
  <2>2. task' \in [Tasks -> TaskStates]
    BY <1>7, <1>b, <1>p, <1>f, <1>g DEF SyncJournal, Goto, Finish
  <2> QED
    BY <1>7, <1>a, <2>1, <2>2 DEF SyncJournal, TypeOK
<1>8. ASSUME NEW h \in Handlers, RollbackSync(h) PROVE TypeOK'
  <2>1. host' \in Hosts
    BY <1>8, <1>a, <1>b, <1>t DEF RollbackSync, SyncLeftovers, TypeOK, Hosts
  <2>2. task' \in [Tasks -> TaskStates]
    BY <1>8, <1>b, <1>f DEF RollbackSync, Abandon, Finish
  <2>3. operator' \in BOOLEAN
    BY <1>8, <1>a DEF RollbackSync, TypeOK
  <2> QED
    BY <1>8, <1>a, <2>1, <2>2, <2>3 DEF RollbackSync, Abandon, TypeOK
<1>9. ASSUME NEW t \in Tasks, Refuse(t) PROVE TypeOK'
  BY <1>9, <1>a, <1>f DEF Refuse, Finish, TypeOK
<1>10. ASSUME NEW t \in Tasks, SnapshotCutover(t) PROVE TypeOK'
  BY <1>10, <1>a, <1>p, <1>g DEF SnapshotCutover, Goto, TypeOK
<1>11. ASSUME NEW t \in Tasks, InstallFirewall(t) PROVE TypeOK'
  <2>1. host' \in Hosts
    BY <1>11, <1>a DEF InstallFirewall, FirewallLeftovers, TypeOK, Hosts
  <2>2. \/ task' = [task EXCEPT ![t] = [task[t] EXCEPT !.pc = "tunnel", !.fwOwned = TRUE]]
        \/ Goto(t, "rollback")
    BY <1>11, <1>a DEF InstallFirewall, TypeOK
  <2>3. [task[t] EXCEPT !.pc = "tunnel", !.fwOwned = TRUE] \in TaskStates
    BY <1>p, <1>t DEF TaskStates
  <2>4. task' \in [Tasks -> TaskStates]
    BY <1>a, <1>h, <1>p, <2>2, <2>3, TaskReplaced
  <2> QED
    BY <1>11, <1>a, <2>1, <2>4 DEF InstallFirewall, TypeOK
<1>12. ASSUME NEW t \in Tasks, ActivateTunnel(t) PROVE TypeOK'
  <2> DEFINE w == task[t].want.peers
  <2>h. host \in Hosts /\ w \in PeerLists \cup {Unknown}
    BY <1>a, <1>t DEF TypeOK
  <2>l. /\ [host EXCEPT !.wg = "partial"] \in Hosts
        /\ \A x \in {"configured", "up"} : [host EXCEPT !.wg = x, !.peers = w] \in Hosts
    BY <2>h DEF Hosts
  <2>1. host' \in Hosts
    BY <1>12, <2>h, <2>l DEF ActivateTunnel, TunnelLeftovers
  <2>2. \/ \E l \in {"verify", "rollback"} :
              task' = [task EXCEPT ![t] = [task[t] EXCEPT !.pc = l, !.wgOwned = TRUE]]
        \/ Goto(t, "rollback")
    BY <1>12, <1>a DEF ActivateTunnel, TypeOK
  <2>3. \A l \in Pcs : [task[t] EXCEPT !.pc = l, !.wgOwned = TRUE] \in TaskStates
    BY <1>t DEF TaskStates
  <2>4. task' \in [Tasks -> TaskStates]
    <3>1. CASE Goto(t, "rollback")
      BY <3>1, <1>h, <1>p
    <3>2. ASSUME NEW l \in {"verify", "rollback"},
                 task' = [task EXCEPT ![t] = [task[t] EXCEPT !.pc = l, !.wgOwned = TRUE]]
          PROVE  task' \in [Tasks -> TaskStates]
      <4>1. [task[t] EXCEPT !.pc = l, !.wgOwned = TRUE] \in TaskStates
        BY <1>p, <2>3
      <4> QED
        BY <1>a, <3>2, <4>1, TaskReplaced
    <3> QED
      BY <2>2, <3>1, <3>2
  <2> QED
    BY <1>12, <1>a, <2>1, <2>4 DEF ActivateTunnel, TypeOK
<1>13. ASSUME NEW t \in Tasks, Verify(t) PROVE TypeOK'
  <2>1. Goto(t, "record") \/ Goto(t, "rollback")
    BY <1>13 DEF Verify
  <2>2. task' \in [Tasks -> TaskStates]
    BY <2>1, <1>p, <1>h
  <2> QED
    BY <1>13, <1>a, <2>2 DEF Verify, TypeOK
<1>14. ASSUME NEW t \in Tasks, RollbackCutover(t) PROVE TypeOK'
  <2>1. WithoutTunnel(t) \in Hosts
    BY <1>a DEF WithoutTunnel, TypeOK, Hosts
  <2>2. \A x \in Hosts : [x EXCEPT !.fw = "none"] \in Hosts /\ FirewallLeftovers(x) \subseteq Hosts
    BY DEF Hosts, FirewallLeftovers
  <2>3. host' \in Hosts
    BY <1>14, <1>a, <2>1, <2>2 DEF RollbackCutover, TypeOK
  <2>4. operator' \in BOOLEAN
    BY <1>14, <1>a DEF RollbackCutover, TypeOK
  <2>5. Abandon(t)
    BY <1>14 DEF RollbackCutover
  <2> QED
    BY <1>a, <1>f, <2>3, <2>4, <2>5 DEF Abandon, Finish, TypeOK
<1>15. ASSUME StartEmpty \/ StartVerified PROVE TypeOK'
  BY <1>15, <1>a DEF StartEmpty, StartVerified, TypeOK
<1>16. ASSUME StartRestore PROVE TypeOK'
  <2>1. [Idle EXCEPT !.pc = "snapshot", !.want = journal] \in TaskStates
    BY <1>a, RevisionsAreNat DEF TypeOK, TaskStates, Idle, Pcs
  <2>2. task' \in [Tasks -> TaskStates]
    BY <1>16, <1>a, <1>b, <2>1, TaskReplaced DEF StartRestore
  <2> QED
    BY <1>16, <1>a, <1>b, <2>2 DEF StartRestore, TypeOK
<1>17. ASSUME Restored PROVE TypeOK'
  BY <1>17, <1>a, <1>b, <1>f DEF Restored, Finish, TypeOK
<1>18. [t \in Tasks |-> Idle] \in [Tasks -> TaskStates]
  BY RevisionsAreNat DEF TaskStates, Idle, Pcs
<1>19. ASSUME Crash PROVE TypeOK'
  <2>1. ASSUME lock \in Tasks
        PROVE  /\ SyncLeftovers(lock) \subseteq Hosts
               /\ TunnelLeftovers(lock) \subseteq Hosts
               /\ WithoutTunnel(lock) \in Hosts
    <3> DEFINE w == task[lock].want.peers
    <3>1. host \in Hosts /\ w \in PeerLists \cup {Unknown}
      BY <2>1, <1>a, <1>t DEF TypeOK
    <3> HIDE DEF w
    <3>2. {[host EXCEPT !.peers = p] : p \in {host.peers, w, Unknown}} \subseteq Hosts
      BY <3>1 DEF Hosts
    <3>3. /\ [host EXCEPT !.wg = "partial"] \in Hosts
          /\ \A x \in {"configured", "up"} : [host EXCEPT !.wg = x, !.peers = w] \in Hosts
      BY <3>1 DEF Hosts
    <3>4. WithoutTunnel(lock) \in Hosts
      BY <3>1 DEF WithoutTunnel, Hosts
    <3> QED
      BY <3>2, <3>3, <3>4 DEF SyncLeftovers, TunnelLeftovers, w
  <2>2. \A x \in Hosts : FirewallLeftovers(x) \subseteq Hosts
    BY DEF Hosts, FirewallLeftovers
  <2>3. host' \in Hosts
    BY <1>19, <1>a, <2>1, <2>2 DEF Crash, Interrupted, TypeOK
  <2> QED
    BY <1>19, <1>18, <1>a, <2>3 DEF Crash, ProcessEnds, TypeOK
<1>20. ASSUME Reboot PROVE TypeOK'
  BY <1>20, <1>18, <1>a DEF Reboot, ProcessEnds, TypeOK, Absent, Hosts
<1>21. ASSUME OperatorRecovery PROVE TypeOK'
  BY <1>21, <1>a DEF OperatorRecovery, TypeOK, Absent, Hosts
<1>22. ASSUME UNCHANGED vars PROVE TypeOK'
  BY <1>22, <1>a DEF vars, TypeOK
<1> QED
  BY <1>1, <1>2, <1>3, <1>4, <1>5, <1>6, <1>7, <1>8, <1>9, <1>10, <1>11, <1>12, <1>13, <1>14,
     <1>15, <1>16, <1>17, <1>19, <1>20, <1>21, <1>22 DEF Next, Handle, Drive, Start

-----------------------------------------------------------------------------
(* The journal.  As far as the lock, the candidates and the journal go, a    *)
(* step inside the transaction is one of two: the holder advances, or a task *)
(* leaves.  The other steps are handled one by one.                          *)

\* Only the program point of t may have changed, and its ownership flags.
Moved(t, l) ==
    /\ task'[t].pc = l
    /\ task'[t].want = task[t].want
    /\ task'[t].prev = task[t].prev
    /\ \A u \in Tasks \ {t} : task'[u] = task[u]

Advance(t) ==
    /\ task[t].pc \in Critical
    /\ \E l \in Critical \ {"fsync"} :
          /\ Moved(t, l)
          /\ task[t].pc \in {"fsync", "rollback"} => l = "rollback"
    /\ UNCHANGED <<journal, survivors, lock, acked>>

Leave(t) ==
    /\ task'[t] = Idle
    /\ \A u \in Tasks \ {t} : task'[u] = task[u]
    /\ lock' = IF lock = t THEN Nobody ELSE lock
    /\ UNCHANGED <<journal, survivors, acked>>

LEMMA GotoMoves ==
    ASSUME TypeOK, NEW t \in Tasks, NEW l, Goto(t, l)
    PROVE  /\ Moved(t, l)
           /\ task'[t].fwOwned = task[t].fwOwned
           /\ task'[t].wgOwned = task[t].wgOwned
<1>1. task[t] \in TaskStates
  BY TaskFields
<1> QED
  BY <1>1 DEF TypeOK, TaskStates, Goto, Moved

LEMMA FinishEffect ==
    ASSUME TypeOK, NEW t \in Tasks, Finish(t)
    PROVE  task'[t] = Idle /\ \A u \in Tasks \ {t} : task'[u] = task[u]
BY DEF TypeOK, Finish

\* The facts about the journal that every step preserves.
Ledger == LockInv /\ WantInv /\ NewerInv /\ DurableInv /\ AckedSurvive

LEMMA AdvanceKeepsLedger ==
    ASSUME JournalInv, NEW t \in Tasks, Advance(t)
    PROVE  Ledger'
<1>1. PICK l \in Critical \ {"fsync"} :
         Moved(t, l) /\ (task[t].pc \in {"fsync", "rollback"} => l = "rollback")
  BY DEF Advance
<1>2. LockInv'
  BY <1>1 DEF Advance, Moved, JournalInv, LockInv
<1>3. WantInv'
  BY <1>1 DEF Advance, Moved, JournalInv, WantInv, Critical
<1>4. NewerInv'
  BY <1>1 DEF Advance, Moved, JournalInv, NewerInv, Critical, Tasks
<1>5. DurableInv' /\ AckedSurvive'
  BY DEF Advance, JournalInv, DurableInv, AckedSurvive
<1> QED
  BY <1>2, <1>3, <1>4, <1>5 DEF Ledger

LEMMA LeaveKeepsLedger ==
    ASSUME JournalInv, NEW t \in Tasks, Leave(t)
    PROVE  Ledger'
<1> USE HostAgentAssumption
<1>1. task'[t].pc = "idle"
  BY DEF Leave, Idle
<1>2. LockInv'
  BY <1>1 DEF Leave, JournalInv, LockInv, Critical, Tasks
<1>3. WantInv'
  BY <1>1 DEF Leave, JournalInv, WantInv
<1>4. NewerInv'
  BY <1>1 DEF Leave, JournalInv, NewerInv, Critical, Tasks
<1>5. DurableInv' /\ AckedSurvive'
  BY DEF Leave, JournalInv, DurableInv, AckedSurvive
<1> QED
  BY <1>2, <1>3, <1>4, <1>5 DEF Ledger

LEMMA LedgerStep == JournalInv /\ [Next]_vars => Ledger'
<1> SUFFICES ASSUME JournalInv, [Next]_vars PROVE Ledger'
  OBVIOUS
<1> USE HostAgentAssumption
<1>a. TypeOK
  BY DEF JournalInv
<1>b. Handlers \subseteq Tasks /\ Boot \in Tasks
  BY DEF Tasks
<1>r. /\ journal.revision \in Nat /\ \A d \in survivors : d.revision \in Nat
      /\ \A s \in acked : s.revision \in Nat
      /\ \A t \in Tasks : task[t].want.revision \in Nat
  BY <1>a, TaskFields, RevisionsAreNat DEF TypeOK
<1>m. \A t \in Tasks : \A l \in Critical : Goto(t, l) => Moved(t, l)
  BY <1>a, GotoMoves
<1>f. \A t \in Tasks : Finish(t) =>
         task'[t] = Idle /\ \A u \in Tasks \ {t} : task'[u] = task[u]
  BY <1>a, FinishEffect
<1>k. \A t \in Tasks : task[t].pc \in Critical => lock = t
  BY DEF JournalInv, LockInv
<1>1. ASSUME NEW h \in Handlers, Receive(h) PROVE Ledger'
  <2>1. PICK s \in DesiredStates :
           task' = [task EXCEPT ![h] = [Idle EXCEPT !.pc = "open", !.want = s]]
    BY <1>1 DEF Receive
  <2>2. /\ task'[h].pc = "open" /\ task'[h].want \in DesiredStates
        /\ \A u \in Tasks \ {h} : task'[u] = task[u]
    BY <1>a, <1>b, <2>1 DEF TypeOK, Idle
  <2>3. LockInv'
    BY <1>1, <1>b, <2>2 DEF Receive, JournalInv, LockInv, Critical
  <2>4. WantInv'
    BY <1>1, <2>2 DEF Receive, JournalInv, WantInv
  <2>5. NewerInv'
    BY <1>1, <2>2 DEF Receive, JournalInv, NewerInv, Critical, Tasks
  <2> QED
    BY <1>1, <2>3, <2>4, <2>5 DEF Receive, JournalInv, Ledger, DurableInv, AckedSurvive
<1>2. ASSUME NEW h \in Handlers, Open(h) PROVE Ledger'
  <2>1. task[h] \in TaskStates
    BY <1>a, <1>b, TaskFields
  <2>2. /\ task'[h].pc = "lock" /\ task'[h].want = task[h].want
        /\ \A u \in Tasks \ {h} : task'[u] = task[u]
    BY <1>2, <1>a, <1>b, <2>1 DEF Open, TypeOK, TaskStates
  <2>3. LockInv'
    BY <1>2, <1>b, <2>2 DEF Open, JournalInv, LockInv, Critical
  <2>4. WantInv'
    BY <1>2, <1>b, <2>2 DEF Open, JournalInv, WantInv
  <2>5. NewerInv'
    BY <1>2, <2>2 DEF Open, JournalInv, NewerInv, Critical, Tasks
  <2> QED
    BY <1>2, <2>3, <2>4, <2>5 DEF Open, JournalInv, Ledger, DurableInv, AckedSurvive
<1>3. ASSUME NEW h \in Handlers, Begin(h) PROVE Ledger'
  <2>1. Moved(h, "snapshot")
    BY <1>3, <1>b, <1>m DEF Begin, Critical
  <2>2. LockInv'
    BY <1>3, <1>b, <2>1 DEF Begin, Moved, JournalInv, LockInv, Critical, Tasks
  <2>3. WantInv'
    BY <1>3, <1>b, <2>1 DEF Begin, Moved, JournalInv, WantInv
  <2>4. NewerInv'
    BY <1>3, <2>1 DEF Begin, Moved, JournalInv, NewerInv, Critical, Tasks
  <2> QED
    BY <1>3, <2>2, <2>3, <2>4 DEF Begin, JournalInv, Ledger, DurableInv, AckedSurvive
<1>4. ASSUME NEW h \in Handlers, SnapshotUpdate(h) \/ Sync(h) PROVE Ledger'
  <2>1. Advance(h)
    BY <1>4, <1>b, <1>m DEF SnapshotUpdate, Sync, Advance, Critical
  <2> QED
    BY <2>1, <1>b, AdvanceKeepsLedger
<1>5. ASSUME NEW h \in Handlers, Record(h) PROVE Ledger'
  <2>1. CASE UNCHANGED <<journal, survivors>> /\ Goto(h, "rollback")
    <3>1. Advance(h)
      BY <1>5, <1>b, <1>m, <2>1 DEF Record, Advance, Critical
    <3> QED
      BY <3>1, <1>b, AdvanceKeepsLedger
  <2>2. CASE /\ journal' = task[h].want
             /\ survivors' = survivors \cup {journal'}
             /\ Goto(h, "fsync")
    <3>1. Moved(h, "fsync")
      BY <1>b, <1>m, <2>2 DEF Critical
    <3>2. lock = h /\ task[h].want.revision > journal.revision
      BY <1>5, <1>b, <1>k DEF Record, JournalInv, NewerInv, Critical
    <3>3. LockInv'
      BY <1>5, <1>b, <3>1 DEF Record, Moved, JournalInv, LockInv, Critical
    <3>4. WantInv'
      BY <1>5, <1>b, <3>1 DEF Record, Moved, JournalInv, WantInv
    <3>5. \A u \in Handlers \ {h} : task'[u].pc \notin Critical
      BY <1>k, <3>1, <3>2 DEF Moved, Tasks
    <3>6. NewerInv'
      BY <2>2, <3>1, <3>5 DEF Moved, NewerInv, Critical
    <3>7. DurableInv'
      BY <1>5, <1>b, <1>r, <2>2, <3>2 DEF Record, JournalInv, DurableInv
    <3>8. AckedSurvive'
      BY <1>5, <1>b, <1>r, <2>2, <3>2 DEF Record, JournalInv, AckedSurvive
    <3> QED
      BY <3>3, <3>4, <3>6, <3>7, <3>8 DEF Ledger
  <2> QED
    BY <1>5, <2>1, <2>2 DEF Record
<1>6. ASSUME NEW h \in Handlers, SyncJournal(h) PROVE Ledger'
  <2>1. lock = h /\ journal = task[h].want
    BY <1>6, <1>b, <1>k DEF SyncJournal, JournalInv, NewerInv, Critical
  <2>2. CASE Goto(h, "rollback") /\ UNCHANGED <<survivors, acked, lock>>
    <3>1. Advance(h)
      BY <1>6, <1>b, <1>m, <2>2 DEF SyncJournal, Advance, Critical
    <3> QED
      BY <3>1, <1>b, AdvanceKeepsLedger
  <2>3. CASE lock' = Nobody /\ Finish(h) /\ UNCHANGED <<survivors, acked>>
    <3>1. Leave(h)
      BY <1>6, <1>b, <1>f, <2>1, <2>3 DEF SyncJournal, Leave
    <3> QED
      BY <3>1, <1>b, LeaveKeepsLedger
  <2>4. CASE /\ survivors' = {journal} /\ acked' = acked \cup {journal}
             /\ lock' = Nobody /\ Finish(h)
    <3>0. task'[h] = Idle /\ \A u \in Tasks \ {h} : task'[u] = task[u]
      BY <1>b, <1>f, <2>4
    <3>1. task'[h].pc = "idle" /\ \A u \in Tasks \ {h} : task'[u] = task[u]
      BY <3>0 DEF Idle
    <3>2. LockInv'
      BY <1>b, <2>1, <2>4, <3>1 DEF JournalInv, LockInv, Critical, Tasks
    <3>3. WantInv'
      BY <3>1 DEF JournalInv, WantInv
    <3>4. NewerInv'
      BY <1>6, <3>1 DEF SyncJournal, JournalInv, NewerInv, Critical, Tasks
    <3>5. DurableInv'
      BY <1>6, <1>r, <2>4 DEF SyncJournal, DurableInv
    <3>6. AckedSurvive'
      BY <1>6, <1>r, <2>4 DEF SyncJournal, JournalInv, DurableInv, AckedSurvive
    <3> QED
      BY <3>2, <3>3, <3>4, <3>5, <3>6 DEF Ledger
  <2> QED
    BY <1>6, <2>2, <2>3, <2>4 DEF SyncJournal
<1>7. ASSUME NEW t \in Tasks, task[t].pc \in Critical, Abandon(t) PROVE Ledger'
  <2>1. Leave(t)
    BY <1>7, <1>f, <1>k DEF Abandon, Leave
  <2> QED
    BY <2>1, LeaveKeepsLedger
<1>8. ASSUME NEW t \in Tasks, RollbackSync(t) \/ RollbackCutover(t) PROVE Ledger'
  BY <1>7, <1>8 DEF RollbackSync, RollbackCutover, Critical
<1>9. ASSUME NEW t \in Tasks, Refuse(t) PROVE Ledger'
  <2>1. Leave(t)
    BY <1>9, <1>f DEF Refuse, Leave
  <2> QED
    BY <2>1, LeaveKeepsLedger
<1>10. ASSUME NEW t \in Tasks, SnapshotCutover(t) \/ Verify(t) PROVE Ledger'
  <2>1. Advance(t)
    BY <1>10, <1>m DEF SnapshotCutover, Verify, Advance, Critical
  <2> QED
    BY <2>1, AdvanceKeepsLedger
<1>11. ASSUME NEW t \in Tasks, InstallFirewall(t) \/ ActivateTunnel(t) PROVE Ledger'
  <2>1. task[t] \in TaskStates
    BY <1>a, TaskFields
  <2>2. \E l \in {"tunnel", "verify", "rollback"} : Moved(t, l)
    <3>1. CASE Goto(t, "rollback")
      BY <3>1, <1>m DEF Critical
    <3>2. CASE task' = [task EXCEPT ![t].pc = "tunnel", ![t].fwOwned = TRUE]
      BY <3>2, <1>a, <2>1 DEF TypeOK, TaskStates, Moved
    <3>3. CASE task' = [task EXCEPT ![t].pc = "verify", ![t].wgOwned = TRUE]
      BY <3>3, <1>a, <2>1 DEF TypeOK, TaskStates, Moved
    <3>4. CASE task' = [task EXCEPT ![t].pc = "rollback", ![t].wgOwned = TRUE]
      BY <3>4, <1>a, <2>1 DEF TypeOK, TaskStates, Moved
    <3> QED
      BY <1>11, <3>1, <3>2, <3>3, <3>4 DEF InstallFirewall, ActivateTunnel
  <2>3. Advance(t)
    BY <1>11, <2>2 DEF InstallFirewall, ActivateTunnel, Advance, Critical
  <2> QED
    BY <2>3, AdvanceKeepsLedger
<1>12. ASSUME StartEmpty \/ StartVerified \/ OperatorRecovery \/ UNCHANGED vars PROVE Ledger'
  <2>1. UNCHANGED <<journal, survivors, lock, task, acked>>
    BY <1>12 DEF StartEmpty, StartVerified, OperatorRecovery, vars
  <2> QED
    BY <2>1 DEF JournalInv, Ledger, LockInv, WantInv, NewerInv, DurableInv, AckedSurvive
<1>13. ASSUME StartRestore PROVE Ledger'
  <2>1. /\ task'[Boot].pc = "snapshot" /\ task'[Boot].want = journal
        /\ \A u \in Tasks \ {Boot} : task'[u] = task[u]
    BY <1>13, <1>a, <1>b DEF StartRestore, TypeOK, Idle
  <2>2. journal \in DesiredStates
    BY <1>13, <1>a DEF StartRestore, TypeOK, Journals, NoState
  <2>3. LockInv'
    BY <1>13, <1>b, <2>1 DEF StartRestore, JournalInv, LockInv, Critical, Tasks
  <2>4. WantInv'
    BY <2>1, <2>2 DEF JournalInv, WantInv
  <2>5. NewerInv'
    BY <1>13, <2>1 DEF StartRestore, JournalInv, NewerInv, Tasks
  <2> QED
    BY <1>13, <2>3, <2>4, <2>5 DEF StartRestore, JournalInv, Ledger, DurableInv, AckedSurvive
<1>14. ASSUME Restored PROVE Ledger'
  <2>1. Leave(Boot)
    BY <1>14, <1>b, <1>f, <1>k DEF Restored, Leave, Critical
  <2> QED
    BY <1>b, <2>1, LeaveKeepsLedger
<1>15. ASSUME ProcessEnds PROVE LockInv' /\ WantInv' /\ NewerInv'
  <2>1. \A t \in Tasks : task'[t].pc = "idle"
    BY <1>15 DEF ProcessEnds, Idle
  <2> QED
    BY <1>15, <1>b, <2>1 DEF ProcessEnds, LockInv, WantInv, NewerInv, Critical, Tasks
<1>16. ASSUME Crash PROVE Ledger'
  BY <1>15, <1>16 DEF Crash, ProcessEnds, JournalInv, Ledger, DurableInv, AckedSurvive
<1>17. ASSUME Reboot PROVE Ledger'
  <2>1. DurableInv'
    BY <1>17, <1>r DEF Reboot, DurableInv
  <2>2. AckedSurvive'
    <3>1. acked' = acked /\ journal' \in survivors /\ survivors' = {journal'}
      BY <1>17 DEF Reboot, ProcessEnds
    <3>2. ASSUME NEW s \in acked
          PROVE  journal'.revision >= s.revision /\ (journal'.revision = s.revision => journal' = s)
      <4>1. AckedSurvive
        BY DEF JournalInv
      <4>2. ASSUME NEW d \in survivors
            PROVE  d.revision >= s.revision /\ (d.revision = s.revision => d = s)
        BY <4>1, Zenon DEF AckedSurvive
      <4> QED
        BY <3>1, <4>2, Zenon
    <3>3. ASSUME NEW s \in acked', NEW d \in survivors'
          PROVE  d.revision >= s.revision /\ (d.revision = s.revision => d = s)
      BY <3>1, <3>2, Zenon
    <3>4. ASSUME NEW s \in acked' PROVE journal'.revision >= s.revision
      BY <3>1, <3>2, Zenon
    <3> QED
      BY <3>3, <3>4, Zenon DEF AckedSurvive
  <2> QED
    BY <1>15, <1>17, <2>1, <2>2 DEF Reboot, Ledger
<1> QED
  BY <1>b, <1>1, <1>2, <1>3, <1>4, <1>5, <1>6, <1>8, <1>9, <1>10, <1>11, <1>12, <1>13, <1>14,
     <1>16, <1>17 DEF Next, Handle, Drive, Start

LEMMA JournalInvStep == JournalInv /\ [Next]_vars => JournalInv'
BY TypeStep, LedgerStep DEF JournalInv, Ledger

\* The inductive invariant behind the journal theorems holds throughout.
THEOREM JournalInvariant == Spec => []JournalInv
BY InitJournalInv, JournalInvStep, PTL DEF Spec

\* Type correctness of the agent.
THEOREM TypeCorrect == Spec => []TypeOK
<1>1. JournalInv => TypeOK
  BY DEF JournalInv
<1> QED
  BY <1>1, JournalInvariant, PTL

\* A client that was told Applied finds that state or a newer one in every
\* later journal, for any number of concurrent handlers and any mix of failed
\* syncs, crashes and power losses.
THEOREM AcknowledgedStatesSurvive == Spec => []AckedSurvive
<1>1. JournalInv => AckedSurvive
  BY DEF JournalInv
<1> QED
  BY <1>1, JournalInvariant, PTL

-----------------------------------------------------------------------------
(* The agent implements AppliedRegister: each of its steps publishes, hardens, *)
(* loses power, or leaves the register alone.                                *)

LEMMA RegisterStep == JournalInv /\ [Next]_vars => [Register!Next]_(Register!vars)
<1> SUFFICES ASSUME JournalInv, [Next]_vars PROVE [Register!Next]_(Register!vars)
  OBVIOUS
<1> USE HostAgentAssumption
<1>1. ASSUME NEW h \in Handlers, Record(h) PROVE [Register!Next]_(Register!vars)
  <2>1. task[h].want \in DesiredStates /\ task[h].want.revision > journal.revision
    BY <1>1 DEF Record, JournalInv, WantInv, NewerInv, Critical, Tasks
  <2> QED
    BY <1>1, <2>1 DEF Record, Register!Next, Register!Publish, Register!vars
<1>2. ASSUME NEW h \in Handlers, SyncJournal(h) PROVE [Register!Next]_(Register!vars)
  <2>1. journal \in DesiredStates
    BY <1>2 DEF SyncJournal, JournalInv, WantInv, NewerInv, Tasks
  <2> QED
    BY <1>2, <2>1 DEF SyncJournal, Register!Next, Register!Harden, Register!vars
<1>3. ASSUME Reboot PROVE [Register!Next]_(Register!vars)
  BY <1>3 DEF Reboot, ProcessEnds, Register!Next, Register!PowerLoss
<1>4. ASSUME NEW h \in Handlers,
             Receive(h) \/ Open(h) \/ Begin(h) \/ SnapshotUpdate(h) \/ Sync(h) \/ RollbackSync(h)
      PROVE  UNCHANGED <<journal, survivors, acked>>
  BY <1>4 DEF Receive, Open, Begin, SnapshotUpdate, Sync, RollbackSync, Abandon
<1>5. ASSUME NEW t \in Tasks, Drive(t) PROVE UNCHANGED <<journal, survivors, acked>>
  BY <1>5 DEF Drive, Refuse, SnapshotCutover, InstallFirewall, ActivateTunnel, Verify,
     RollbackCutover, Abandon
<1>6. ASSUME Start \/ Crash \/ OperatorRecovery \/ UNCHANGED vars
      PROVE  UNCHANGED <<journal, survivors, acked>>
  BY <1>6 DEF Start, StartEmpty, StartVerified, StartRestore, Restored, Crash, ProcessEnds,
     OperatorRecovery, vars
<1>7. UNCHANGED <<journal, survivors, acked>> => [Register!Next]_(Register!vars)
  BY DEF Register!vars
<1> QED
  BY <1>1, <1>2, <1>3, <1>4, <1>5, <1>6, <1>7 DEF Next, Handle

\* The host agent, with its concurrent handlers, rollbacks, crashes and power
\* losses, implements the register that the control plane relies on.
THEOREM AgentImplementsRegister == Spec => ImplementsRegister
<1>1. Init => Register!Init
  BY DEF Init, Register!Init
<1>2. JournalInv /\ [Next]_vars => [Register!Next]_(Register!vars)
  BY RegisterStep
<1> QED
  BY <1>1, <1>2, JournalInvariant, PTL DEF Spec, ImplementsRegister, Register!Spec

\* The journal never returns to an older revision, except that a power loss may
\* forget renames that were never synced.
THEOREM JournalOnlyMovesForward == Spec => JournalMovesForward
<1>1. JournalInv /\ [Next]_vars =>
        [journal' # journal => \/ journal'.revision > journal.revision
                               \/ journal' \in survivors /\ survivors' = {journal'}]_vars
  <2> SUFFICES ASSUME JournalInv, [Next]_vars, journal' # journal
               PROVE  \/ journal'.revision > journal.revision
                      \/ journal' \in survivors /\ survivors' = {journal'}
    OBVIOUS
  <2>1. [Register!Next]_(Register!vars)
    BY RegisterStep
  <2> QED
    BY <2>1 DEF Register!Next, Register!Publish, Register!Harden, Register!PowerLoss, Register!vars
<1> QED
  BY <1>1, JournalInvariant, PTL DEF Spec, JournalMovesForward
=============================================================================

----------------------------- MODULE HostCutover -----------------------------
(***************************************************************************)
(* One transaction of HostCutoverBackend, command by command: the iptables *)
(* commands of FirewallCommands::install and uninstall and the ip and wg   *)
(* commands of activate_wg0 and remove_wg0.  The coordinator has taken its *)
(* snapshot (no wg0, no owned chain) and staged the candidate; the         *)
(* transaction ends active, rolled back, or reported to an operator.       *)
(*                                                                         *)
(* Any command may fail.  A command killed at its timeout may be reported  *)
(* as failed although it took effect ("late").                             *)
(***************************************************************************)
EXTENDS Naturals, Sequences, SequencesExt

CONSTANTS MaxFailures,   \* bound on the commands that are made to fail
          Late           \* whether a failed command may have taken effect

ASSUME HostCutoverAssumption == MaxFailures \in Nat /\ Late \in BOOLEAN

VARIABLES
    phase,               \* where the transaction is
    todo,                \* the commands left in this phase
    fw,                  \* the VPN-owned chains, rules and jumps that exist
    link,                \* wg0
    firewall_installed, wg0_created,
    clean,               \* no error collected in the current clean-up loop
    failures,            \* commands made to fail so far
    slipped,             \* some failed command did take effect
    seen                 \* the host as the last whole backend step left it

vars == <<phase, todo, fw, link, firewall_installed, wg0_created, clean,
          failures, slipped, seen>>

-----------------------------------------------------------------------------
\* FirewallCommands::from_plan.
Command(do, on) == [do |-> do, on |-> on]

Stage == << Command("new", "FWD"), Command("new", "NAT"),
            Command("append", "peer accept"), Command("append", "https accept"),
            Command("append", "drop"), Command("append", "snat") >>
Activate == << Command("attach", "NAT jump"), Command("attach", "FWD jump") >>
Detach == << Command("detach", "FWD jump"), Command("detach", "NAT jump") >>
Cleanup == << Command("flush", "FWD"), Command("delete", "FWD"),
              Command("flush", "NAT"), Command("delete", "NAT") >>

Rules(chain) == IF chain = "FWD" THEN {"peer accept", "https accept", "drop"}
                                 ELSE {"snat"}

Jump(chain) == IF chain = "FWD" THEN "FWD jump" ELSE "NAT jump"

Chains == {"FWD", "NAT"}

Complete == Chains \cup UNION {Rules(c) \cup {Jump(c)} : c \in Chains}

ChainOf(item) == CHOOSE c \in Chains : item \in Rules(c) \cup {Jump(c)}

\* iptables: whether a command can work on the tables as they are, and what
\* it does to them.
Succeeds(c) ==
    CASE c.do = "new"                  -> c.on \notin fw
      [] c.do \in {"append", "attach"} -> ChainOf(c.on) \in fw
      [] c.do = "detach"               -> c.on \in fw
      [] c.do = "flush"                -> c.on \in fw
      [] c.do = "delete"               -> c.on \in fw /\ (Rules(c.on) \cup {Jump(c.on)}) \cap fw = {}

Effect(c) ==
    CASE c.do \in {"new", "append", "attach"} -> fw \cup {c.on}
      [] c.do \in {"detach", "delete"}        -> fw \ {c.on}
      [] c.do = "flush"                       -> fw \ Rules(c.on)

\* A command reports success, or reports failure.
Ok(c) == /\ Succeeds(c)
         /\ fw' = Effect(c)
         /\ UNCHANGED <<failures, slipped>>

\* One more command is reported as failed.
Inject == /\ failures < MaxFailures
          /\ failures' = failures + 1

Failed(c) ==
    \/ ~Succeeds(c) /\ UNCHANGED <<fw, failures, slipped>>
    \/ Succeeds(c) /\ Inject /\ UNCHANGED <<fw, slipped>>
    \/ Succeeds(c) /\ Inject /\ Late /\ fw' = Effect(c) /\ slipped' = TRUE

\* The same for the commands on the link.
LinkFailed(effect) ==
    /\ Inject
    /\ \/ UNCHANGED <<link, slipped>>
       \/ Late /\ link' = effect /\ slipped' = TRUE

\* activate_wg0: link add, address add, setconf, link set up.
LinkSteps == << Command("link", "created"), Command("link", "addressed"),
                Command("link", "configured"), Command("link", "up") >>

\* The host as HostAgent sees it.
HostView(l, f) ==
    [wg    |-> CASE l = "absent" -> "absent"
                 [] l \in {"created", "addressed"} -> "partial"
                 [] OTHER -> l,
     peers |-> IF l \in {"configured", "up"} THEN "wanted" ELSE "unknown",
     fw    |-> CASE f = {} -> "none" [] f = Complete -> "full" [] OTHER -> "partial"]

Init ==
    /\ phase = "stage"
    /\ todo = Stage
    /\ fw = {}
    /\ link = "absent"
    /\ firewall_installed = FALSE
    /\ wg0_created = FALSE
    /\ clean = TRUE
    /\ failures = 0
    /\ slipped = FALSE
    /\ seen = HostView("absent", {})

-----------------------------------------------------------------------------
\* The end of a backend step: control returns to the coordinator.
StepDone == seen' = HostView(link', fw')

(* install, first loop: create the chains and fill them. *)
StageCommand ==
    /\ phase = "stage"
    /\ \/ /\ Ok(Head(todo))
          /\ phase' = IF Len(todo) = 1 THEN "attach" ELSE "stage"
          /\ todo' = IF Len(todo) = 1 THEN Activate ELSE Tail(todo)
       \/ /\ Failed(Head(todo))
          /\ phase' = "unstage"
          /\ todo' = LET staged == Len(Stage) - Len(todo)
                     IN  (IF staged > 0 THEN SubSeq(Cleanup, 1, 2) ELSE <<>>) \o
                         (IF staged > 1 THEN SubSeq(Cleanup, 3, 4) ELSE <<>>)
    /\ UNCHANGED <<link, firewall_installed, wg0_created, clean, seen>>

\* Mutant of AttachCommand: the loop ends after the first jump.
AttachStopsEarly ==
    /\ phase = "attach"
    /\ Ok(Head(todo))
    /\ phase' = "link"
    /\ todo' = Tail(todo)
    /\ firewall_installed' = TRUE
    /\ UNCHANGED <<link, wg0_created, clean, seen>>

(* install, second loop: attach the jumps. *)
AttachCommand ==
    /\ phase = "attach"
    /\ UNCHANGED <<link, wg0_created, clean>>
    /\ \/ /\ Ok(Head(todo))
          /\ IF Len(todo) = 1
               THEN /\ phase' = "link"
                    /\ todo' = LinkSteps
                    /\ firewall_installed' = TRUE
                    /\ StepDone
               ELSE /\ todo' = Tail(todo)
                    /\ UNCHANGED <<phase, firewall_installed, seen>>
       \/ /\ Failed(Head(todo))
          /\ phase' = "unattach"
          /\ todo' = LET attached == Len(Activate) - Len(todo)
                     IN  SubSeq(Detach, Len(Detach) - attached + 1, Len(Detach))
          /\ UNCHANGED <<firewall_installed, seen>>

(* detach_attached and cleanup_stage run every command and collect errors. *)
BestEffortCommand ==
    /\ phase \in {"unattach", "unstage"}
    /\ todo # <<>>
    /\ \/ Ok(Head(todo)) /\ UNCHANGED clean
       \/ Failed(Head(todo)) /\ clean' = FALSE
    /\ todo' = Tail(todo)
    /\ UNCHANGED <<phase, link, firewall_installed, wg0_created, seen>>

\* Mutant of BestEffortDone: the chains are cleaned up although a detach failed.
CleanUpAttached ==
    /\ phase \in {"unattach", "unstage"}
    /\ todo = <<>>
    /\ UNCHANGED <<fw, link, firewall_installed, wg0_created, clean, failures, slipped>>
    /\ IF phase = "unattach"
         THEN phase' = "unstage" /\ todo' = Cleanup /\ UNCHANGED seen
         ELSE phase' = "rollback" /\ todo' = <<>> /\ StepDone

(* A failed detach keeps the chains; a clean one removes them; either way the
   installation has failed and the coordinator rolls back. *)
BestEffortDone ==
    /\ phase \in {"unattach", "unstage"}
    /\ todo = <<>>
    /\ UNCHANGED <<fw, link, firewall_installed, wg0_created, clean, failures, slipped>>
    /\ IF phase = "unattach" /\ clean
         THEN phase' = "unstage" /\ todo' = Cleanup /\ UNCHANGED seen
         ELSE phase' = "rollback" /\ todo' = <<>> /\ StepDone

\* Mutant of LinkCommand: the interface is owned only once it is up.
OwnedWhenUp ==
    /\ phase = "link"
    /\ UNCHANGED <<fw, firewall_installed, clean>>
    /\ \/ /\ link' = Head(todo).on
          /\ todo' = Tail(todo)
          /\ wg0_created' = (todo' = <<>>)
          /\ UNCHANGED <<failures, slipped>>
          /\ IF todo' = <<>> THEN phase' = "verify" /\ StepDone
                             ELSE UNCHANGED <<phase, seen>>
       \/ /\ LinkFailed(Head(todo).on)
          /\ phase' = "rollback"
          /\ todo' = <<>>
          /\ UNCHANGED wg0_created
          /\ StepDone

(* activate_wg0.  The interface is owned once `ip link add' succeeded. *)
LinkCommand ==
    /\ phase = "link"
    /\ UNCHANGED <<fw, firewall_installed, clean>>
    /\ \/ /\ link' = Head(todo).on
          /\ wg0_created' = TRUE
          /\ todo' = Tail(todo)
          /\ UNCHANGED <<failures, slipped>>
          /\ IF todo' = <<>> THEN phase' = "verify" /\ StepDone
                             ELSE UNCHANGED <<phase, seen>>
       \/ /\ LinkFailed(Head(todo).on)
          /\ phase' = "rollback"
          /\ todo' = <<>>
          /\ StepDone
          /\ UNCHANGED wg0_created

(* verify_wg0, and whatever the coordinator does next: the audit record and the
   journal may still fail and ask for a rollback. *)
Verify ==
    /\ phase \in {"verify", "active"}
    /\ phase' \in (IF phase = "verify" /\ link = "up" THEN {"active", "rollback"}
                                                      ELSE {"rollback"})
    /\ UNCHANGED <<todo, fw, link, firewall_installed, wg0_created, clean, failures, slipped, seen>>

\* Mutant of RemoveTunnel: a failed removal does not stop the rollback.
RemovalFailureIgnored ==
    /\ phase = "rollback"
    /\ UNCHANGED <<fw, firewall_installed, clean, failures, slipped, seen>>
    /\ link' \in {link, "absent"}
    /\ wg0_created' = FALSE
    /\ phase' = "uninstall"
    /\ todo' = Detach \o Cleanup

(* rollback, first half: remove_wg0. *)
RemoveTunnel ==
    /\ phase = "rollback"
    /\ UNCHANGED <<fw, firewall_installed, clean>>
    /\ \/ /\ link' = IF wg0_created THEN "absent" ELSE link
          /\ wg0_created' = FALSE
          /\ UNCHANGED <<failures, slipped>>
          /\ IF firewall_installed
               THEN phase' = "uninstall" /\ todo' = Detach \o Cleanup /\ UNCHANGED seen
               ELSE phase' = "rolled back" /\ todo' = <<>> /\ StepDone
       \/ /\ wg0_created
          /\ LinkFailed("absent")
          /\ phase' = "operator"
          /\ StepDone
          /\ UNCHANGED <<wg0_created, todo>>

(* rollback, second half: uninstall stops at the first failure. *)
UninstallCommand ==
    /\ phase = "uninstall"
    /\ UNCHANGED <<link, wg0_created, clean>>
    /\ \/ /\ Ok(Head(todo))
          /\ todo' = Tail(todo)
          /\ IF todo' = <<>>
               THEN phase' = "rolled back" /\ firewall_installed' = FALSE /\ StepDone
               ELSE UNCHANGED <<phase, firewall_installed, seen>>
       \/ /\ Failed(Head(todo))
          /\ phase' = "operator"
          /\ StepDone
          /\ UNCHANGED <<todo, firewall_installed>>

Next == \/ StageCommand \/ AttachCommand \/ BestEffortCommand \/ BestEffortDone
        \/ LinkCommand \/ Verify \/ RemoveTunnel \/ UninstallCommand

Spec == Init /\ [][Next]_vars
-----------------------------------------------------------------------------
Phases == {"stage", "attach", "unattach", "unstage", "link", "verify", "active",
           "rollback", "uninstall", "rolled back", "operator"}

TypeOK ==
    /\ phase \in Phases
    /\ IF phase = "link" THEN IsSuffix(todo, LinkSteps)
                         ELSE Range(todo) \cap Range(LinkSteps) = {}
    /\ fw \subseteq Complete
    /\ link \in {"absent"} \cup {c.on : c \in Range(LinkSteps)}
    /\ firewall_installed \in BOOLEAN /\ wg0_created \in BOOLEAN /\ clean \in BOOLEAN
    /\ failures \in 0..MaxFailures /\ slipped \in BOOLEAN

\* Packets that arrive on an up wg0 always meet the complete forwarding chain,
\* ending in the drop rule: it is in place before the link comes up and goes
\* only after the link is gone ("If wg0 removal fails, keep the forwarding
\* restrictions in place", host_cutover.rs).
UpMeansRestricted ==
    link = "up" => {"FWD", "FWD jump"} \cup Rules("FWD") \subseteq fw

\* As long as no failed command took effect after all, a jump never leads into a
\* chain that is missing a rule: chains are filled before they are attached and
\* flushed only once detached.
JumpsLeadToFullChains ==
    ~slipped => \A c \in Chains : Jump(c) \in fw => Rules(c) \subseteq fw

\* apply.rs, HostBackend: "rollback must restore the snapshot after a partial
\* stage, activate, or verify failure".  A rollback that reports success has
\* left neither wg0 nor an owned chain.
RollbackRestores == phase = "rolled back" => link = "absent" /\ fw = {}

\* What the code does guarantee as long as no failed command took effect: a
\* rollback that reports success restores the snapshot however many commands
\* failed on the way, unless the clean-up inside install collected an error.
RollbackRestoresIfClean == clean /\ ~slipped => RollbackRestores

-----------------------------------------------------------------------------
\* The transaction as a handler of HostAgent.
Wanted == [revision |-> 1, server |-> "key", peers |-> "wanted"]

AgentPc == CASE phase \in {"stage", "attach", "unattach", "unstage"} -> "firewall"
             [] phase = "link" -> "tunnel"
             [] phase = "active" -> "record"
             [] phase = "uninstall" -> "rollback"
             [] OTHER -> phase

Over == phase \in {"rolled back", "operator"}

\* Ownership of wg0 as of the last whole backend step.
OwnsTunnel == CASE phase \in {"verify", "active", "rollback"} -> wg0_created
                [] phase = "uninstall" -> seen.wg # "absent" /\ link = "absent"
                [] OTHER -> FALSE

Agent == INSTANCE HostAgent
    WITH Handlers <- {"apply"}, Boot <- "boot", Nobody <- "nobody",
         Servers <- {"key"}, AgentKey <- "key",
         PeerLists <- {"wanted"}, ValidPeerLists <- {"wanted"}, Unknown <- "unknown",
         MaxRevision <- 1, Faults <- {"dirty", "late"},
         agent <- "serving",
         journal <- [revision |-> 0, server |-> "key", peers |-> "unknown"],
         survivors <- {[revision |-> 0, server |-> "key", peers |-> "unknown"]},
         host <- seen,
         lock <- IF Over THEN "nobody" ELSE "apply",
         task <- [t \in {"apply", "boot"} |->
                    [pc |-> IF t = "boot" \/ Over THEN "idle" ELSE AgentPc,
                     want |-> IF t = "boot" \/ Over
                                THEN [revision |-> 0, server |-> "key", peers |-> "unknown"]
                                ELSE Wanted,
                     prev |-> [revision |-> 0, server |-> "key", peers |-> "unknown"],
                     fwOwned |-> t = "apply" /\ ~Over /\ firewall_installed,
                     wgOwned |-> t = "apply" /\ OwnsTunnel]],
         operator <- phase = "operator",
         acked <- {}

\* Seen from one backend step to the next, the commands do exactly what the
\* steps of HostAgent say: the installation, the tunnel, the verification and
\* the rollback, with their failures.
ImplementsAgentSteps ==
    [][Agent!InstallFirewall("apply") \/ Agent!ActivateTunnel("apply")
       \/ Agent!Verify("apply") \/ Agent!Record("apply")
       \/ Agent!RollbackCutover("apply")]_<<Agent!vars>>

\* And between two commands the host is always one that HostAgent's crash
\* accounts for.
CrashesAreCovered == HostView(link, fw) \in Agent!Interrupted
=============================================================================

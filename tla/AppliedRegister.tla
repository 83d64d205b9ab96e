--------------------------- MODULE AppliedRegister ---------------------------
(***************************************************************************)
(* What the host agent promises to the rest of the system, and nothing     *)
(* about how: a register that holds the last applied desired state.  The   *)
(* register is read as `visible' (the journal file as a process sees it);  *)
(* `survivors' are the values a power loss may leave.  A writer is told    *)
(* "applied" only for a value that is the one survivor.                    *)
(*                                                                         *)
(* HostAgent implements this specification; HostReconcile uses it as its   *)
(* model of the agent.                                                     *)
(***************************************************************************)
EXTENDS Naturals

CONSTANTS States,      \* the desired states that can be applied
          NoState      \* the register before the first apply; revision 0

VARIABLES visible,     \* the journal as any process reads it
          survivors,   \* what a power loss may leave of it
          acked        \* the states some caller was told are applied

vars == <<visible, survivors, acked>>

Init == /\ visible = NoState
        /\ survivors = {NoState}
        /\ acked = {}

\* A new state becomes readable.  The revision always moves forward.
Publish == /\ visible' \in States
           /\ visible'.revision > visible.revision
           /\ survivors' = survivors \cup {visible'}
           /\ UNCHANGED acked

\* The readable state reaches stable storage, and its writer may be told so.
Harden == /\ survivors' = {visible}
          /\ acked' \in {acked, acked \cup {visible}}
          /\ visible \in States
          /\ UNCHANGED visible

\* A power loss: a state published since the last hardening may be forgotten or
\* may have survived, whether or not newer ones were published after it.
PowerLoss == /\ visible' \in survivors
             /\ survivors' = {visible'}
             /\ UNCHANGED acked

Next == Publish \/ Harden \/ PowerLoss

Spec == Init /\ [][Next]_vars

-----------------------------------------------------------------------------
\* A caller that was told "applied" is never betrayed: the register still
\* holds that very state or a newer one, across crashes and power losses.
AckedSurvive ==
    \A s \in acked, d \in survivors : /\ d.revision >= s.revision
                                      /\ d.revision = s.revision => d = s

=============================================================================

------------------------------ MODULE MCParts ------------------------------
(***************************************************************************)
(* Components that share no state, checked side by side: the initial state *)
(* picks one of them, whose steps are then the only ones that are taken.   *)
(* The components with proofs are extended, the others are instances with  *)
(* variables of their own.                                                 *)
(***************************************************************************)
EXTENDS CircuitBreaker, GovernedRun, AsyncLifecycle, TLC

CONSTANTS
    Processes,              \* of the audit trail; the clients of the stream
    MaxAppends, AuditCuts,
    BufferSize, QueueSize, MaxEvents,
    MaxGroups, GroupSize, JournalCuts, GroupInterrupts

ASSUME PartsAssumption == MaxAppends \in Nat

VARIABLE part   \* the component that takes steps

VARIABLES aLines, aEnded, aLast, aAppends, aTold, aCuts, aOverlap
VARIABLES sEmitted, sBuffer, sAt, sReplay, sQueue, sListed, sSent, sGap
VARIABLES oPc, oGroup, oActive, oRecords, oStatus, oFinish, oEvidence, oRows, oTorn,
          oMem, oPoisoned, oOpen, oCalled, oReturned, oCuts, oInterrupts

AVars == <<aLines, aEnded, aLast, aAppends, aTold, aCuts, aOverlap>>
SVars == <<sEmitted, sBuffer, sAt, sReplay, sQueue, sListed, sSent, sGap>>
OVars == <<oPc, oGroup, oActive, oRecords, oStatus, oFinish, oEvidence, oRows, oTorn,
           oMem, oPoisoned, oOpen, oCalled, oReturned, oCuts, oInterrupts>>

A == INSTANCE AuditLog WITH
    MaxCuts <- AuditCuts, lines <- aLines, ended <- aEnded, last <- aLast,
    appends <- aAppends, told <- aTold, cuts <- aCuts, overlap <- aOverlap

S == INSTANCE ThoughtStream WITH
    Clients <- Processes, emitted <- sEmitted, buffer <- sBuffer, at <- sAt, replay <- sReplay,
    queue <- sQueue, listed <- sListed, sent <- sSent, gap <- sGap

O == INSTANCE ObservationGroup WITH
    MaxCuts <- JournalCuts, MaxInterrupts <- GroupInterrupts,
    pc <- oPc, group <- oGroup, active <- oActive, records <- oRecords,
    status <- oStatus, finish <- oFinish, evidence <- oEvidence, rows <- oRows,
    torn <- oTorn, mem <- oMem, poisoned <- oPoisoned, open <- oOpen,
    called <- oCalled, returned <- oReturned, cuts <- oCuts, interrupts <- oInterrupts

PartsInit ==
    /\ part \in {"breaker", "governed", "audit", "stream", "lifecycle", "group"}
    /\ Init /\ GovernedInit /\ A!Init /\ S!Init /\ LifecycleInit /\ O!Init

PartsNext ==
    \/ /\ part = "breaker" /\ Next
       /\ UNCHANGED <<part, governedVars, AVars, SVars, lifecycleVars, OVars>>
    \/ /\ part = "governed" /\ GovernedNext
       /\ UNCHANGED <<part, vars, AVars, SVars, lifecycleVars, OVars>>
    \/ /\ part = "audit" /\ A!Next
       /\ UNCHANGED <<part, vars, governedVars, SVars, lifecycleVars, OVars>>
    \/ /\ part = "stream" /\ S!Next
       /\ UNCHANGED <<part, vars, governedVars, AVars, lifecycleVars, OVars>>
    \/ /\ part = "lifecycle" /\ LifecycleNext
       /\ UNCHANGED <<part, vars, governedVars, AVars, SVars, OVars>>
    \/ /\ part = "group" /\ O!Next
       /\ UNCHANGED <<part, vars, governedVars, AVars, SVars, lifecycleVars>>

PartsSpec ==
    PartsInit /\ [][PartsNext]_<<part, vars, governedVars, AVars, SVars, lifecycleVars, OVars>>

PartsSymmetry == Permutations(Processes) \cup Permutations(Runners) \cup Permutations(Experiments)

-----------------------------------------------------------------------------
(* What verifies as an audit trail is what the program was told it recorded, *)
(* in that order (agents/audit.py).                                          *)
AuditIsExact == A!AuditIsExact

(* A dashboard sees every thought once and in order (agents/stream.py).      *)
StreamIsSeamless == S!StreamIsSeamless

(* The journal of a training group can be read after any failure and claims  *)
(* no more than was done (training/grpo_observation_journal.py).             *)
JournalIsHonest == O!JournalIsHonest

=============================================================================

----------------------------- MODULE GuestCapture -----------------------------
(***************************************************************************)
(* A checkpoint together with the bounded output of the guest that is      *)
(* captured: the worker joins the guest, takes its output, and only then   *)
(* cuts the journal.  The journal and the output share no state, so the    *)
(* guest is taken to write its output first; once the copies are taken,    *)
(* nothing reads the sink again and its state is forgotten.                *)
(***************************************************************************)
EXTENDS Checkpoint

CONSTANTS Writers, OutputLimit, Sizes, MaxBuffers, MaxCalls

ASSUME OutputConstants ==
    OutputLimit \in Nat /\ Sizes \subseteq Nat /\ MaxBuffers \in Nat /\ MaxCalls \in Nat

VARIABLES bytes, overflowed, closed, pending, calls, claimed, lost, result,
    taken  \* the output has been taken

Out == INSTANCE BoundedOutput WITH Limit <- OutputLimit

output == <<bytes, overflowed, closed, pending, calls, claimed, lost, result>>

CaptureInit == Init /\ Out!Init /\ taken = FALSE

OutputStep ==
    /\ phase = "running" /\ ~taken
    /\ Out!Next
    /\ UNCHANGED <<vars, taken>>

\* An output that overflowed fails the capture before its journal is read.  One
\* sink stands for stdout and stderr, which are finished one after the other.
TakeOutput ==
    /\ phase = "running" /\ ~taken
    /\ result # "none"
    /\ taken' = TRUE
    /\ phase' = IF result = "ok" THEN "running" ELSE "refused"
    /\ bytes' = <<>> /\ overflowed' = FALSE /\ closed' = FALSE
    /\ pending' = [w \in Writers |-> <<>>]
    /\ calls' = [w \in Writers |-> 0] /\ claimed' = calls'
    /\ UNCHANGED <<document, binding, journal, artifact, changed, dest, verified, replayed,
                   lost, result>>

CheckpointStep ==
    /\ phase = "running" => taken
    /\ Next
    /\ UNCHANGED <<output, taken>>

CaptureNext == OutputStep \/ TakeOutput \/ CheckpointStep

CaptureSpec == CaptureInit /\ [][CaptureNext]_<<vars, output, taken>>

-----------------------------------------------------------------------------
(* Of every writer the sink holds as many bytes as it has told the writer   *)
(* ("rejects an entire write": no refused buffer leaves a part behind, in   *)
(* whatever order the writers come, single or vectored), within its limit.  *)
(* And a checkpoint is captured, and its output returned, only of a guest   *)
(* no buffer of which was turned away for want of room, "even when the      *)
(* guest ignored the corresponding I/O error" and later writes would fit.   *)
CaptureIsWhole ==
    /\ Out!ClaimsHeld
    /\ result = "ok" \/ phase \in {"cut", "captured", "sealed", "opened", "replaying"}
         => ~lost
=============================================================================

---------------------------- MODULE BoundedOutput ----------------------------
(***************************************************************************)
(* The bounded capture of a guest's stdout or stderr.  All clones share    *)
(* one state under a mutex, so each poll is one step; several writers make *)
(* calls of several buffers, written one poll_write per buffer or in one   *)
(* vectored write, and the worker takes the result when the guest is done. *)
(* A byte is abstracted to its writer.                                     *)
(***************************************************************************)
EXTENDS Naturals, Sequences, FiniteSets

CONSTANTS
    Writers,    \* threads of the guest
    Limit,      \* capture limit in bytes
    Sizes,      \* buffer sizes a call may have
    MaxBuffers, \* buffers of a call
    MaxCalls    \* calls of a writer

VARIABLES
    bytes,       \* OutputState.bytes
    overflowed,  \* OutputState.overflowed
    closed,      \* OutputState.closed
    pending,     \* buffers a writer's current call has still to write
    calls,       \* calls a writer has begun
    claimed,     \* bytes the sink has told each writer it accepted
    lost,        \* a buffer was refused for want of room
    result       \* what finish returned

vars == <<bytes, overflowed, closed, pending, calls, claimed, lost, result>>

Total(buffers) ==
    LET sum[i \in 0 .. Len(buffers)] == IF i = 0 THEN 0 ELSE sum[i - 1] + buffers[i]
    IN  sum[Len(buffers)]
Run(w, n) == [i \in 1 .. n |-> w]
BytesOf(w) == Cardinality({i \in DOMAIN bytes : bytes[i] = w})

Init ==
    /\ bytes = <<>>
    /\ overflowed = FALSE
    /\ closed = FALSE
    /\ pending = [w \in Writers |-> <<>>]
    /\ calls = [w \in Writers |-> 0]
    /\ claimed = [w \in Writers |-> 0]
    /\ lost = FALSE
    /\ result = "none"

\* A guest thread begins a call; the guest has not been joined yet.
Call(w, buffers) ==
    /\ result = "none"
    /\ pending[w] = <<>> /\ calls[w] < MaxCalls
    /\ pending' = [pending EXCEPT ![w] = buffers]
    /\ calls' = [calls EXCEPT ![w] = @ + 1]
    /\ UNCHANGED <<bytes, overflowed, closed, claimed, lost, result>>

-----------------------------------------------------------------------------
(* One write of n bytes: ignored when empty, refused when the sink is       *)
(* closed or has overflowed, refused whole and remembered when it does not  *)
(* fit, else appended whole.                                               *)

\* Fault: the refusal is not remembered.
AcceptForgetful(w, n) ==
    IF n = 0 \/ closed
    THEN UNCHANGED <<bytes, overflowed, claimed, lost>>
    ELSE IF overflowed \/ Len(bytes) + n > Limit
         THEN lost' = TRUE /\ UNCHANGED <<bytes, overflowed, claimed>>
         ELSE /\ bytes' = bytes \o Run(w, n)
              /\ claimed' = [claimed EXCEPT ![w] = @ + n]
              /\ UNCHANGED <<overflowed, lost>>

Accept(w, n) ==
    IF n = 0 \/ closed
    THEN UNCHANGED <<bytes, overflowed, claimed, lost>>
    ELSE IF overflowed \/ Len(bytes) + n > Limit
         THEN overflowed' = TRUE /\ lost' = TRUE /\ UNCHANGED <<bytes, claimed>>
         ELSE /\ bytes' = bytes \o Run(w, n)
              /\ claimed' = [claimed EXCEPT ![w] = @ + n]
              /\ UNCHANGED <<overflowed, lost>>

Refuses(n) == n > 0 /\ (closed \/ overflowed \/ Len(bytes) + n > Limit)

\* The next buffer of a call, in a poll of its own: an error ends the call
\* short.
PollWrite(w) ==
    /\ pending[w] # <<>>
    /\ Accept(w, Head(pending[w]))
    /\ pending' = [pending EXCEPT
           ![w] = IF Refuses(Head(@)) THEN <<>> ELSE Tail(@)]
    /\ UNCHANGED <<closed, calls, result>>

\* All buffers of a call at once.
PollWriteVectored(w) ==
    /\ pending[w] # <<>>
    /\ Accept(w, Total(pending[w]))
    /\ pending' = [pending EXCEPT ![w] = <<>>]
    /\ UNCHANGED <<closed, calls, result>>

\* A clone is shut down, and with it every clone.
PollShutdown ==
    /\ ~closed /\ result = "none"
    /\ closed' = TRUE
    /\ UNCHANGED <<bytes, overflowed, pending, calls, claimed, lost, result>>

\* The guest's threads are joined: take the output, or learn of the overflow.
Finish ==
    /\ result = "none"
    /\ \A w \in Writers : pending[w] = <<>>
    /\ result' = IF overflowed THEN "limit" ELSE "ok"
    /\ UNCHANGED <<bytes, overflowed, closed, pending, calls, claimed, lost>>

Next ==
    \/ \E w \in Writers :
           \/ \E k \in 1 .. MaxBuffers : \E buffers \in [1 .. k -> Sizes] : Call(w, buffers)
           \/ PollWrite(w) \/ PollWriteVectored(w)
    \/ PollShutdown \/ Finish

Spec == Init /\ [][Next]_vars

-----------------------------------------------------------------------------
\* Exactly what was accepted is held, within the limit.
ClaimsHeld ==
    /\ \A w \in Writers : BytesOf(w) = claimed[w]
    /\ Len(bytes) <= Limit
=============================================================================

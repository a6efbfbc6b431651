---------------------------- MODULE TraceBuffer ----------------------------
(***************************************************************************)
(* What the per-CPU entry ring of log_instr.c promises (spec 4.3, 4.1):    *)
(* committed entries are numbered in commit order.  In streaming mode a   *)
(* commit hands the entry to the backend at once.  In buffered mode it    *)
(* joins a FIFO of at most Capacity entries, the oldest dropped when it   *)
(* is full, and a flush hands the whole FIFO to the backend; a flush with *)
(* tracing off first commits the entry holding the FLUSH event.  The ring *)
(* holds no entries in streaming mode.                                    *)
(***************************************************************************)
EXTENDS Naturals, Sequences

CONSTANTS CPUs, Capacity

VARIABLES
    buffered,   \* buffered[c]: the BUFFERED flag
    pending,    \* pending[c]: commit numbers held for the next flush, oldest first
    emitted,    \* emitted[c]: commit numbers handed to the backend, in order
    committed   \* committed[c]: entries committed so far

vars == <<buffered, pending, emitted, committed>>

Init ==
    /\ buffered  = [c \in CPUs |-> FALSE]
    /\ pending   = [c \in CPUs |-> <<>>]
    /\ emitted   = [c \in CPUs |-> <<>>]
    /\ committed = [c \in CPUs |-> 0]

(* The FIFO after entry k joins it. *)
Enqueue(q, k) == IF Len(q) = Capacity THEN Append(Tail(q), k) ELSE Append(q, k)

Commit(c) ==
    LET k == committed[c] + 1
    IN  /\ committed' = [committed EXCEPT ![c] = k]
        /\ IF buffered[c]
           THEN /\ pending' = [pending EXCEPT ![c] = Enqueue(@, k)]
                /\ UNCHANGED emitted
           ELSE /\ pending[c] = <<>>
                /\ emitted' = [emitted EXCEPT ![c] = Append(@, k)]
                /\ UNCHANGED pending
        /\ UNCHANGED buffered

(* A flush, with or without the commit of its own entry first. *)
Flush(c) ==
    /\ buffered[c]
    /\ \/ /\ emitted' = [emitted EXCEPT ![c] = @ \o pending[c]]
          /\ UNCHANGED committed
       \/ LET k == committed[c] + 1
          IN  /\ committed' = [committed EXCEPT ![c] = k]
              /\ emitted' = [emitted EXCEPT ![c] = @ \o Enqueue(pending[c], k)]
    /\ pending' = [pending EXCEPT ![c] = <<>>]
    /\ UNCHANGED buffered

(* Leaving buffered mode is only allowed with nothing held. *)
SetBuffered(c, b) ==
    /\ b \/ pending[c] = <<>>
    /\ buffered' = [buffered EXCEPT ![c] = b]
    /\ UNCHANGED <<pending, emitted, committed>>

Next ==
    \E c \in CPUs :
        \/ Commit(c)
        \/ Flush(c)
        \/ \E b \in BOOLEAN : SetBuffered(c, b)

Spec == Init /\ [][Next]_vars
=============================================================================

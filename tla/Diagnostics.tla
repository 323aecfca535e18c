------------------------------ MODULE Diagnostics ------------------------------
(***************************************************************************)
(* The event ring of src-tauri/src/gateway_diagnostics.rs: it keeps the     *)
(* newest events within a number of lines and a number of bytes.  An event  *)
(* is the length of its message.                                           *)
(***************************************************************************)
EXTENDS Naturals, Sequences, SequencesExt

CONSTANTS
    MaxLines,
    MaxBytes

ASSUME DiagnosticsAssumption == {MaxLines, MaxBytes} \subseteq Nat \ {0}

NewRing == [events |-> <<>>, total |-> 0]

SaturatingSub(m, n) == IF n > m THEN 0 ELSE m - n

(* Mutant: the bytes of a removed event are still counted. *)
PopUncounted(ring) == [ring EXCEPT !.events = Tail(@)]

PopFront(ring) ==
    [events |-> Tail(ring.events), total |-> SaturatingSub(ring.total, Head(ring.events))]

Exceeds(ring) ==
    \/ Len(ring.events) > MaxLines
    \/ ring.total > MaxBytes /\ Len(ring.events) > 1

(* pop_front, once more and once more. *)
Popped(ring) ==
    LET popped[n \in 0 .. Len(ring.events)] ==
            IF n = 0 THEN ring ELSE PopFront(popped[n - 1])
    IN  popped

(* trim_to_capacity: pop while it exceeds. *)
TrimToCapacity(ring) ==
    LET enough == CHOOSE n \in 0 .. Len(ring.events) :
                      /\ ~ Exceeds(Popped(ring)[n])
                      /\ \A m \in 0 .. n - 1 : Exceeds(Popped(ring)[m])
    IN  Popped(ring)[enough]

AppendEvent(ring, message) ==
    TrimToCapacity([events |-> Append(ring.events, message), total |-> ring.total + message])

-------------------------------------------------------------------------------
(* What the ring should hold of all that was ever said: the longest end of  *)
(* it that fits, and the last event even if that does not.                  *)
Sums(events) ==
    LET sum[n \in 0 .. Len(events)] == IF n = 0 THEN 0 ELSE sum[n - 1] + events[n]
    IN  sum

Bytes(events) == Sums(events)[Len(events)]

Fits(events) ==
    Len(events) <= 1 \/ (Len(events) <= MaxLines /\ Bytes(events) <= MaxBytes)

Newest(events) ==
    CHOOSE kept \in Suffixes(events) :
        /\ Fits(kept)
        /\ \A other \in Suffixes(events) : Fits(other) => Len(other) <= Len(kept)
===============================================================================

----------------------------- MODULE DwarfBudget -----------------------------
(***************************************************************************)
(* The time extract_each may take over the binaries of one build, with     *)
(* what its caller does with each result: it is a generator, so its clock  *)
(* runs on meanwhile.  Time is counted in half seconds; the code counts    *)
(* what remains of the phase in whole seconds and gives a binary at least  *)
(* one.  What counts is the waiting for other processes; computing is taken*)
(* to need no time.                                                        *)
(***************************************************************************)
EXTENDS Integers, Sequences, SequencesExt

CONSTANTS
    Binaries,       \* how many binaries a build leaves at most
    DwarfTimeout,   \* seconds per binary
    PhaseTimeout,   \* seconds for all of them
    ReapTimeout,    \* seconds _killpg waits for a child it killed
    RustfiltTimeout, \* seconds rustfilt may take over the names of one binary
    Needs           \* what a binary may need, in half seconds: its extraction,
                    \* and what follows it (reaping the child, or rustfilt)

ASSUME DwarfAssumption ==
    /\ Binaries \in Nat /\ DwarfTimeout \in Nat /\ PhaseTimeout \in Nat
    /\ ReapTimeout \in Nat /\ RustfiltTimeout \in Nat
    /\ Needs \subseteq [child : Nat, after : Nat]

Least(x, y) == IF x < y THEN x ELSE y
Most(x, y) == IF x > y THEN x ELSE y

Remaining(spent) == (2 * PhaseTimeout - spent) \div 2

(* Mutant: every binary may take its full timeout. *)
UnclampedTimeout(spent) == DwarfTimeout

ChildTimeout(spent) == Most(1, Least(DwarfTimeout, Remaining(spent)))

(* A child over its timeout is killed with its process group and reaped;   *)
(* the names of one that answers go through rustfilt on the Rust tiers     *)
(* (_postprocess_item), before extract_each looks at its clock again.      *)
ExtractIsolated(need, timeout) ==
    IF need.child > 2 * timeout
    THEN 2 * timeout + Least(need.after, 2 * ReapTimeout)
    ELSE need.child + Least(need.after, 2 * RustfiltTimeout)

(* A binary is skipped once nothing remains.                               *)
Extract(spent, need) ==
    IF Remaining(spent) <= 0 THEN spent
    ELSE spent + ExtractIsolated(need, ChildTimeout(spent))

(* What one binary may hold its builder for after the phase is over.       *)
Overrun == 2 * Most(ReapTimeout, RustfiltTimeout)

(* What has been spent after each of the binaries, in the caller's order.  *)
Spent(needs) ==
    LET after[n \in 0..Len(needs)] ==
            IF n = 0 THEN 0 ELSE Extract(after[n - 1], needs[n])
    IN  after[Len(needs)]

Durations == SeqOf(Needs, Binaries)
=============================================================================

-------------------------- MODULE AttendanceLedger --------------------------
(***************************************************************************)
(* What the attendance endpoints promise, without transactions, locks,     *)
(* retries or crashes: a roll of who is checked in and out, a journal of   *)
(* what students did themselves, and verification tokens that are spent    *)
(* the instant they are used.  Attendance implements it.                   *)
(***************************************************************************)
EXTENDS FiniteSets

CONSTANTS Slots,    \* (session, student) pairs
          Places,   \* location tokens
          Proofs,   \* face and venue tokens
          Owner     \* the slot a token was minted for

VARIABLES roll,     \* "absent", "in" or "out", by slot
          spent,    \* tokens that have been used
          journal   \* committed student operations

ledger == <<roll, spent, journal>>

Entry(x, op, tokens) == [slot |-> x, op |-> op, tokens |-> tokens]

\* A student moves along the roll with two unspent tokens of their own.
Attend(x, op, from, to) ==
  \E l \in Places, p \in Proofs :
    /\ roll[x] = from
    /\ Owner[l] = x /\ Owner[p] = x
    /\ {l, p} \cap spent = {}
    /\ roll' = [roll EXCEPT ![x] = to]
    /\ spent' = spent \cup {l, p}
    /\ journal' = journal \cup {Entry(x, op, {l, p})}

CheckIn(x) == Attend(x, "check_in", "absent", "in")
CheckOut(x) == Attend(x, "check_out", "in", "out")

\* Staff may correct one entry of the roll; they neither spend tokens nor
\* write the journal.
Correct(x) ==
  /\ \E where \in {"absent", "in", "out"} : roll' = [roll EXCEPT ![x] = where]
  /\ UNCHANGED <<spent, journal>>

Init ==
  /\ roll = [x \in Slots |-> "absent"]
  /\ spent = {}
  /\ journal = {}

Next == \E x \in Slots : CheckIn(x) \/ CheckOut(x) \/ Correct(x)

Spec == Init /\ [][Next]_ledger

=============================================================================

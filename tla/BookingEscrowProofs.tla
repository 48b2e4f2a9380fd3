------------------------- MODULE BookingEscrowProofs ------------------------
(***************************************************************************)
(* Proofs about BookingEscrow, for any number of bookings, processes,      *)
(* administrators, disputes and faults, and any prices.                    *)
(*                                                                         *)
(* A step changes the rows of one booking at most.  The first part is      *)
(* about the rows: the kinds of steps that write them, and that each kind  *)
(* keeps the books, the refund operation and the disputes in order.  The   *)
(* second is about what the processes know of the rows they drive, the     *)
(* third about the approvals.                                              *)
(***************************************************************************)
EXTENDS BookingEscrow, TLAPS

USE EscrowAssumption DEF booking, money, refund, world, procs

-----------------------------------------------------------------------------
(* Lemmas about the operators of the model.                                *)

\* A part of an amount is no more than the amount.
LEMMA Parts == \A n \in Nat, percent \in {0, 50, 100} : (n * percent) \div 100 \in 0..n
<1> TAKE n \in Nat, percent \in {0, 50, 100}
<1>1. CASE percent = 0
  BY <1>1
<1>2. CASE percent = 50
  <2>1. (n * 50) \div 100 \in 0..n
    OBVIOUS
  <2> QED BY <1>2, <2>1
<1>3. CASE percent = 100
  <2>1. (n * 100) \div 100 \in 0..n
    OBVIOUS
  <2> QED BY <1>3, <2>1
<1> QED BY <1>1, <1>2, <1>3

LEMMA Percents == \A w : RefundPercent(w) \in {0, 50, 100}
  BY DEF RefundPercent

\* The client is returned a part of the price,
LEMMA AmountBounds ==
  ASSUME NEW b \in Bookings
  PROVE  /\ Gross(b) \in Nat \ {0} /\ Pay[b] \in Nat /\ Fee[b] \in Nat /\ Gross(b) = Pay[b] + Fee[b]
         /\ RefundAmount(b) \in 0..Gross(b)
<1>1. Pay[b] \in Nat \ {0} /\ Fee[b] \in Nat
  OBVIOUS
<1>2. Gross(b) \in Nat \ {0} /\ Gross(b) = Pay[b] + Fee[b]
  BY <1>1 DEF Gross
<1>3. PICK q : q = RefundPercent(intent[b].window)
  OBVIOUS
<1>4. (Pay[b] * q) \div 100 \in 0..Pay[b] /\ (Fee[b] * q) \div 100 \in 0..Fee[b]
  BY <1>1, <1>3, Percents, Parts
<1>5. PICK m, n : m = (Pay[b] * q) \div 100 /\ n = (Fee[b] * q) \div 100
  OBVIOUS
<1>6. m + n \in 0..Gross(b)
  BY <1>1, <1>2, <1>4, <1>5
<1>7. RefundAmount(b) = IF intent[b].window = "NONE" THEN Gross(b) ELSE m + n
  BY <1>3, <1>5 DEF RefundAmount
<1> QED BY <1>1, <1>2, <1>6, <1>7

\* which the reservation has fixed.
LEMMA AmountFrame ==
  ASSUME NEW b, intent'[b] = intent[b]
  PROVE  RefundAmount(b)' = RefundAmount(b)
  BY DEF RefundAmount

LEMMA DisputedFrom ==
  \A s : <<s, "DISPUTED">> \in BookingTransitions => s \in {"CONFIRMED", "CHECKED_IN", "COMPLETED"}
  BY DEF BookingTransitions

\* A refund finds a booking that was not attended, or disputed.
LEMMA RefundableFrom ==
  ASSUME NEW b \in Bookings, NEW x, Refundable(b, x)
  PROVE  status[b] \in {"CONFIRMED", "DISPUTED", "CANCELLED", "NO_SHOW"}
<1>1. CASE x = "CANCEL"
  BY <1>1 DEF Refundable, Target, BookingTransitions
<1>2. CASE x = "NO_SHOW"
  BY <1>2 DEF Refundable, Target, BookingTransitions
<1>3. CASE x \notin {"CANCEL", "NO_SHOW"}
  BY <1>3 DEF Refundable, Target, BookingTransitions
<1> QED BY <1>1, <1>2, <1>3

\* Nothing has left an escrow with its whole balance.
LEMMA WholeBalance ==
  ASSUME RowsType, NEW b \in Bookings
  PROVE  Balance(b) = Gross(b) <=> released[b] = 0 /\ kept[b] = 0 /\ refunded[b] = 0
<1>1. released[b] \in Nat /\ kept[b] \in Nat /\ refunded[b] \in Nat /\ Gross(b) \in Nat
  BY AmountBounds DEF RowsType
<1> QED BY <1>1 DEF Balance

-----------------------------------------------------------------------------
(* The rows of the bookings.                                               *)

RowsOK ==
    /\ RowsType /\ OrderAddsUp
    /\ \A b \in Bookings : RefundOK(b) /\ DisputesOK(b)

\* What never goes back, in whatever step.
Evolves ==
    \A b \in Bookings :
        /\ op[b] # "NONE" => op'[b] # "NONE" /\ intent'[b] = intent[b]
        /\ op[b] = "RECORDED" => op'[b] = "RECORDED"
        /\ tried[b] => tried'[b]
        /\ bank[b] \in {"processed", "failed"} => bank'[b] = bank[b]
        /\ Len(disputes[b]) \in Nat /\ Len(disputes'[b]) \in Nat
        /\ Len(disputes'[b]) >= Len(disputes[b])
        /\ \A d \in 1..Len(disputes[b]) :
             disputes[b][d] = "RESOLVED" => disputes'[b][d] = "RESOLVED"

\* A cancellation that two administrators agreed on.
Approving == \A b \in Bookings : CancellationApproved(b) => CancellationApproved(b)'

\* The rows of a booking a step leaves alone.
Same(b) ==
    /\ status'[b] = status[b] /\ escrow'[b] = escrow[b]
    /\ released'[b] = released[b] /\ kept'[b] = kept[b] /\ refunded'[b] = refunded[b]
SameRefund(b) ==
    /\ op'[b] = op[b] /\ intent'[b] = intent[b] /\ (tried'[b] <=> tried[b])
    /\ bank'[b] = bank[b] /\ posts'[b] = posts[b]

LEMMA RefundFrame ==
  ASSUME RowsType, RowsType', OrderAgrees', NEW b \in Bookings, RefundOK(b),
         Same(b), SameRefund(b), CancellationApproved(b) => CancellationApproved(b)'
  PROVE  RefundOK(b)'
<1>1. RefundAmount(b)' = RefundAmount(b) /\ (~ Awaiting(b) => ~ Awaiting(b)')
  BY AmountFrame DEF SameRefund, Awaiting
<1>2. ASSUME op[b] \in {"PENDING", "PROVIDER_OK"}
      PROVE  Refundable(b, intent[b].precursor)'
  <2>1. status'[b] # "REFUNDED"
    BY <1>2 DEF RefundOK, Same
  <2>2. order' \in {"PAID", "PARTIALLY_REFUNDED"}
    BY <2>1 DEF OrderAgrees, RowsType
  <2>3. Refundable(b, intent[b].precursor)
    BY <1>2 DEF RefundOK
  <2> QED BY <2>2, <2>3 DEF Refundable, Balance, Target, Same, SameRefund
<1> QED BY <1>1, <1>2 DEF RefundOK, Same, SameRefund

LEMMA UnresolvedFrame ==
  ASSUME NEW b, disputes'[b] = disputes[b]
  PROVE  Unresolved(b)' = Unresolved(b)
  BY DEF Unresolved

LEMMA DisputesFrame ==
  ASSUME NEW b \in Bookings, DisputesOK(b), disputes'[b] = disputes[b],
         status'[b] = status[b], escrow'[b] = escrow[b],
         op[b] = "RECORDED" => op'[b] = "RECORDED",
         status[b] = "PAID" => (Reserved(b)' => Reserved(b))
  PROVE  DisputesOK(b)'
  BY UnresolvedFrame DEF DisputesOK

\* A step that writes no row of a booking.
LEMMA RowsRest ==
  ASSUME RowsOK, UNCHANGED <<status, escrow, disputes, money, refund, world>>, Approving
  PROVE  RowsOK' /\ Evolves
<1>1. RowsType' /\ OrderAddsUp'
  BY DEF RowsOK, RowsType, OrderAddsUp, Divides, Balance, OrderAgrees
<1>2. \A b \in Bookings : RefundOK(b)'
  BY <1>1, RefundFrame DEF RowsOK, Same, SameRefund, OrderAddsUp, Approving
<1>3. \A b \in Bookings : DisputesOK(b)'
  BY DisputesFrame DEF RowsOK, Reserved
<1>4. Evolves
  BY DEF RowsOK, RowsType, Evolves
<1> QED BY <1>1, <1>2, <1>3, <1>4 DEF RowsOK

-----------------------------------------------------------------------------
(* A step writes the rows of one booking.                                  *)

Others(b0) ==
    \A b \in Bookings \ {b0} : Same(b) /\ SameRefund(b) /\ disputes'[b] = disputes[b]

\* Divides and Evolves, of one booking.
DivisionOK(b) ==
    /\ escrow[b] \in {"HELD", "FROZEN"} => released[b] + kept[b] + refunded[b] = 0
    /\ escrow[b] \in {"RELEASED", "REFUNDED"} => Balance(b) = 0

OperationEvolves(b) ==
    /\ op[b] # "NONE" => op'[b] # "NONE" /\ intent'[b] = intent[b]
    /\ op[b] = "RECORDED" => op'[b] = "RECORDED"
    /\ tried[b] => tried'[b]
    /\ bank[b] \in {"processed", "failed"} => bank'[b] = bank[b]

DisputesEvolve(b) ==
    /\ Len(disputes[b]) \in Nat /\ Len(disputes'[b]) \in Nat
    /\ Len(disputes'[b]) >= Len(disputes[b])
    /\ \A d \in 1..Len(disputes[b]) :
         disputes[b][d] = "RESOLVED" => disputes'[b][d] = "RESOLVED"

LEMMA DisputesStand ==
  ASSUME RowsType, NEW b \in Bookings, disputes'[b] = disputes[b]
  PROVE  DisputesEvolve(b)
<1>1. disputes[b] \in Seq({"OPEN", "UNDER_REVIEW", "RESOLVED"})
  BY DEF RowsType
<1>2. Len(disputes[b]) \in Nat
  BY <1>1
<1> QED BY <1>2 DEF DisputesEvolve

LEMMA RowsStep ==
  ASSUME RowsOK, RowsType', OrderAgrees', Approving, NEW b0 \in Bookings, Others(b0),
         DivisionOK(b0)', RefundOK(b0)', DisputesOK(b0)',
         OperationEvolves(b0), DisputesEvolve(b0)
  PROVE  RowsOK' /\ Evolves
<1>1. ASSUME NEW b \in Bookings, b # b0
      PROVE  Same(b) /\ SameRefund(b) /\ disputes'[b] = disputes[b]
  BY <1>1 DEF Others
<1>2. \A b \in Bookings : DivisionOK(b)'
  <2> SUFFICES ASSUME NEW b \in Bookings, b # b0
               PROVE  DivisionOK(b)'
    OBVIOUS
  <2>1. Same(b)
    BY <1>1
  <2> QED BY <2>1 DEF DivisionOK, Same, RowsOK, OrderAddsUp, Divides, Balance
<1>3. \A b \in Bookings : RefundOK(b)'
  <2> SUFFICES ASSUME NEW b \in Bookings, b # b0
               PROVE  RefundOK(b)'
    OBVIOUS
  <2> QED BY <1>1, RefundFrame DEF RowsOK, Approving
<1>4. \A b \in Bookings : DisputesOK(b)'
  <2> SUFFICES ASSUME NEW b \in Bookings, b # b0
               PROVE  DisputesOK(b)'
    OBVIOUS
  <2>1. Same(b) /\ SameRefund(b) /\ disputes'[b] = disputes[b]
    BY <1>1
  <2>2. Reserved(b)' <=> Reserved(b)
    BY <2>1 DEF SameRefund, Reserved
  <2> QED BY <2>1, <2>2, DisputesFrame DEF RowsOK, Same, SameRefund
<1>5. \A b \in Bookings : OperationEvolves(b) /\ DisputesEvolve(b)
  <2> SUFFICES ASSUME NEW b \in Bookings, b # b0
               PROVE  OperationEvolves(b) /\ DisputesEvolve(b)
    OBVIOUS
  <2>1. Same(b) /\ SameRefund(b) /\ disputes'[b] = disputes[b]
    BY <1>1
  <2> QED BY <2>1, DisputesStand DEF RowsOK, OperationEvolves, SameRefund
<1>6. RowsOK'
  BY <1>2, <1>3, <1>4 DEF RowsOK, OrderAddsUp, Divides, DivisionOK
<1>7. Evolves
  BY <1>5 DEF Evolves, OperationEvolves, DisputesEvolve
<1> QED BY <1>6, <1>7

\* A step of a booking that no refund has reserved.
LEMMA RowsMove ==
  ASSUME RowsOK, RowsType', Approving, NEW b0 \in Bookings, Others(b0), SameRefund(b0),
         ~ Reserved(b0), refunded' = refunded, order' = order, status'[b0] # "REFUNDED",
         DivisionOK(b0)', DisputesOK(b0)', DisputesEvolve(b0)
  PROVE  RowsOK' /\ Evolves
<1>1. op[b0] \in {"NONE", "FAILED"} /\ RefundOK(b0)
  BY DEF Reserved, RowsOK, RowsType
<1>2. status[b0] # "REFUNDED" /\ refunded[b0] = 0
  BY <1>1 DEF RefundOK
<1>3. \A b \in Bookings : status'[b] = "REFUNDED" <=> status[b] = "REFUNDED"
  BY <1>2 DEF Others, Same
<1>4. OrderAgrees'
  BY <1>3 DEF RowsOK, OrderAddsUp, OrderAgrees
<1>5. RefundAmount(b0)' = RefundAmount(b0) /\ (~ Awaiting(b0) => ~ Awaiting(b0)')
  BY AmountFrame DEF SameRefund, Awaiting, Approving
<1>6. RefundOK(b0)'
  BY <1>1, <1>2, <1>5 DEF RefundOK, SameRefund
<1>7. OperationEvolves(b0)
  BY DEF OperationEvolves, SameRefund
<1> QED BY <1>4, <1>6, <1>7, RowsStep

-----------------------------------------------------------------------------
(* Attendance, completion, disputes.                                       *)

\* A booking with its whole balance is released in full.
LEMMA WholeRelease ==
  ASSUME RowsType, RowsType', NEW b \in Bookings, Balance(b) = Gross(b), refunded' = refunded,
         \/ released'[b] = 0 /\ kept'[b] = 0 /\ escrow'[b] \in {"HELD", "FROZEN"}
         \/ released'[b] = Pay[b] /\ kept'[b] = Fee[b] /\ escrow'[b] = "RELEASED"
  PROVE  DivisionOK(b)'
<1>1. released[b] = 0 /\ kept[b] = 0 /\ refunded[b] = 0
  BY WholeBalance
<1>2. Pay[b] \in Nat /\ Fee[b] \in Nat /\ Gross(b) = Pay[b] + Fee[b]
  BY AmountBounds
<1> QED BY <1>1, <1>2 DEF DivisionOK, Balance, Gross

LEMMA CheckInRows ==
  ASSUME RowsOK, NEW b \in Bookings, CheckIn(b)
  PROVE  RowsOK' /\ Evolves
<1>1. /\ status[b] = "CONFIRMED" /\ ~ Reserved(b) /\ status' = [status EXCEPT ![b] = "CHECKED_IN"]
      /\ UNCHANGED <<escrow, disputes, money, refund, world, approvals>>
  BY DEF CheckIn
<1>2. status \in [Bookings -> BookingStatus]
  BY DEF RowsOK, RowsType
<1>3. status'[b] = "CHECKED_IN" /\ \A x \in Bookings \ {b} : status'[x] = status[x]
  BY <1>1, <1>2
<1>4. status' \in [Bookings -> BookingStatus]
  BY <1>1, <1>2 DEF BookingStatus
<1>5. RowsType'
  BY <1>1, <1>4 DEF RowsOK, RowsType
<1>6. Others(b) /\ SameRefund(b) /\ Approving
  BY <1>1, <1>3 DEF Others, Same, SameRefund, Approving, CancellationApproved
<1>7. DivisionOK(b)'
  BY <1>1 DEF RowsOK, OrderAddsUp, Divides, DivisionOK, Balance
<1>8. DisputesOK(b)'
  BY <1>1, <1>3 DEF RowsOK, DisputesOK, Unresolved, Reserved
<1>9. DisputesEvolve(b)
  BY <1>1, DisputesStand DEF RowsOK
<1> QED BY <1>1, <1>3, <1>5, <1>6, <1>7, <1>8, <1>9, RowsMove

\* Both ways a booking is completed.
LEMMA CompletionRows ==
  ASSUME RowsOK, NEW b \in Bookings, NEW early \in BOOLEAN,
         status[b] \in {"CONFIRMED", "CHECKED_IN", "COMPLETED"},
         CompleteAndRelease(b, early),
         UNCHANGED <<disputes, refunded, order, refund, world, approvals>>
  PROVE  RowsOK' /\ Evolves
<1>0. RowsType
  BY DEF RowsOK
<1>1. /\ escrow[b] = "HELD" /\ ~ Reserved(b) /\ Balance(b) = Gross(b)
      /\ \/ /\ status' = [status EXCEPT ![b] = "PAID"] /\ escrow' = [escrow EXCEPT ![b] = "RELEASED"]
            /\ released' = [released EXCEPT ![b] = Pay[b]] /\ kept' = [kept EXCEPT ![b] = Fee[b]]
            /\ Unresolved(b) = {}
         \/ /\ status' = [status EXCEPT ![b] = "COMPLETED"]
            /\ UNCHANGED <<escrow, released, kept>>
  BY DEF CompleteAndRelease, Releasable
<1>2. /\ status \in [Bookings -> BookingStatus] /\ escrow \in [Bookings -> EscrowStatus]
      /\ released \in [Bookings -> Nat] /\ kept \in [Bookings -> Nat]
  BY <1>0 DEF RowsType
<1>3. /\ \/ /\ status'[b] = "PAID" /\ escrow'[b] = "RELEASED"
            /\ released'[b] = Pay[b] /\ kept'[b] = Fee[b] /\ Unresolved(b) = {}
         \/ status'[b] = "COMPLETED" /\ UNCHANGED <<escrow, released, kept>>
      /\ \A x \in Bookings \ {b} : Same(x)
  BY <1>1, <1>2 DEF Same
<1>4. Pay[b] \in Nat /\ Fee[b] \in Nat
  BY AmountBounds
<1>5. /\ status' \in [Bookings -> BookingStatus] /\ escrow' \in [Bookings -> EscrowStatus]
      /\ released' \in [Bookings -> Nat] /\ kept' \in [Bookings -> Nat]
  BY <1>1, <1>2, <1>4 DEF BookingStatus, EscrowStatus
<1>6. RowsType'
  BY <1>0, <1>5 DEF RowsType
<1>7. Others(b) /\ SameRefund(b) /\ Approving
  BY <1>3 DEF Others, SameRefund, Approving, CancellationApproved
<1>8. released[b] = 0 /\ kept[b] = 0
  BY <1>0, <1>1, WholeBalance
<1>9. DivisionOK(b)'
  BY <1>0, <1>1, <1>3, <1>6, <1>8, WholeRelease
<1>10. Unresolved(b) = {}
  BY <1>1 DEF RowsOK, DisputesOK, Reserved
<1>11. DisputesOK(b)'
  BY <1>1, <1>3, <1>10, UnresolvedFrame DEF DisputesOK, Reserved
<1>12. DisputesEvolve(b)
  BY <1>0, DisputesStand
<1> QED BY <1>1, <1>3, <1>6, <1>7, <1>9, <1>11, <1>12, RowsMove

LEMMA CompleteRows ==
  ASSUME RowsOK, NEW b \in Bookings, Complete(b) \/ AutoComplete(b)
  PROVE  RowsOK' /\ Evolves
<1>1. PICK early \in BOOLEAN : CompleteAndRelease(b, early)
  BY DEF Complete, AutoComplete
<1>2. /\ status[b] \in {"CONFIRMED", "CHECKED_IN", "COMPLETED"}
      /\ UNCHANGED <<disputes, refunded, order, refund, world, approvals>>
  BY DEF Complete, AutoComplete
<1> QED BY <1>1, <1>2, CompletionRows

\* A new dispute comes last.
LEMMA OpenedDispute ==
  ASSUME NEW S, NEW s \in Seq(S), NEW x \in S
  PROVE  /\ Append(s, x) \in Seq(S) /\ Len(s) \in Nat /\ Len(Append(s, x)) = Len(s) + 1
         /\ Append(s, x)[Len(s) + 1] = x
         /\ \A i \in 1..Len(s) : Append(s, x)[i] = s[i]
  OBVIOUS

LEMMA OpenDisputeRows ==
  ASSUME RowsOK, NEW b \in Bookings, NEW party, OpenDispute(b, party)
  PROVE  RowsOK' /\ Evolves
<1>0. RowsType
  BY DEF RowsOK
<1>1. /\ escrow[b] = "HELD" /\ ~ Reserved(b) /\ <<status[b], "DISPUTED">> \in BookingTransitions
      /\ status' = [status EXCEPT ![b] = "DISPUTED"]
      /\ escrow' = [escrow EXCEPT ![b] = "FROZEN"]
      /\ disputes' = [disputes EXCEPT ![b] = Append(disputes[b], "OPEN")]
      /\ UNCHANGED <<money, refund, world, approvals>>
  BY DEF OpenDispute
<1>2. /\ status \in [Bookings -> BookingStatus] /\ escrow \in [Bookings -> EscrowStatus]
      /\ disputes \in [Bookings -> Seq({"OPEN", "UNDER_REVIEW", "RESOLVED"})]
  BY <1>0 DEF RowsType
<1>3. PICK old : old = disputes[b] /\ old \in Seq({"OPEN", "UNDER_REVIEW", "RESOLVED"})
  BY <1>2
<1>4. /\ Append(old, "OPEN") \in Seq({"OPEN", "UNDER_REVIEW", "RESOLVED"})
      /\ Len(old) \in Nat /\ Len(Append(old, "OPEN")) = Len(old) + 1
      /\ Append(old, "OPEN")[Len(old) + 1] = "OPEN"
      /\ \A i \in 1..Len(old) : Append(old, "OPEN")[i] = old[i]
  BY ONLY <1>3, OpenedDispute
<1>5. PICK new : new = Append(old, "OPEN")
  OBVIOUS
<1>6. /\ status'[b] = "DISPUTED" /\ escrow'[b] = "FROZEN" /\ disputes'[b] = new
      /\ \A x \in Bookings \ {b} :
           status'[x] = status[x] /\ escrow'[x] = escrow[x] /\ disputes'[x] = disputes[x]
  BY <1>1, <1>2, <1>3, <1>5
<1>7. /\ status' \in [Bookings -> BookingStatus] /\ escrow' \in [Bookings -> EscrowStatus]
  BY <1>1, <1>2 DEF BookingStatus, EscrowStatus
<1>8. disputes' = [disputes EXCEPT ![b] = new]
      /\ new \in Seq({"OPEN", "UNDER_REVIEW", "RESOLVED"})
  BY <1>1, <1>3, <1>4, <1>5
<1>9. disputes' \in [Bookings -> Seq({"OPEN", "UNDER_REVIEW", "RESOLVED"})]
  BY ONLY <1>2, <1>8
<1>10. RowsType'
  BY <1>0, <1>1, <1>7, <1>9 DEF RowsType
<1>11. Others(b) /\ SameRefund(b) /\ Approving
  BY <1>1, <1>6 DEF Others, Same, SameRefund, Approving, CancellationApproved
<1>12. DivisionOK(b)'
  BY <1>1, <1>6 DEF RowsOK, OrderAddsUp, Divides, DivisionOK, Balance
<1>13. Unresolved(b) = {}
  <2>1. status[b] # "DISPUTED"
    BY <1>1, DisputedFrom
  <2> QED BY <1>1, <2>1 DEF RowsOK, DisputesOK, Reserved
<1>14. \A d \in 1..Len(old) : new[d] = "RESOLVED"
  BY <1>3, <1>4, <1>5, <1>13 DEF Unresolved
<1>15. Unresolved(b)' = {Len(old) + 1}
  <2>1. Unresolved(b)' = {d \in 1..Len(new) : new[d] # "RESOLVED"}
    BY <1>6 DEF Unresolved
  <2>2. Len(new) = Len(old) + 1 /\ new[Len(old) + 1] = "OPEN" /\ Len(old) \in Nat
    BY <1>4, <1>5
  <2> QED BY <1>14, <2>1, <2>2
<1>16. DisputesOK(b)'
  BY <1>6, <1>15 DEF DisputesOK
<1>17. DisputesEvolve(b)
  BY <1>3, <1>4, <1>5, <1>6 DEF DisputesEvolve
<1> QED BY <1>1, <1>6, <1>10, <1>11, <1>12, <1>16, <1>17, RowsMove

\* What is written over a dispute.
LEMMA WrittenDispute ==
  ASSUME NEW S, NEW s \in Seq(S), NEW d \in 1..Len(s), NEW x \in S
  PROVE  /\ [s EXCEPT ![d] = x] \in Seq(S) /\ Len(s) \in Nat
         /\ Len([s EXCEPT ![d] = x]) = Len(s) /\ [s EXCEPT ![d] = x][d] = x
         /\ \A i \in 1..Len(s) \ {d} : [s EXCEPT ![d] = x][i] = s[i]
<1>1. Len(s) \in Nat /\ DOMAIN s = 1..Len(s) /\ \A i \in 1..Len(s) : s[i] \in S
  OBVIOUS
<1>2. PICK t : t = [s EXCEPT ![d] = x]
  OBVIOUS
<1>3. t = [i \in 1..Len(s) |-> IF i = d THEN x ELSE s[i]]
  BY <1>1, <1>2
<1>4. t \in Seq(S) /\ Len(t) = Len(s)
  BY ONLY <1>1, <1>3, x \in S, d \in 1..Len(s)
<1>5. t[d] = x /\ \A i \in 1..Len(s) \ {d} : t[i] = s[i]
  BY <1>1, <1>3
<1> QED BY <1>1, <1>2, <1>4, <1>5

LEMMA DisputeWritten ==
  ASSUME RowsType, NEW b \in Bookings, NEW d \in 1..Len(disputes[b]),
         NEW x \in {"OPEN", "UNDER_REVIEW", "RESOLVED"},
         disputes' = [disputes EXCEPT ![b][d] = x],
         disputes[b][d] = "RESOLVED" => x = "RESOLVED"
  PROVE  /\ disputes' \in [Bookings -> Seq({"OPEN", "UNDER_REVIEW", "RESOLVED"})]
         /\ \A c \in Bookings \ {b} : disputes'[c] = disputes[c]
         /\ Len(disputes'[b]) = Len(disputes[b]) /\ disputes'[b][d] = x
         /\ Unresolved(b)' = IF x = "RESOLVED" THEN Unresolved(b) \ {d} ELSE Unresolved(b)
         /\ DisputesEvolve(b)
<1>1. disputes \in [Bookings -> Seq({"OPEN", "UNDER_REVIEW", "RESOLVED"})]
  BY DEF RowsType
<1>2. PICK old : old = disputes[b] /\ old \in Seq({"OPEN", "UNDER_REVIEW", "RESOLVED"})
  BY <1>1
<1>3. PICK new : new = [old EXCEPT ![d] = x]
  OBVIOUS
<1>4. /\ new \in Seq({"OPEN", "UNDER_REVIEW", "RESOLVED"}) /\ Len(old) \in Nat
      /\ Len(new) = Len(old) /\ new[d] = x /\ \A i \in 1..Len(old) \ {d} : new[i] = old[i]
  BY <1>2, <1>3, WrittenDispute
<1>5. disputes' = [disputes EXCEPT ![b] = new]
  BY <1>2, <1>3
<1>6. /\ disputes' \in [Bookings -> Seq({"OPEN", "UNDER_REVIEW", "RESOLVED"})]
      /\ disputes'[b] = new /\ \A c \in Bookings \ {b} : disputes'[c] = disputes[c]
  BY ONLY <1>1, <1>4, <1>5, b \in Bookings
<1>7. Unresolved(b) = {e \in 1..Len(old) : old[e] # "RESOLVED"}
  BY <1>2 DEF Unresolved
<1>8. Unresolved(b)' = {e \in 1..Len(old) : new[e] # "RESOLVED"}
  BY <1>4, <1>6 DEF Unresolved
<1>9. Unresolved(b)' = IF x = "RESOLVED" THEN Unresolved(b) \ {d} ELSE Unresolved(b)
  <2>1. CASE x = "RESOLVED"
    BY <1>2, <1>4, <1>7, <1>8, <2>1
  <2>2. CASE x # "RESOLVED"
    <3>1. old[d] # "RESOLVED" /\ d \in 1..Len(old)
      BY <1>2, <2>2
    <3> QED BY <1>4, <1>7, <1>8, <2>2, <3>1
  <2> QED BY <2>1, <2>2
<1>10. DisputesEvolve(b)
  BY <1>2, <1>4, <1>6 DEF DisputesEvolve
<1> QED BY <1>2, <1>4, <1>6, <1>9, <1>10

LEMMA ReleaseDisputeRows ==
  ASSUME RowsOK, NEW b \in Bookings, NEW p, task[p].booking = b, ReleaseDispute(p)
  PROVE  RowsOK' /\ Evolves /\ disputes'[b][task[p].dispute] = "RESOLVED"
<1>0. RowsType
  BY DEF RowsOK
<1>1. PICK d : d = task[p].dispute
  OBVIOUS
<1>1a. PICK late \in BOOLEAN : late = (phase = Deadline)
  OBVIOUS
<1>2. /\ d \in Unresolved(b) /\ ~ Reserved(b) /\ Balance(b) = Gross(b)
      /\ disputes' = [disputes EXCEPT ![b][d] = "RESOLVED"]
      /\ status' = [status EXCEPT ![b] = IF late THEN "PAID" ELSE "COMPLETED"]
      /\ escrow' = [escrow EXCEPT ![b] = IF late THEN "RELEASED" ELSE "HELD"]
      /\ released' = [released EXCEPT ![b] = IF late THEN Pay[b] ELSE 0]
      /\ kept' = [kept EXCEPT ![b] = IF late THEN Fee[b] ELSE 0]
      /\ UNCHANGED <<refunded, order, refund, world, approvals>>
  BY <1>1, <1>1a DEF ReleaseDispute
<1>3. /\ status \in [Bookings -> BookingStatus] /\ escrow \in [Bookings -> EscrowStatus]
      /\ released \in [Bookings -> Nat] /\ kept \in [Bookings -> Nat]
  BY <1>0 DEF RowsType
<1>4. Pay[b] \in Nat /\ Fee[b] \in Nat
  BY AmountBounds
<1>5. /\ status'[b] = (IF late THEN "PAID" ELSE "COMPLETED")
      /\ escrow'[b] = (IF late THEN "RELEASED" ELSE "HELD")
      /\ released'[b] = (IF late THEN Pay[b] ELSE 0) /\ kept'[b] = (IF late THEN Fee[b] ELSE 0)
      /\ \A x \in Bookings \ {b} : Same(x)
  BY <1>2, <1>3 DEF Same
<1>6. /\ status' \in [Bookings -> BookingStatus] /\ escrow' \in [Bookings -> EscrowStatus]
      /\ released' \in [Bookings -> Nat] /\ kept' \in [Bookings -> Nat]
  <2>1. CASE late
    BY <1>2, <1>3, <1>4, <2>1 DEF BookingStatus, EscrowStatus
  <2>2. CASE ~ late
    BY <1>2, <1>3, <1>4, <2>2 DEF BookingStatus, EscrowStatus
  <2> QED BY <2>1, <2>2
<1>7. d \in 1..Len(disputes[b])
  BY <1>2 DEF Unresolved
<1>8. /\ disputes' \in [Bookings -> Seq({"OPEN", "UNDER_REVIEW", "RESOLVED"})]
      /\ \A c \in Bookings \ {b} : disputes'[c] = disputes[c]
      /\ disputes'[b][d] = "RESOLVED"
      /\ Unresolved(b)' = Unresolved(b) \ {d} /\ DisputesEvolve(b)
  <2>1. PICK x \in {"OPEN", "UNDER_REVIEW", "RESOLVED"} : x = "RESOLVED"
    OBVIOUS
  <2>2. disputes' = [disputes EXCEPT ![b][d] = x]
    BY <1>2, <2>1
  <2>3. /\ disputes' \in [Bookings -> Seq({"OPEN", "UNDER_REVIEW", "RESOLVED"})]
        /\ \A c \in Bookings \ {b} : disputes'[c] = disputes[c]
        /\ disputes'[b][d] = x
        /\ Unresolved(b)' = (IF x = "RESOLVED" THEN Unresolved(b) \ {d} ELSE Unresolved(b))
        /\ DisputesEvolve(b)
    BY ONLY <1>0, <1>7, <2>1, <2>2, b \in Bookings, DisputeWritten
  <2> QED BY <2>1, <2>3
<1>9. RowsType'
  BY <1>0, <1>2, <1>6, <1>8 DEF RowsType
<1>10. Others(b) /\ SameRefund(b) /\ Approving
  BY <1>2, <1>5, <1>8 DEF Others, SameRefund, Approving, CancellationApproved
<1>11. DivisionOK(b)'
  BY <1>0, <1>2, <1>5, <1>9, WholeRelease
<1>12. Unresolved(b)' = {}
  BY <1>2, <1>8 DEF RowsOK, DisputesOK
<1>13. DisputesOK(b)'
  BY <1>2, <1>12 DEF DisputesOK, Reserved
<1>14. status'[b] # "REFUNDED"
  BY <1>5
<1> QED BY <1>1, <1>2, <1>8, <1>9, <1>10, <1>11, <1>13, <1>14, RowsMove

\* A step that writes over a dispute and nothing else of the rows.
LEMMA DisputeRows ==
  ASSUME RowsOK, Approving, NEW b \in Bookings,
         disputes' \in [Bookings -> Seq({"OPEN", "UNDER_REVIEW", "RESOLVED"})],
         \A c \in Bookings \ {b} : disputes'[c] = disputes[c],
         Unresolved(b)' \subseteq Unresolved(b), DisputesEvolve(b),
         UNCHANGED <<status, escrow, money, refund, world>>
  PROVE  RowsOK' /\ Evolves
<1>0. RowsType
  BY DEF RowsOK
<1>1. RowsType'
  BY <1>0 DEF RowsType
<1>2. Others(b) /\ Same(b) /\ SameRefund(b)
  BY DEF Others, Same, SameRefund
<1>3. OrderAgrees' /\ DivisionOK(b)'
  BY DEF RowsOK, OrderAddsUp, OrderAgrees, Divides, DivisionOK, Balance
<1>4. RefundOK(b)'
  BY <1>0, <1>1, <1>2, <1>3, RefundFrame DEF RowsOK, Approving
<1>5. DisputesOK(b)'
  BY DEF RowsOK, DisputesOK, Reserved
<1>6. OperationEvolves(b)
  BY DEF OperationEvolves
<1> QED BY <1>1, <1>2, <1>3, <1>4, <1>5, <1>6, RowsStep

-----------------------------------------------------------------------------
(* The refund operation.                                                   *)

\* What a step that moves no money leaves as it was.
LEMMA Unmoved ==
  ASSUME NEW b \in Bookings, UNCHANGED <<status, escrow, money, approvals>>, intent'[b] = intent[b]
  PROVE  /\ RefundAmount(b)' = RefundAmount(b) /\ (Awaiting(b)' <=> Awaiting(b))
         /\ Refundable(b, intent[b].precursor)' <=> Refundable(b, intent[b].precursor)
<1>1. RefundAmount(b)' = RefundAmount(b) /\ (Awaiting(b)' <=> Awaiting(b))
  BY AmountFrame DEF Awaiting, CancellationApproved
<1>2. Refundable(b, intent[b].precursor)' <=> Refundable(b, intent[b].precursor)
  BY DEF Refundable, Balance, Target
<1> QED BY <1>1, <1>2

\* The first transaction reserves the booking and fixes the intent.
LEMMA ReservationRows ==
  ASSUME RowsOK, NEW b \in Bookings, op[b] = "NONE",
         NEW i \in Intents,
         Refundable(b, i.precursor),
         i.window # "NONE" => i.precursor = "CANCEL" /\ escrow[b] = "HELD",
         op' = [op EXCEPT ![b] = "PENDING"], intent' = [intent EXCEPT ![b] = i],
         UNCHANGED <<status, escrow, disputes, money, tried, world, approvals>>
  PROVE  RowsOK' /\ Evolves
<1>0. RowsType /\ RefundOK(b) /\ DisputesOK(b)
  BY DEF RowsOK
<1>1. /\ op \in [Bookings -> OpStatus]
      /\ intent \in [Bookings -> Intents]
  BY <1>0 DEF RowsType
<1>2. /\ op'[b] = "PENDING" /\ intent'[b] = i
      /\ \A c \in Bookings \ {b} : op'[c] = op[c] /\ intent'[c] = intent[c]
  BY <1>1
<1>3. /\ op' \in [Bookings -> OpStatus]
      /\ intent' \in [Bookings -> Intents]
  BY <1>1 DEF OpStatus
<1>4. RowsType'
  BY <1>0, <1>3 DEF RowsType
<1>5. Others(b) /\ Approving
  BY <1>2 DEF Others, Same, SameRefund, Approving, CancellationApproved
<1>6. OrderAgrees' /\ DivisionOK(b)'
  BY DEF RowsOK, OrderAddsUp, OrderAgrees, Divides, DivisionOK, Balance
<1>7. Refundable(b, intent[b].precursor)'
  BY <1>2 DEF Refundable, Balance, Target
<1>8. bank[b] = "none" /\ status[b] # "REFUNDED" /\ refunded[b] = 0
  BY <1>0 DEF RefundOK, RowsType, BankStatus
<1>9. RefundOK(b)'
  BY <1>0, <1>2, <1>7, <1>8 DEF RefundOK
<1>10. status[b] # "PAID"
  BY RefundableFrom
<1>11. DisputesOK(b)'
  BY <1>0, <1>10, DisputesFrame
<1>12. OperationEvolves(b)
  BY DEF OperationEvolves
<1>13. DisputesEvolve(b)
  BY <1>0, DisputesStand
<1> QED BY <1>4, <1>5, <1>6, <1>9, <1>11, <1>12, <1>13, RowsStep

\* A step of the operation or of the provider, before the ledger records the refund.
LEMMA OperationRows ==
  ASSUME RowsOK, RowsType', NEW b \in Bookings, op[b] # "NONE",
         \A c \in Bookings \ {b} : SameRefund(c),
         UNCHANGED <<status, escrow, disputes, money, intent, approvals>>,
         OperationEvolves(b), Reserved(b)' => Reserved(b),
         op'[b] = "RECORDED" <=> op[b] = "RECORDED", RefundOK(b)'
  PROVE  RowsOK' /\ Evolves
<1>1. Others(b) /\ Approving
  BY DEF Others, Same, Approving, CancellationApproved
<1>2. OrderAgrees' /\ DivisionOK(b)'
  BY DEF RowsOK, OrderAddsUp, OrderAgrees, Divides, DivisionOK, Balance
<1>3. DisputesOK(b)'
  BY DisputesFrame DEF RowsOK
<1>4. DisputesEvolve(b)
  BY DisputesStand DEF RowsOK
<1> QED BY <1>1, <1>2, <1>3, <1>4, RowsStep

LEMMA RunOperationRows ==
  ASSUME RowsOK, NEW p, NEW b \in Bookings, task[p].booking = b, RunOperation(p)
  PROVE  RowsOK' /\ Evolves
<1>0. RowsType /\ RefundOK(b)
  BY DEF RowsOK
<1>1. /\ op[b] \in {"PENDING", "PROVIDER_OK"}
      /\ tried' = [tried EXCEPT ![b] = TRUE] \/ tried' = tried
      /\ UNCHANGED <<status, escrow, disputes, money, op, intent, world, approvals>>
  BY DEF RunOperation
<1>2. tried \in [Bookings -> BOOLEAN]
  BY <1>0 DEF RowsType
<1>3. /\ tried' \in [Bookings -> BOOLEAN] /\ (tried[b] => tried'[b])
      /\ \A c \in Bookings \ {b} : tried'[c] = tried[c]
  BY <1>1, <1>2
<1>4. RowsType'
  BY <1>0, <1>1, <1>3 DEF RowsType
<1>5. \A c \in Bookings \ {b} : SameRefund(c)
  BY <1>1, <1>3 DEF SameRefund
<1>6. RefundOK(b)'
  BY <1>0, <1>1, <1>3, Unmoved DEF RefundOK
<1>7. OperationEvolves(b) /\ (Reserved(b)' => Reserved(b))
  BY <1>1, <1>3 DEF OperationEvolves, Reserved
<1> QED BY <1>1, <1>4, <1>5, <1>6, <1>7, OperationRows

\* Conclusive evidence of the provider is kept.
LEMMA CheckpointRows ==
  ASSUME RowsOK, NEW p, NEW b \in Bookings, task[p].booking = b, pc[p] = "checkpoint",
         DriverOK(p), Checkpoint(p)
  PROVE  RowsOK' /\ Evolves
<1>0. RowsType /\ RefundOK(b)
  BY DEF RowsOK
<1>1. /\ op[b] # "NONE" /\ ~ Awaiting(b)
      /\ ev[p] = "failed" => bank[b] = "failed"
      /\ ev[p] = "success" => bank[b] = "processed" \/ RefundAmount(b) = 0
  BY DEF DriverOK
<1>2. /\ \/ op' = op
         \/ op[b] = "PENDING" /\ ev[p] = "success" /\ op' = [op EXCEPT ![b] = "PROVIDER_OK"]
         \/ op[b] = "PENDING" /\ ev[p] = "failed" /\ op' = [op EXCEPT ![b] = "FAILED"]
      /\ UNCHANGED <<status, escrow, disputes, money, tried, intent, world, approvals>>
  <2>1. CASE op[b] = "PENDING" /\ ev[p] = "success"
    BY <2>1 DEF Checkpoint
  <2>2. CASE op[b] = "PENDING" /\ ev[p] = "failed"
    BY <2>2 DEF Checkpoint
  <2>3. CASE op[b] # "PENDING" \/ ev[p] \notin {"success", "failed"}
    BY <2>3 DEF Checkpoint
  <2> QED BY <2>1, <2>2, <2>3
<1>3. op \in [Bookings -> OpStatus]
  BY <1>0 DEF RowsType
<1>4. /\ \/ op'[b] = op[b]
         \/ op[b] = "PENDING" /\ ev[p] = "success" /\ op'[b] = "PROVIDER_OK"
         \/ op[b] = "PENDING" /\ ev[p] = "failed" /\ op'[b] = "FAILED"
      /\ op' \in [Bookings -> OpStatus]
      /\ \A c \in Bookings \ {b} : op'[c] = op[c]
  BY <1>2, <1>3 DEF OpStatus
<1>5. RowsType'
  BY <1>0, <1>2, <1>4 DEF RowsType
<1>6. \A c \in Bookings \ {b} : SameRefund(c)
  BY <1>2, <1>4 DEF SameRefund
<1>7. RefundOK(b)'
  BY <1>0, <1>1, <1>2, <1>4, Unmoved DEF RefundOK
<1>8. /\ OperationEvolves(b) /\ (Reserved(b)' => Reserved(b))
      /\ (op'[b] = "RECORDED" <=> op[b] = "RECORDED")
  BY <1>1, <1>2, <1>4 DEF OperationEvolves, Reserved
<1> QED BY <1>1, <1>2, <1>5, <1>6, <1>7, <1>8, OperationRows

-----------------------------------------------------------------------------
(* The provider.                                                           *)

\* What the provider does with the refund of a booking.
LEMMA BankRows ==
  ASSUME RowsOK, NEW b \in Bookings, NEW s \in BankStatus \ {"none"},
         bank' = [bank EXCEPT ![b] = s], posts' = [posts EXCEPT ![b] = 1],
         bank[b] \notin {"processed", "failed"},
         tried[b], op[b] # "NONE", RefundAmount(b) # 0, ~ Awaiting(b),
         UNCHANGED <<status, escrow, disputes, money, refund, approvals>>
  PROVE  RowsOK' /\ Evolves
<1>0. RowsType /\ RefundOK(b)
  BY DEF RowsOK
<1>1. bank \in [Bookings -> BankStatus] /\ posts \in [Bookings -> Nat]
  BY <1>0 DEF RowsType
<1>2. /\ bank' \in [Bookings -> BankStatus] /\ posts' \in [Bookings -> Nat]
      /\ bank'[b] = s /\ posts'[b] = 1
      /\ \A c \in Bookings \ {b} : bank'[c] = bank[c] /\ posts'[c] = posts[c]
  BY <1>1
<1>3. RowsType'
  BY <1>0, <1>2 DEF RowsType
<1>4. \A c \in Bookings \ {b} : SameRefund(c)
  BY <1>2 DEF SameRefund
<1>5. op[b] \notin {"FAILED", "PROVIDER_OK", "RECORDED"}
  BY <1>0 DEF RefundOK
<1>6. RefundOK(b)'
  BY <1>0, <1>2, <1>5, Unmoved DEF RefundOK
<1>7. OperationEvolves(b) /\ (Reserved(b)' => Reserved(b))
  BY DEF OperationEvolves, Reserved
<1> QED BY <1>3, <1>4, <1>6, <1>7, OperationRows

LEMMA ProviderRows ==
  ASSUME RowsOK, NEW b \in Bookings, Arrive(b) \/ BankSettles(b)
  PROVE  RowsOK' /\ Evolves
<1>0. RowsType /\ RefundOK(b)
  BY DEF RowsOK
<1>1. PICK s \in BankStatus \ {"none"} : bank' = [bank EXCEPT ![b] = s]
  BY DEF Arrive, BankSettles, BankStatus
<1>2. /\ bank[b] \in {"lost", "pending"}
      /\ UNCHANGED <<status, escrow, disputes, money, refund, approvals, posts>>
  BY DEF Arrive, BankSettles
<1>3. tried[b] /\ op[b] # "NONE" /\ RefundAmount(b) # 0 /\ ~ Awaiting(b) /\ posts[b] = 1
  BY <1>0, <1>2 DEF RefundOK
<1>4. posts' = [posts EXCEPT ![b] = 1]
  BY <1>0, <1>2, <1>3 DEF RowsType
<1> QED BY <1>1, <1>2, <1>3, <1>4, BankRows

\* The request reaches the provider: its sender is the only one.
LEMMA PostRows ==
  ASSUME RowsOK, NEW p, NEW b \in Bookings, task[p].booking = b, pc[p] = "post", DriverOK(p),
         Post(p) \/ PostLost(p)
  PROVE  RowsOK' /\ Evolves
<1>0. RowsType /\ RefundOK(b)
  BY DEF RowsOK
<1>1. tried[b] /\ bank[b] = "none" /\ RefundAmount(b) # 0 /\ ~ Awaiting(b) /\ op[b] # "NONE"
  BY DEF DriverOK, Sender
<1>2. posts[b] = 0 /\ op[b] = "PENDING"
  BY <1>0, <1>1 DEF RefundOK, RowsType, OpStatus
<1>3. UNCHANGED <<status, escrow, disputes, money, refund, approvals>>
  BY DEF Post, PostLost
<1>4. CASE UNCHANGED world
  <2>1. Approving
    BY <1>3 DEF Approving, CancellationApproved
  <2> QED BY <1>3, <1>4, <2>1, RowsRest
<1>5. CASE ~ UNCHANGED world
  <2>1. PICK s \in BankStatus \ {"none"} : bank' = [bank EXCEPT ![b] = s]
    BY <1>5 DEF Post, PostLost, BankStatus
  <2>2. posts' = [posts EXCEPT ![b] = 1]
    BY <1>2, <1>5 DEF Post, PostLost
  <2> QED BY <1>1, <1>2, <1>3, <2>1, <2>2, BankRows
<1> QED BY <1>4, <1>5

-----------------------------------------------------------------------------
(* The ledger records the refund.                                          *)

LEMMA SettledRows ==
  ASSUME RowsOK, RowsType', OrderAgrees', NEW b \in Bookings, op[b] = "PROVIDER_OK",
         Others(b), op'[b] = "RECORDED", UNCHANGED <<tried, intent, world, approvals>>,
         status'[b] \in {"CANCELLED", "REFUNDED"}, escrow'[b] \in {"RELEASED", "REFUNDED"},
         refunded'[b] = RefundAmount(b), Balance(b)' = 0,
         Unresolved(b)' \subseteq Unresolved(b), DisputesEvolve(b)
  PROVE  RowsOK' /\ Evolves
<1>0. RowsType /\ RefundOK(b) /\ DisputesOK(b)
  BY DEF RowsOK
<1>1. Approving
  BY DEF Approving, CancellationApproved
<1>2. RefundAmount(b)' = RefundAmount(b) /\ (Awaiting(b)' <=> Awaiting(b))
  BY AmountFrame DEF Awaiting, CancellationApproved
<1>3. RefundOK(b)'
  BY <1>0, <1>2 DEF RefundOK
<1>4. DisputesOK(b)'
  BY <1>0 DEF DisputesOK
<1>5. DivisionOK(b)'
  BY DEF DivisionOK
<1>6. OperationEvolves(b)
  BY DEF OperationEvolves
<1> QED BY <1>1, <1>3, <1>4, <1>5, <1>6, RowsStep

\* A refund that names no dispute of the booking leaves them alone.
LEMMA DecidedDispute ==
  ASSUME RowsType, NEW b \in Bookings, NEW d \in Nat,
         disputes' = disputes \/ disputes' = [disputes EXCEPT ![b][d] = "RESOLVED"]
  PROVE  /\ disputes' \in [Bookings -> Seq({"OPEN", "UNDER_REVIEW", "RESOLVED"})]
         /\ \A c \in Bookings \ {b} : disputes'[c] = disputes[c]
         /\ Unresolved(b)' \subseteq Unresolved(b) /\ DisputesEvolve(b)
<1>1. disputes \in [Bookings -> Seq({"OPEN", "UNDER_REVIEW", "RESOLVED"})]
  BY DEF RowsType
<1>2. CASE d \in 1..Len(disputes[b]) /\ disputes' # disputes
  <2>1. PICK x \in {"OPEN", "UNDER_REVIEW", "RESOLVED"} : x = "RESOLVED"
    OBVIOUS
  <2>2. disputes' = [disputes EXCEPT ![b][d] = x]
    BY <1>2, <2>1
  <2>3. /\ \A c \in Bookings \ {b} : disputes'[c] = disputes[c]
        /\ disputes' \in [Bookings -> Seq({"OPEN", "UNDER_REVIEW", "RESOLVED"})]
        /\ Unresolved(b)' = IF x = "RESOLVED" THEN Unresolved(b) \ {d} ELSE Unresolved(b)
        /\ DisputesEvolve(b)
    BY ONLY RowsType, b \in Bookings, <1>2, <2>1, <2>2, DisputeWritten
  <2> QED BY <2>1, <2>3
<1>3. CASE d \notin 1..Len(disputes[b]) \/ disputes' = disputes
  <2>1. PICK old : old = disputes[b] /\ old \in Seq({"OPEN", "UNDER_REVIEW", "RESOLVED"})
    BY <1>1
  <2>2. ASSUME d \notin 1..Len(disputes[b])
        PROVE  [old EXCEPT ![d] = "RESOLVED"] = old
    <3>1. DOMAIN old = 1..Len(old) /\ old = [i \in DOMAIN old |-> old[i]]
      BY <2>1
    <3>2. d \notin DOMAIN old
      BY <2>1, <2>2, <3>1
    <3>3. [old EXCEPT ![d] = "RESOLVED"] = [i \in DOMAIN old |-> old[i]]
      BY ONLY <3>2
    <3> QED BY <3>1, <3>3
  <2>3. [disputes EXCEPT ![b] = old] = disputes
    BY ONLY <1>1, <2>1
  <2>4. disputes' = disputes
    BY <1>3, <2>1, <2>2, <2>3
  <2>5. Unresolved(b)' = Unresolved(b) /\ DisputesEvolve(b)
    BY <2>4, UnresolvedFrame, DisputesStand
  <2> QED BY <1>1, <2>4, <2>5
<1> QED BY <1>2, <1>3

\* refundBooking returns the whole price.
LEMMA FullAmount ==
  ASSUME NEW b \in Bookings, intent[b].window \in {"NONE", "GT_48H"}
  PROVE  RefundAmount(b) = Gross(b)
<1>1. Pay[b] \in Nat /\ Fee[b] \in Nat
  OBVIOUS
<1>2. \A n \in Nat : (n * 100) \div 100 = n
  OBVIOUS
<1>3. CASE intent[b].window = "NONE"
  BY <1>3 DEF RefundAmount
<1>4. CASE intent[b].window = "GT_48H"
  <2>1. RefundPercent(intent[b].window) = 100
    BY <1>4 DEF RefundPercent
  <2>2. RefundAmount(b) = (Pay[b] * 100) \div 100 + (Fee[b] * 100) \div 100
    BY <1>4, <2>1 DEF RefundAmount
  <2> QED BY <1>1, <1>2, <2>2 DEF Gross
<1> QED BY <1>3, <1>4

LEMMA SettleRefundRows ==
  ASSUME RowsOK, NEW b \in Bookings, op[b] = "PROVIDER_OK",
         intent[b].window \in {"NONE", "GT_48H"}, SettleRefund(b),
         op' = [op EXCEPT ![b] = "RECORDED"], UNCHANGED <<tried, intent, world, approvals>>
  PROVE  RowsOK' /\ Evolves
<1>0. RowsType /\ RefundOK(b)
  BY DEF RowsOK
<1>1. /\ Balance(b) = Gross(b)
      /\ status' = [status EXCEPT ![b] = "REFUNDED"]
      /\ escrow' = [escrow EXCEPT ![b] = "REFUNDED"]
      /\ refunded' = [refunded EXCEPT ![b] = Gross(b)]
      /\ order' = OrderAfter(b)
      /\ UNCHANGED <<released, kept>>
  BY DEF SettleRefund, Refundable
<1>2. PICK d : d = intent[b].dispute
  OBVIOUS
<1>3. /\ d \in Nat
      /\ disputes' = disputes \/ disputes' = [disputes EXCEPT ![b][d] = "RESOLVED"]
  <2>1. intent[b] \in Intents
    BY <1>0 DEF RowsType
  <2>2. d \in 0..MaxDisputes
    BY <1>2, <2>1 DEF Intents
  <2> QED BY <1>2, <2>2 DEF SettleRefund
<1>4. /\ disputes' \in [Bookings -> Seq({"OPEN", "UNDER_REVIEW", "RESOLVED"})]
      /\ \A c \in Bookings \ {b} : disputes'[c] = disputes[c]
      /\ Unresolved(b)' \subseteq Unresolved(b) /\ DisputesEvolve(b)
  BY <1>0, <1>3, DecidedDispute
<1>5. /\ status \in [Bookings -> BookingStatus] /\ escrow \in [Bookings -> EscrowStatus]
      /\ refunded \in [Bookings -> Nat] /\ op \in [Bookings -> OpStatus]
  BY <1>0 DEF RowsType
<1>6. Gross(b) \in Nat \ {0}
  BY AmountBounds
<1>7. /\ status'[b] = "REFUNDED" /\ escrow'[b] = "REFUNDED" /\ refunded'[b] = Gross(b)
      /\ op'[b] = "RECORDED"
      /\ \A c \in Bookings \ {b} : /\ status'[c] = status[c] /\ escrow'[c] = escrow[c]
                                   /\ refunded'[c] = refunded[c] /\ op'[c] = op[c]
  BY <1>1, <1>5
<1>8. /\ status' \in [Bookings -> BookingStatus] /\ escrow' \in [Bookings -> EscrowStatus]
      /\ refunded' \in [Bookings -> Nat] /\ op' \in [Bookings -> OpStatus]
  BY <1>1, <1>5, <1>6 DEF BookingStatus, EscrowStatus, OpStatus
<1>9. RowsType'
  BY <1>0, <1>1, <1>4, <1>8 DEF RowsType, OrderAfter
<1>10. Others(b)
  BY <1>1, <1>4, <1>7 DEF Others, Same, SameRefund
<1>11. OrderAgrees'
  <2>1. order' # "PAID" /\ ~ \A c \in Bookings : refunded'[c] = 0
    BY <1>1, <1>6, <1>7 DEF OrderAfter
  <2>2. order' = "REFUNDED" <=> \A c \in Bookings : status'[c] = "REFUNDED"
    BY <1>1, <1>7 DEF OrderAfter
  <2> QED BY <2>1, <2>2 DEF OrderAgrees
<1>12. Balance(b)' = 0
  <2>1. released[b] = 0 /\ kept[b] = 0
    BY <1>0, <1>1, WholeBalance
  <2> QED BY <1>1, <1>6, <1>7, <2>1 DEF Balance, Gross
<1>13. refunded'[b] = RefundAmount(b)
  BY <1>7, FullAmount
<1> QED BY <1>4, <1>7, <1>9, <1>10, <1>11, <1>12, <1>13, SettledRows

\* settleClientCancellation divides it.
LEMMA SettleDividedRows ==
  ASSUME RowsOK, NEW b \in Bookings, op[b] = "PROVIDER_OK", Divided(b), SettleDivided(b),
         op' = [op EXCEPT ![b] = "RECORDED"], UNCHANGED <<tried, intent, world, approvals>>
  PROVE  RowsOK' /\ Evolves
<1>0. RowsType /\ RefundOK(b)
  BY DEF RowsOK
<1>1. PICK q : q = RefundPercent(intent[b].window)
  OBVIOUS
<1>2. PICK x, y : x = (Pay[b] * q) \div 100 /\ y = (Fee[b] * q) \div 100
  OBVIOUS
<1>3. Pay[b] \in Nat /\ Fee[b] \in Nat /\ Gross(b) = Pay[b] + Fee[b]
  BY AmountBounds
<1>4. x \in 0..Pay[b] /\ y \in 0..Fee[b]
  BY <1>1, <1>2, <1>3, Percents, Parts
<1>5. RefundAmount(b) = x + y
  BY <1>1, <1>2 DEF RefundAmount, Divided
<1>6. /\ order \in {"PAID", "PARTIALLY_REFUNDED"}
      /\ status' = [status EXCEPT ![b] = "CANCELLED"]
      /\ escrow' = [escrow EXCEPT ![b] = "RELEASED"]
      /\ refunded' = [refunded EXCEPT ![b] = x + y]
      /\ released' = [released EXCEPT ![b] = Pay[b] - x]
      /\ kept' = [kept EXCEPT ![b] = Fee[b] - y]
      /\ order' = (IF x + y > 0 THEN "PARTIALLY_REFUNDED" ELSE order)
      /\ disputes' = disputes
  BY <1>1, <1>2, <1>5 DEF SettleDivided, Refundable
<1>7. /\ status \in [Bookings -> BookingStatus] /\ escrow \in [Bookings -> EscrowStatus]
      /\ refunded \in [Bookings -> Nat] /\ op \in [Bookings -> OpStatus]
      /\ released \in [Bookings -> Nat] /\ kept \in [Bookings -> Nat]
  BY <1>0 DEF RowsType
<1>8. /\ status'[b] = "CANCELLED" /\ escrow'[b] = "RELEASED" /\ refunded'[b] = x + y
      /\ released'[b] = Pay[b] - x /\ kept'[b] = Fee[b] - y /\ op'[b] = "RECORDED"
      /\ \A c \in Bookings \ {b} : Same(c) /\ op'[c] = op[c]
  BY <1>6, <1>7 DEF Same
<1>9. x + y \in Nat /\ Pay[b] - x \in Nat /\ Fee[b] - y \in Nat
  BY <1>3, <1>4
<1>10. /\ status' \in [Bookings -> BookingStatus] /\ escrow' \in [Bookings -> EscrowStatus]
       /\ refunded' \in [Bookings -> Nat] /\ op' \in [Bookings -> OpStatus]
       /\ released' \in [Bookings -> Nat] /\ kept' \in [Bookings -> Nat]
  BY <1>6, <1>7, <1>9 DEF BookingStatus, EscrowStatus, OpStatus
<1>11. RowsType'
  BY <1>0, <1>6, <1>10 DEF RowsType
<1>12. Others(b)
  BY <1>6, <1>8 DEF Others, SameRefund
<1>13. OrderAgrees'
  <2>1. refunded[b] = 0 /\ OrderAgrees
    BY <1>0 DEF RefundOK, RowsOK, OrderAddsUp
  <2>2. \A c \in Bookings \ {b} : refunded'[c] = refunded[c]
    BY <1>8 DEF Same
  <2>3. order' = "PAID" <=> \A c \in Bookings : refunded'[c] = 0
    BY <1>6, <1>8, <1>9, <2>1, <2>2 DEF OrderAgrees
  <2>4. order' # "REFUNDED" /\ status'[b] # "REFUNDED"
    BY <1>6, <1>8
  <2> QED BY <2>3, <2>4 DEF OrderAgrees
<1>14. Balance(b)' = 0
  BY <1>3, <1>4, <1>8 DEF Balance, Gross
<1>15. Unresolved(b)' = Unresolved(b) /\ DisputesEvolve(b)
  BY <1>0, <1>6, UnresolvedFrame, DisputesStand
<1> QED BY <1>5, <1>8, <1>11, <1>12, <1>13, <1>14, <1>15, SettledRows

LEMMA FinalizeRows ==
  ASSUME RowsOK, NEW p, NEW b \in Bookings, task[p].booking = b, Finalize(p)
  PROVE  RowsOK' /\ Evolves /\ op'[b] = "RECORDED"
<1>1. /\ op[b] = "PROVIDER_OK" /\ op' = [op EXCEPT ![b] = "RECORDED"]
      /\ UNCHANGED <<tried, intent, world, approvals>>
  BY DEF Finalize
<1>2. intent[b].window \in Windows \cup {"NONE"} /\ op \in [Bookings -> OpStatus]
  BY DEF RowsOK, RowsType, Intents
<1>3. op'[b] = "RECORDED"
  BY <1>1, <1>2
<1>4. CASE Divided(b)
  <2>1. SettleDivided(b)
    BY <1>4 DEF Finalize, Divided
  <2> QED BY <1>1, <1>3, <1>4, <2>1, SettleDividedRows
<1>5. CASE ~ Divided(b)
  <2>1. intent[b].window \in {"NONE", "GT_48H"}
    BY <1>2, <1>5 DEF Divided, Windows
  <2>2. SettleRefund(b)
    <3>1. CASE intent[b].window = "GT_48H"
      BY <1>5, <3>1 DEF Finalize, SettleCancelled
    <3>2. CASE intent[b].window # "GT_48H"
      BY <1>5, <3>2 DEF Finalize
    <3> QED BY <3>1, <3>2
  <2> QED BY <1>1, <1>3, <2>1, <2>2, SettleRefundRows
<1> QED BY <1>4, <1>5

-----------------------------------------------------------------------------
(* The processes.                                                          *)

ProcsType ==
    pc \in [Procs -> Labels] /\ task \in [Procs -> TaskSet \cup {None}] /\ ev \in [Procs -> Evidence]

ProcsOK ==
    /\ ProcsType /\ OneSender
    /\ \A p \in Procs : DriverOK(p) /\ CarrierOK(p)

ApprovalsOK ==
    /\ approvals \subseteq [id : ApprovalIds, status : {"PENDING", "APPROVED", "EXECUTED"}]
    /\ \A a \in approvals : ApprovalOK(a)
    /\ \A b \in Bookings : DecidedByTwo(b)

\* A decision of two administrators stands, in whatever step.
Agreeing == \A id : AgreedOn(id) => AgreedOn(id)'

Stays(q) == pc'[q] = pc[q] /\ task'[q] = task[q] /\ ev'[q] = ev[q]

MovedTo(p, label, t, e) ==
    /\ pc'[p] = label /\ task'[p] = t /\ ev'[p] = e
    /\ \A q \in Procs \ {p} : Stays(q)
    /\ ProcsType'

LEMMA StartMoves ==
  ASSUME ProcsType, NEW p \in Procs, NEW label \in Labels, NEW t \in TaskSet, Start(p, label, t)
  PROVE  pc[p] = "idle" /\ MovedTo(p, label, t, ev[p])
  BY DEF ProcsType, Start, MovedTo, Stays

LEMMA GotoMoves ==
  ASSUME ProcsType, NEW p \in Procs, NEW label \in Labels, Goto(p, label)
  PROVE  MovedTo(p, label, task[p], ev[p])
  BY DEF ProcsType, Goto, MovedTo, Stays

LEMMA GotoWithMoves ==
  ASSUME ProcsType, NEW p \in Procs, NEW label \in Labels, NEW e \in Evidence,
         GotoWith(p, label, e)
  PROVE  MovedTo(p, label, task[p], e)
  BY DEF ProcsType, GotoWith, MovedTo, Stays

LEMMA DoneMoves ==
  ASSUME ProcsType, NEW p \in Procs, Done(p)
  PROVE  MovedTo(p, "idle", None, "unknown")
  BY DEF ProcsType, Done, MovedTo, Stays, Labels, Evidence

LEMMA FinishMoves ==
  ASSUME ProcsType, NEW p \in Procs, Finish(p)
  PROVE  \/ MovedTo(p, "idle", None, "unknown")
         \/ task[p].approval # None /\ MovedTo(p, "executed", task[p], ev[p])
<1>1. CASE task[p].approval = None
  BY <1>1, DoneMoves DEF Finish
<1>2. CASE task[p].approval # None
  BY <1>2, GotoMoves DEF Finish, Labels
<1> QED BY <1>1, <1>2

\* What a process knows of the operation it drives stays true of it.
LEMMA OperationKept ==
  ASSUME Evolves, Approving, NEW b \in Bookings, op[b] # "NONE"
  PROVE  op'[b] # "NONE" /\ RefundAmount(b)' = RefundAmount(b) /\ (~ Awaiting(b) => ~ Awaiting(b)')
<1>1. op'[b] # "NONE" /\ intent'[b] = intent[b] /\ (CancellationApproved(b) => CancellationApproved(b)')
  BY DEF Evolves, Approving
<1> QED BY <1>1, AmountFrame DEF Awaiting

LEMMA DriverStays ==
  ASSUME Evolves, Approving, NEW q \in Procs, DriverOK(q), Stays(q),
         Sender(q) => bank'[task[q].booking] = "none"
  PROVE  DriverOK(q)'
<1> SUFFICES ASSUME pc[q] # "idle"
             PROVE  DriverOK(q)'
  BY DEF DriverOK, Stays
<1>1. PICK b \in Bookings : b = task[q].booking
  BY DEF DriverOK, TaskSet
<1>2. /\ task[q] \in TaskSet
      /\ pc[q] \notin {"reserve", "release", "executed"} => op[b] # "NONE"
      /\ pc[q] \in {"check", "post", "verify", "checkpoint"} => ~ Awaiting(b)
      /\ Sender(q) => tried[b] /\ bank[b] = "none" /\ RefundAmount(b) # 0
      /\ pc[q] = "checkpoint" /\ ev[q] = "failed" => bank[b] = "failed"
      /\ pc[q] = "checkpoint" /\ ev[q] = "success" => bank[b] = "processed" \/ RefundAmount(b) = 0
      /\ pc[q] \in {"penalty", "repair"} => op[b] = "RECORDED"
  BY <1>1 DEF DriverOK
<1>3. /\ op[b] # "NONE" => /\ op'[b] # "NONE" /\ RefundAmount(b)' = RefundAmount(b)
                           /\ ~ Awaiting(b) => ~ Awaiting(b)'
      /\ tried[b] => tried'[b]
      /\ bank[b] \in {"processed", "failed"} => bank'[b] = bank[b]
      /\ op[b] = "RECORDED" => op'[b] = "RECORDED"
  BY OperationKept DEF Evolves
<1>4. task'[q].booking = b /\ pc'[q] = pc[q] /\ ev'[q] = ev[q] /\ task'[q] = task[q]
  BY <1>1 DEF Stays
<1> QED BY <1>1, <1>2, <1>3, <1>4 DEF DriverOK, Sender

\* The effect of a decision on a dispute that exists, or on the refund, stands.
LEMMA EffectStands ==
  ASSUME Evolves, NEW id \in ApprovalIds, id.dispute \in 0..Len(disputes[id.booking]),
         id.dispute # 0 <=> id.kind \in DisputeKinds,
         Effected(id)
  PROVE  Effected(id)'
<1>1. PICK b \in Bookings : b = id.booking
  BY DEF ApprovalIds
<1>2. CASE id.kind = "DISPUTE_RELEASE"
  <2>1. PICK d : d = id.dispute
    OBVIOUS
  <2>2. d \in 1..Len(disputes[b]) /\ disputes[b][d] = "RESOLVED"
    BY <1>1, <1>2, <2>1 DEF Effected, DisputeKinds, ApprovalIds
  <2>3. disputes'[b][d] = "RESOLVED"
    BY <2>2 DEF Evolves
  <2> QED BY <1>1, <1>2, <2>1, <2>3 DEF Effected
<1>3. CASE id.kind # "DISPUTE_RELEASE"
  BY <1>1, <1>3 DEF Effected, Evolves
<1> QED BY <1>2, <1>3

\* A process that goes on with its task.
LEMMA CarrierStep ==
  ASSUME Evolves, Agreeing, NEW p \in Procs, CarrierOK(p), pc[p] # "idle", task[p] \in TaskSet,
         task'[p] = task[p],
         pc'[p] = "release" => task[p].kind = "DISPUTE_RELEASE",
         pc'[p] = "reserve" => task[p].kind # "CLIENT_CANCEL",
         task[p].kind = "DISPUTE_RELEASE" => pc'[p] \in {"release", "executed"},
         pc'[p] = "executed" => task[p].approval # None /\ Effected(task[p].approval)'
  PROVE  CarrierOK(p)'
<1>1. PICK t \in TaskSet : t = task[p]
  OBVIOUS
<1>2. t.booking \in Bookings /\ t.dispute \in Nat
  BY <1>1 DEF TaskSet
<1>3. /\ t.dispute \in 0..Len(disputes[t.booking])
      /\ t.dispute # 0 <=> t.kind \in DisputeKinds
      /\ t.kind \in {"REFUND"} \cup DisputeKinds /\ t.booking \in Large => t.approval # None
      /\ t.approval # None => /\ AgreedOn(t.approval)
                              /\ t.approval.kind = t.kind /\ t.approval.booking = t.booking
                              /\ t.approval.dispute = t.dispute
  BY <1>1 DEF CarrierOK
<1>4. t.dispute \in 0..Len(disputes'[t.booking])
  <2>1. PICK m, n : m = Len(disputes[t.booking]) /\ n = Len(disputes'[t.booking])
    OBVIOUS
  <2>2. m \in Nat /\ n \in Nat /\ n >= m
    BY <1>2, <2>1 DEF Evolves
  <2>3. t.dispute \in 0..m
    BY <1>3, <2>1
  <2>4. t.dispute \in 0..n
    BY <1>2, <2>2, <2>3
  <2> QED BY <2>1, <2>4
<1>5. AgreedOn(t.approval) => AgreedOn(t.approval)'
  BY DEF Agreeing
<1> QED BY <1>1, <1>3, <1>4, <1>5 DEF CarrierOK

LEMMA CarrierStays ==
  ASSUME Evolves, Agreeing, NEW q \in Procs, DriverOK(q), CarrierOK(q), Stays(q)
  PROVE  CarrierOK(q)'
<1>1. CASE pc[q] = "idle"
  BY <1>1 DEF CarrierOK, Stays
<1>2. CASE pc[q] # "idle"
  <2>1. task[q] \in TaskSet
    BY <1>2 DEF DriverOK
  <2>2. ASSUME pc[q] = "executed"
        PROVE  task[q].approval # None /\ Effected(task[q].approval)'
    <3>1. PICK id : id = task[q].approval
      OBVIOUS
    <3>2. /\ id # None /\ Effected(id)
          /\ id.kind = task[q].kind /\ id.booking = task[q].booking /\ id.dispute = task[q].dispute
          /\ task[q].dispute \in 0..Len(disputes[task[q].booking])
          /\ task[q].dispute # 0 <=> task[q].kind \in DisputeKinds
      BY <1>2, <2>2, <3>1 DEF CarrierOK
    <3>3. id \in ApprovalIds
      BY <2>1, <3>1, <3>2 DEF TaskSet
    <3>4. /\ id.dispute \in 0..Len(disputes[id.booking])
          /\ id.dispute # 0 <=> id.kind \in DisputeKinds
      BY <3>2
    <3>5. Effected(id)'
      BY ONLY Evolves, <3>2, <3>3, <3>4, EffectStands
    <3> QED BY <3>1, <3>2, <3>5 DEF Stays, Effected
  <2>3. /\ pc[q] = "release" => task[q].kind = "DISPUTE_RELEASE"
        /\ pc[q] = "reserve" => task[q].kind # "CLIENT_CANCEL"
        /\ task[q].kind = "DISPUTE_RELEASE" => pc[q] \in {"release", "executed"}
    BY <1>2 DEF CarrierOK
  <2> QED BY <1>2, <2>1, <2>2, <2>3, CarrierStep DEF Stays
<1> QED BY <1>1, <1>2

\* A sender has found that the provider knows nothing of the refund.
LEMMA NothingSent ==
  ASSUME ProcsOK, NEW q \in Procs, Sender(q)
  PROVE  bank[task[q].booking] = "none"
  BY DEF ProcsOK, DriverOK, Sender

\* A step of one process.
LEMMA ProcessMoves ==
  ASSUME ProcsOK, Evolves, Approving, Agreeing, NEW p \in Procs,
         NEW label, NEW t, NEW e, MovedTo(p, label, t, e),
         DriverOK(p)', CarrierOK(p)',
         \A q \in Procs \ {p} : Sender(q) => bank'[task[q].booking] = "none",
         label \in {"check", "post"} =>
            \A q \in Procs \ {p} : Sender(q) => task[q].booking # t.booking
  PROVE  ProcsOK'
<1>1. \A q \in Procs \ {p} : Stays(q)
  BY DEF MovedTo
<1>2. ASSUME NEW q \in Procs, q # p
      PROVE  DriverOK(q)' /\ CarrierOK(q)'
  <2>1. DriverOK(q) /\ CarrierOK(q) /\ Stays(q)
    BY <1>1, <1>2 DEF ProcsOK
  <2> QED BY <1>2, <2>1, DriverStays, CarrierStays
<1>3. OneSender'
  <2> SUFFICES ASSUME NEW q \in Procs, NEW r \in Procs, Sender(q)', Sender(r)',
                      task'[q].booking = task'[r].booking
               PROVE  q = r
    BY DEF OneSender
  <2>1. \A x \in Procs \ {p} : (Sender(x)' <=> Sender(x)) /\ task'[x] = task[x]
    BY <1>1 DEF Stays, Sender
  <2>2. Sender(p)' => label \in {"check", "post"}
    BY DEF MovedTo, Sender
  <2>3. task'[p] = t
    BY DEF MovedTo
  <2> QED BY <2>1, <2>2, <2>3 DEF ProcsOK, OneSender
<1>4. ProcsType'
  BY DEF MovedTo
<1> QED BY <1>2, <1>3, <1>4 DEF ProcsOK

\* A step of none.
LEMMA ProcessesStay ==
  ASSUME ProcsOK, Evolves, Approving, Agreeing, UNCHANGED procs,
         \A q \in Procs : Sender(q) => bank'[task[q].booking] = "none"
  PROVE  ProcsOK'
<1>1. \A q \in Procs : Stays(q)
  BY DEF Stays
<1>2. \A q \in Procs : DriverOK(q)' /\ CarrierOK(q)'
  BY <1>1, DriverStays, CarrierStays DEF ProcsOK
<1>3. ProcsType' /\ OneSender'
  BY DEF ProcsOK, ProcsType, OneSender, Sender
<1> QED BY <1>2, <1>3 DEF ProcsOK

LEMMA ProcessEnds ==
  ASSUME ProcsOK, Evolves, Approving, Agreeing, NEW p \in Procs,
         MovedTo(p, "idle", None, "unknown"),
         \A q \in Procs \ {p} : Sender(q) => bank'[task[q].booking] = "none"
  PROVE  ProcsOK'
<1>1. DriverOK(p)' /\ CarrierOK(p)'
  BY DEF MovedTo, DriverOK, CarrierOK
<1> QED BY <1>1, ProcessMoves

LEMMA ProcessStarts ==
  ASSUME ProcsOK, Evolves, Approving, Agreeing, UNCHANGED bank, NEW p \in Procs,
         NEW label \in {"begin", "reserve", "release"}, NEW t \in TaskSet, Start(p, label, t),
         label = "begin" => op'[t.booking] # "NONE",
         t.dispute \in 0..Len(disputes'[t.booking]),
         t.dispute # 0 <=> t.kind \in DisputeKinds,
         label = "release" <=> t.kind = "DISPUTE_RELEASE",
         label = "reserve" => t.kind # "CLIENT_CANCEL",
         t.kind \in {"REFUND"} \cup DisputeKinds /\ t.booking \in Large => t.approval # None,
         t.approval # None => /\ AgreedOn(t.approval)'
                              /\ t.approval.kind = t.kind /\ t.approval.booking = t.booking
                              /\ t.approval.dispute = t.dispute
  PROVE  ProcsOK'
<1>1. MovedTo(p, label, t, ev[p])
  BY StartMoves DEF ProcsOK, Labels
<1>2. pc'[p] = label /\ task'[p] = t
  BY <1>1 DEF MovedTo
<1>3. DriverOK(p)'
  BY <1>2 DEF DriverOK, Sender
<1>4. CarrierOK(p)'
  BY <1>2 DEF CarrierOK
<1>5. \A q \in Procs \ {p} : Sender(q) => bank'[task[q].booking] = "none"
  BY NothingSent
<1> QED BY <1>1, <1>3, <1>4, <1>5, ProcessMoves

\* A process that has driven a refund to its record: the penalty, the repair, or the end.
LEMMA RecordedProcs ==
  ASSUME ProcsOK, Evolves, Approving, Agreeing, UNCHANGED bank, NEW p \in Procs,
         pc[p] \in {"begin", "finalize"}, Recorded(p),
         op'[task[p].booking] = "RECORDED"
  PROVE  ProcsOK'
<1>1. PICK t \in TaskSet : t = task[p]
  BY DEF ProcsOK, DriverOK
<1>2. /\ t.kind # "DISPUTE_RELEASE"
      /\ t.approval # None => t.approval.kind = t.kind /\ t.approval.booking = t.booking
  BY <1>1 DEF ProcsOK, CarrierOK
<1>3. \/ MovedTo(p, "idle", None, "unknown")
      \/ \E label \in {"penalty", "repair", "executed"} :
           /\ MovedTo(p, label, t, ev[p])
           /\ label = "executed" => t.approval # None
  <2>1. CASE t.kind \in {"NO_SHOW", "USHER_CANCEL"}
    <3>1. Goto(p, "penalty")
      BY <1>1, <2>1 DEF Recorded
    <3> QED BY <1>1, <3>1, GotoMoves DEF ProcsOK, Labels
  <2>2. CASE t.kind = "DISPUTE_REFUND"
    <3>1. Goto(p, "repair")
      BY <1>1, <2>2 DEF Recorded
    <3> QED BY <1>1, <3>1, GotoMoves DEF ProcsOK, Labels
  <2>3. CASE t.kind \notin {"NO_SHOW", "USHER_CANCEL", "DISPUTE_REFUND"}
    <3>1. Finish(p)
      BY <1>1, <2>3 DEF Recorded
    <3> QED BY <1>1, <3>1, FinishMoves DEF ProcsOK
  <2> QED BY <2>1, <2>2, <2>3
<1>4. \A q \in Procs \ {p} : Sender(q) => bank'[task[q].booking] = "none"
  BY NothingSent
<1>5. ASSUME NEW label \in {"penalty", "repair", "executed"}, MovedTo(p, label, t, ev[p]),
             label = "executed" => t.approval # None
      PROVE  ProcsOK'
  <2>1. pc'[p] = label /\ task'[p] = task[p] /\ task'[p] = t
    BY <1>1, <1>5 DEF MovedTo
  <2>2. DriverOK(p)'
    BY <1>1, <1>5, <2>1 DEF DriverOK, Sender
  <2>3. label = "executed" => t.approval # None /\ Effected(t.approval)'
    BY <1>1, <1>2, <1>5 DEF Effected
  <2>4. CarrierOK(p)'
    BY <1>1, <1>2, <2>1, <2>3, CarrierStep DEF ProcsOK
  <2> QED BY <1>4, <1>5, <2>2, <2>4, ProcessMoves
<1> QED BY <1>3, <1>4, <1>5, ProcessEnds

-----------------------------------------------------------------------------
(* The approvals.                                                          *)

ClockOK ==
    /\ phase \in Phases /\ faults \in 0..MaxFaults
    /\ arrived \in [Bookings -> BOOLEAN] /\ checkedIn \in [Bookings -> BOOLEAN]
    /\ docked \in [Bookings -> Nat]

\* The parts of the inductive invariant.
LEMMA InductiveParts ==
  /\ Inductive <=> RowsOK /\ ProcsOK /\ ApprovalsOK /\ ClockOK
  /\ Inductive' <=> RowsOK' /\ ProcsOK' /\ ApprovalsOK' /\ ClockOK'
  BY DEF Inductive, TypeOK, ControlType, RowsOK, ProcsOK, ProcsType, ApprovalsOK, ClockOK

LEMMA StillApproved ==
  ASSUME Agreeing,
         approvals' \subseteq [id : ApprovalIds, status : {"PENDING", "APPROVED", "EXECUTED"}]
  PROVE  Approving
<1> SUFFICES ASSUME NEW b \in Large, CancellationApproved(b)
             PROVE  CancellationApproved(b)'
  BY DEF Approving, CancellationApproved
<1>1. PICK a \in approvals : /\ a.id.kind = "CLIENT_CANCEL" /\ a.id.booking = b
                             /\ a.status \in {"APPROVED", "EXECUTED"}
  BY DEF CancellationApproved
<1>2. PICK id : id = a.id
  OBVIOUS
<1>3. AgreedOn(id)
  BY <1>1, <1>2 DEF AgreedOn
<1>4. AgreedOn(id)'
  BY <1>3 DEF Agreeing
<1>5. PICK x \in approvals' : x.id = id /\ x.status # "PENDING"
  BY <1>4 DEF AgreedOn
<1>6. x.status \in {"APPROVED", "EXECUTED"}
  BY <1>5
<1> QED BY <1>1, <1>2, <1>5, <1>6 DEF CancellationApproved

LEMMA AgreedStands ==
  ASSUME Agreeing, NEW kind, NEW b, NEW d, Agreed(kind, b, d)
  PROVE  Agreed(kind, b, d)'
<1>1. PICK a \in approvals : /\ a.id.kind = kind /\ a.id.booking = b /\ a.id.dispute = d
                             /\ a.status # "PENDING"
  BY DEF Agreed
<1>2. PICK id : id = a.id
  OBVIOUS
<1>3. AgreedOn(id)
  BY <1>1, <1>2 DEF AgreedOn
<1>4. AgreedOn(id)'
  BY <1>3 DEF Agreeing
<1>5. PICK x \in approvals' : x.id = id /\ x.status # "PENDING"
  BY <1>4 DEF AgreedOn
<1> QED BY <1>1, <1>2, <1>5 DEF Agreed

\* The approvals a step leaves alone, and those it writes.
LEMMA ApprovalsStep ==
  ASSUME ApprovalsOK, Evolves, Agreeing,
         approvals' \subseteq [id : ApprovalIds, status : {"PENDING", "APPROVED", "EXECUTED"}],
         \A a \in approvals' : a \in approvals \/ ApprovalOK(a)',
         \A b \in Bookings : intent'[b] = intent[b] \/ DecidedByTwo(b)'
  PROVE  ApprovalsOK'
<1>1. ASSUME NEW a \in approvals
      PROVE  ApprovalOK(a)'
  <2>1. /\ a.id \in ApprovalIds /\ a.id.dispute \in 0..Len(disputes[a.id.booking])
        /\ a.id.dispute # 0 <=> a.id.kind \in DisputeKinds
        /\ a.id.kind = "CLIENT_CANCEL" => op[a.id.booking] # "NONE"
        /\ a.status = "EXECUTED" => Effected(a.id)
    BY DEF ApprovalsOK, ApprovalOK
  <2>2. PICK id : id = a.id
    OBVIOUS
  <2>3. PICK m, n : m = Len(disputes[id.booking]) /\ n = Len(disputes'[id.booking])
    OBVIOUS
  <2>4. id.booking \in Bookings /\ id.dispute \in 0..MaxDisputes
    BY <2>1, <2>2 DEF ApprovalIds
  <2>5. m \in Nat /\ n \in Nat /\ n >= m
    BY <2>3, <2>4 DEF Evolves
  <2>6. id.dispute \in 0..m
    BY <2>1, <2>2, <2>3
  <2>7. id.dispute \in 0..n
    BY <2>5, <2>6
  <2>8. a.status = "EXECUTED" => Effected(id)'
    <3>1. id \in ApprovalIds /\ id.dispute \in 0..Len(disputes[id.booking])
      BY <2>1, <2>2
    <3>2. id.dispute # 0 <=> id.kind \in DisputeKinds
      BY <2>1, <2>2
    <3>3. a.status = "EXECUTED" => Effected(id)
      BY <2>1, <2>2
    <3> QED BY ONLY Evolves, <3>1, <3>2, <3>3, EffectStands
  <2>9. op[id.booking] # "NONE" => op'[id.booking] # "NONE"
    BY <2>4 DEF Evolves
  <2> QED BY <2>1, <2>2, <2>3, <2>7, <2>8, <2>9 DEF ApprovalOK
<1>2. ASSUME NEW b \in Bookings, intent'[b] = intent[b]
      PROVE  DecidedByTwo(b)'
  <2>1. PICK kind, d : kind = intent[b].by /\ d = intent[b].dispute
    OBVIOUS
  <2>2. DecidedByTwo(b) /\ (Agreed(kind, b, d) => Agreed(kind, b, d)')
    BY AgreedStands DEF ApprovalsOK
  <2> QED BY <1>2, <2>1, <2>2 DEF DecidedByTwo, Agreed
<1> QED BY <1>1, <1>2 DEF ApprovalsOK

LEMMA ApprovalsStay ==
  ASSUME ApprovalsOK, UNCHANGED approvals
  PROVE  /\ Agreeing /\ Approving
         /\ Evolves /\ UNCHANGED intent => ApprovalsOK'
<1>1. Agreeing /\ Approving
  BY DEF Agreeing, AgreedOn, Approving, CancellationApproved
<1>2. ASSUME Evolves, UNCHANGED intent
      PROVE  ApprovalsOK'
  <2>1. approvals' \subseteq [id : ApprovalIds, status : {"PENDING", "APPROVED", "EXECUTED"}]
    BY DEF ApprovalsOK
  <2>2. /\ \A a \in approvals' : a \in approvals \/ ApprovalOK(a)'
        /\ \A b \in Bookings : intent'[b] = intent[b] \/ DecidedByTwo(b)'
    BY <1>2
  <2> QED BY <1>1, <1>2, <2>1, <2>2, ApprovalsStep
<1> QED BY <1>1, <1>2

-----------------------------------------------------------------------------
(* Steps of no process: time, attendance, disputes, the provider.          *)

LEMMA QuietStep ==
  ASSUME Inductive, RowsOK', Evolves, ClockOK', UNCHANGED <<approvals, intent, procs>>,
         \A q \in Procs : Sender(q) => bank'[task[q].booking] = "none"
  PROVE  Inductive'
<1>1. ProcsOK /\ ApprovalsOK
  BY InductiveParts
<1>2. ApprovalsOK' /\ Agreeing /\ Approving
  BY <1>1, ApprovalsStay
<1>3. ProcsOK'
  BY <1>1, <1>2, ProcessesStay
<1> QED BY <1>2, <1>3, InductiveParts

LEMMA QuietSenders ==
  ASSUME Inductive, UNCHANGED bank
  PROVE  \A q \in Procs : Sender(q) => bank'[task[q].booking] = "none"
  BY InductiveParts, NothingSent

LEMMA TickInductive ==
  ASSUME Inductive, Tick
  PROVE  Inductive'
<1>1. RowsOK /\ ClockOK /\ ApprovalsOK
  BY InductiveParts
<1>2. /\ phase < Deadline /\ phase' = phase + 1
      /\ UNCHANGED <<booking, money, refund, approvals, docked, world, procs, faults>>
  BY DEF Tick
<1>3. phase' \in Phases
  BY <1>1, <1>2 DEF ClockOK, Phases, Deadline
<1>4. ClockOK'
  BY <1>1, <1>2, <1>3 DEF ClockOK
<1>5. RowsOK' /\ Evolves
  BY <1>1, <1>2, ApprovalsStay, RowsRest
<1> QED BY <1>2, <1>4, <1>5, QuietSenders, QuietStep

LEMMA AttendanceInductive ==
  ASSUME Inductive, NEW b \in Bookings,
         AssertArrival(b) \/ CheckIn(b) \/ Complete(b) \/ AutoComplete(b)
  PROVE  Inductive'
<1>1. RowsOK /\ ClockOK /\ ApprovalsOK
  BY InductiveParts
<1>2. UNCHANGED <<phase, faults, docked, approvals, intent, procs, bank>>
  BY DEF AssertArrival, CheckIn, Complete, AutoComplete
<1>3. /\ arrived' = arrived \/ arrived' = [arrived EXCEPT ![b] = TRUE]
      /\ \/ checkedIn' = checkedIn \/ checkedIn' = [checkedIn EXCEPT ![b] = TRUE]
         \/ checkedIn' = [checkedIn EXCEPT ![b] = checkedIn[b] \/ status[b] = "CONFIRMED"]
  BY DEF AssertArrival, CheckIn, Complete, AutoComplete
<1>4. ClockOK'
  <2>1. arrived \in [Bookings -> BOOLEAN] /\ checkedIn \in [Bookings -> BOOLEAN]
    BY <1>1 DEF ClockOK
  <2>2. arrived' \in [Bookings -> BOOLEAN]
    BY <1>3, <2>1
  <2>3. checkedIn' \in [Bookings -> BOOLEAN]
    BY <1>3, <2>1
  <2> QED BY <1>1, <1>2, <2>2, <2>3 DEF ClockOK
<1>5. RowsOK' /\ Evolves
  <2>1. CASE AssertArrival(b)
    BY <1>1, <2>1, ApprovalsStay, RowsRest DEF AssertArrival
  <2> QED BY <1>1, <2>1, CheckInRows, CompleteRows
<1> QED BY <1>2, <1>4, <1>5, QuietSenders, QuietStep

LEMMA OpenDisputeInductive ==
  ASSUME Inductive, NEW b \in Bookings, NEW party, OpenDispute(b, party)
  PROVE  Inductive'
<1>1. RowsOK /\ ClockOK
  BY InductiveParts
<1>2. UNCHANGED <<phase, faults, docked, arrived, checkedIn, approvals, intent, procs, bank>>
  BY DEF OpenDispute
<1>3. ClockOK'
  BY <1>1, <1>2 DEF ClockOK
<1>4. RowsOK' /\ Evolves
  BY <1>1, OpenDisputeRows
<1> QED BY <1>2, <1>3, <1>4, QuietSenders, QuietStep

LEMMA ProviderInductive ==
  ASSUME Inductive, NEW b \in Bookings, Arrive(b) \/ BankSettles(b)
  PROVE  Inductive'
<1>1. RowsOK /\ ClockOK /\ ProcsOK
  BY InductiveParts
<1>2. UNCHANGED <<phase, faults, docked, arrived, checkedIn, approvals, intent, procs>>
  BY DEF Arrive, BankSettles
<1>3. ClockOK'
  BY <1>1, <1>2 DEF ClockOK
<1>4. RowsOK' /\ Evolves
  BY <1>1, ProviderRows
<1>5. \A q \in Procs : Sender(q) => bank'[task[q].booking] = "none"
  <2> SUFFICES ASSUME NEW q \in Procs, Sender(q)
               PROVE  bank'[task[q].booking] = "none"
    OBVIOUS
  <2>1. bank[task[q].booking] = "none"
    BY <1>1, NothingSent
  <2>2. task[q].booking # b
    BY <2>1 DEF Arrive, BankSettles
  <2>3. bank \in [Bookings -> BankStatus]
    BY <1>1 DEF RowsOK, RowsType
  <2>4. \A c \in Bookings \ {b} : bank'[c] = bank[c]
    BY <2>3 DEF Arrive, BankSettles
  <2>5. task[q].booking \in Bookings
    BY <1>1 DEF ProcsOK, DriverOK, Sender, TaskSet
  <2> QED BY <2>1, <2>2, <2>4, <2>5
<1> QED BY <1>2, <1>3, <1>4, <1>5, QuietStep

-----------------------------------------------------------------------------
(* Proposals and decisions.                                                *)

LEMMA DecisionStep ==
  ASSUME Inductive, RowsOK', Evolves, ClockOK', Agreeing, UNCHANGED <<intent, bank, procs>>,
         approvals' \subseteq [id : ApprovalIds, status : {"PENDING", "APPROVED", "EXECUTED"}],
         \A a \in approvals' : a \in approvals \/ ApprovalOK(a)'
  PROVE  Inductive'
<1>1. ProcsOK /\ ApprovalsOK
  BY InductiveParts
<1>2. ApprovalsOK' /\ Approving
  BY <1>1, ApprovalsStep, StillApproved
<1>3. ProcsOK'
  BY <1>1, <1>2, QuietSenders, ProcessesStay
<1> QED BY <1>2, <1>3, InductiveParts

\* A new proposal, of a dispute that exists or of none.
LEMMA ProposalStep ==
  ASSUME Inductive, NEW admin \in Admins, NEW b \in Bookings, NEW d \in 0..MaxDisputes,
         NEW kind \in {"CLIENT_CANCEL", "REFUND", "DISPUTE_REFUND", "DISPUTE_RELEASE"},
         d # 0 <=> kind \in DisputeKinds, d \in 0..Len(disputes[b]),
         kind = "CLIENT_CANCEL" => op'[b] # "NONE",
         Propose(kind, b, d, admin)
  PROVE  /\ Agreeing /\ Approving
         /\ approvals' \subseteq [id : ApprovalIds, status : {"PENDING", "APPROVED", "EXECUTED"}]
         /\ Len(disputes'[b]) = Len(disputes[b]) =>
              \A a \in approvals' : a \in approvals \/ ApprovalOK(a)'
<1>1. PICK new : new = [id |-> [kind |-> kind, booking |-> b, dispute |-> d, maker |-> admin],
                        status |-> "PENDING"]
  OBVIOUS
<1>2. approvals' = approvals \cup {new}
  BY <1>1 DEF Propose
<1>3. new \in [id : ApprovalIds, status : {"PENDING", "APPROVED", "EXECUTED"}]
  BY <1>1 DEF ApprovalIds
<1>4. approvals' \subseteq [id : ApprovalIds, status : {"PENDING", "APPROVED", "EXECUTED"}]
  BY <1>2, <1>3, InductiveParts DEF ApprovalsOK
<1>5. Agreeing
  BY <1>2 DEF Agreeing, AgreedOn
<1>6. new.status = "PENDING" /\ new.id.kind = kind /\ new.id.booking = b /\ new.id.dispute = d
  BY <1>1
<1>7. Len(disputes'[b]) = Len(disputes[b]) => ApprovalOK(new)'
  BY <1>6 DEF ApprovalOK
<1> QED BY <1>2, <1>4, <1>5, <1>7, StillApproved

LEMMA ProposeInductive ==
  ASSUME Inductive, NEW admin \in Admins, NEW b \in Bookings,
         ProposeRefund(admin, b) \/ ProposeCancellation(admin, b)
  PROVE  Inductive'
<1>1. RowsOK /\ ClockOK
  BY InductiveParts
<1>2. UNCHANGED <<phase, booking, money, refund, docked, world, procs, faults>>
  BY DEF ProposeRefund, ProposeCancellation
<1>3. PICK kind \in {"CLIENT_CANCEL", "REFUND"} :
         Propose(kind, b, 0, admin) /\ (kind = "CLIENT_CANCEL" => op'[b] # "NONE")
  BY <1>2 DEF ProposeRefund, ProposeCancellation
<1>4. 0 \in 0..MaxDisputes /\ 0 \in 0..Len(disputes[b]) /\ kind \notin DisputeKinds
  <2>1. disputes[b] \in Seq({"OPEN", "UNDER_REVIEW", "RESOLVED"})
    BY <1>1 DEF RowsOK, RowsType
  <2>2. Len(disputes[b]) \in Nat
    BY <2>1
  <2> QED BY <2>2 DEF DisputeKinds
<1>5. /\ Agreeing /\ Approving
      /\ approvals' \subseteq [id : ApprovalIds, status : {"PENDING", "APPROVED", "EXECUTED"}]
      /\ \A a \in approvals' : a \in approvals \/ ApprovalOK(a)'
  BY <1>2, <1>3, <1>4, ProposalStep
<1>6. RowsOK' /\ Evolves
  BY <1>1, <1>2, <1>5, RowsRest
<1>7. ClockOK'
  BY <1>1, <1>2 DEF ClockOK
<1> QED BY <1>2, <1>5, <1>6, <1>7, DecisionStep

LEMMA ProposeResolutionInductive ==
  ASSUME Inductive, NEW admin \in Admins, NEW b \in Bookings, NEW d \in 1..MaxDisputes,
         NEW kind \in DisputeKinds, ProposeResolution(admin, b, d, kind)
  PROVE  Inductive'
<1>1. RowsOK /\ ClockOK /\ RowsType
  BY InductiveParts DEF RowsOK
<1>2. /\ d \in 1..Len(disputes[b]) /\ disputes[b][d] = "OPEN" /\ Propose(kind, b, d, admin)
      /\ disputes' = [disputes EXCEPT ![b][d] = "UNDER_REVIEW"]
      /\ UNCHANGED <<phase, status, escrow, arrived, checkedIn, money, refund, docked, world,
                     procs, faults>>
  BY DEF ProposeResolution
<1>3. PICK x \in {"OPEN", "UNDER_REVIEW", "RESOLVED"} : x = "UNDER_REVIEW"
  OBVIOUS
<1>4. disputes' = [disputes EXCEPT ![b][d] = x] /\ (disputes[b][d] = "RESOLVED" => x = "RESOLVED")
  BY <1>2, <1>3
<1>5. /\ disputes' \in [Bookings -> Seq({"OPEN", "UNDER_REVIEW", "RESOLVED"})]
      /\ \A c \in Bookings \ {b} : disputes'[c] = disputes[c]
      /\ Len(disputes'[b]) = Len(disputes[b])
      /\ Unresolved(b)' = (IF x = "RESOLVED" THEN Unresolved(b) \ {d} ELSE Unresolved(b))
      /\ DisputesEvolve(b)
  BY ONLY <1>1, <1>2, <1>4, b \in Bookings, DisputeWritten
<1>6. /\ kind \in {"CLIENT_CANCEL", "REFUND", "DISPUTE_REFUND", "DISPUTE_RELEASE"}
      /\ d \in 0..MaxDisputes /\ (d # 0 <=> kind \in DisputeKinds) /\ d \in 0..Len(disputes[b])
      /\ kind = "CLIENT_CANCEL" => op'[b] # "NONE"
      /\ Propose(kind, b, d, admin)
  BY <1>2 DEF DisputeKinds
<1>7. /\ Agreeing /\ Approving
      /\ approvals' \subseteq [id : ApprovalIds, status : {"PENDING", "APPROVED", "EXECUTED"}]
      /\ \A a \in approvals' : a \in approvals \/ ApprovalOK(a)'
  BY ONLY Inductive, admin \in Admins, b \in Bookings, <1>5, <1>6, ProposalStep
<1>8. RowsOK' /\ Evolves
  BY <1>1, <1>2, <1>3, <1>5, <1>7, DisputeRows
<1>9. ClockOK'
  BY <1>1, <1>2 DEF ClockOK
<1> QED BY <1>2, <1>7, <1>8, <1>9, DecisionStep

LEMMA RejectInductive ==
  ASSUME Inductive, NEW admin, NEW a \in approvals, Reject(admin, a)
  PROVE  Inductive'
<1>1. RowsOK /\ ClockOK /\ RowsType /\ ApprovalsOK
  BY InductiveParts DEF RowsOK
<1>2. /\ a.status = "PENDING" /\ approvals' = approvals \ {a}
      /\ UNCHANGED <<phase, status, escrow, arrived, checkedIn, money, refund, docked, world,
                     procs, faults>>
  BY DEF Reject
<1>3. approvals' \subseteq [id : ApprovalIds, status : {"PENDING", "APPROVED", "EXECUTED"}]
  BY <1>1, <1>2 DEF ApprovalsOK
<1>4. Agreeing /\ Approving
  <2>1. Agreeing
    BY <1>2 DEF Agreeing, AgreedOn
  <2> QED BY <1>3, <2>1, StillApproved
<1>5. RowsOK' /\ Evolves
  <2>4. PICK b \in Bookings : b = a.id.booking
    BY <1>1 DEF ApprovalsOK, ApprovalIds
  <2>1. PICK d : b = a.id.booking /\ d = a.id.dispute
    BY <2>4
  <2>2. CASE d \in Unresolved(b)
    <3>1. PICK x \in {"OPEN", "UNDER_REVIEW", "RESOLVED"} : x = "OPEN"
      OBVIOUS
    <3>2. /\ disputes' = [disputes EXCEPT ![b][d] = x]
          /\ d \in 1..Len(disputes[b]) /\ (disputes[b][d] = "RESOLVED" => x = "RESOLVED")
      BY <2>1, <2>2, <3>1 DEF Reject, Unresolved
    <3>3. /\ disputes' \in [Bookings -> Seq({"OPEN", "UNDER_REVIEW", "RESOLVED"})]
          /\ \A c \in Bookings \ {b} : disputes'[c] = disputes[c]
          /\ Unresolved(b)' = (IF x = "RESOLVED" THEN Unresolved(b) \ {d} ELSE Unresolved(b))
          /\ DisputesEvolve(b)
      BY ONLY <1>1, <3>2, b \in Bookings, DisputeWritten
    <3> QED BY <1>1, <1>2, <1>4, <3>1, <3>3, DisputeRows
  <2>3. CASE d \notin Unresolved(b)
    <3>1. disputes' = disputes
      BY <2>1, <2>3 DEF Reject
    <3> QED BY <1>1, <1>2, <1>4, <3>1, RowsRest
  <2> QED BY <2>2, <2>3
<1>6. ClockOK'
  BY <1>1, <1>2 DEF ClockOK
<1> QED BY <1>2, <1>3, <1>4, <1>5, <1>6, DecisionStep

-----------------------------------------------------------------------------
(* Steps that start a process.                                             *)

\* The rows stand, and the process takes up a task.
LEMMA StartStep ==
  ASSUME Inductive, NEW p \in Procs, NEW label \in {"begin", "reserve", "release"},
         NEW t \in TaskSet, Start(p, label, t),
         UNCHANGED <<phase, booking, money, refund, docked, world, faults>>,
         approvals' \subseteq [id : ApprovalIds, status : {"PENDING", "APPROVED", "EXECUTED"}],
         \A a \in approvals' : a \in approvals \/ ApprovalOK(a)', Agreeing,
         label = "begin" => op[t.booking] # "NONE",
         t.dispute \in 0..Len(disputes[t.booking]),
         t.dispute # 0 <=> t.kind \in DisputeKinds,
         label = "release" <=> t.kind = "DISPUTE_RELEASE",
         label = "reserve" => t.kind # "CLIENT_CANCEL",
         t.kind \in {"REFUND"} \cup DisputeKinds /\ t.booking \in Large => t.approval # None,
         t.approval # None => /\ AgreedOn(t.approval)'
                              /\ t.approval.kind = t.kind /\ t.approval.booking = t.booking
                              /\ t.approval.dispute = t.dispute
  PROVE  Inductive'
<1>1. RowsOK /\ ClockOK /\ ProcsOK /\ ApprovalsOK
  BY InductiveParts
<1>2. Approving
  BY StillApproved
<1>3. RowsOK' /\ Evolves
  BY <1>1, <1>2, RowsRest
<1>4. ClockOK'
  BY <1>1 DEF ClockOK
<1>5. ApprovalsOK'
  BY <1>1, <1>3, ApprovalsStep
<1>6. ProcsOK'
  BY <1>1, <1>2, <1>3, ProcessStarts
<1> QED BY <1>3, <1>4, <1>5, <1>6, InductiveParts

\* A request that carries no approval.
LEMMA RequestStep ==
  ASSUME Inductive, NEW p \in Procs, NEW label \in {"begin", "reserve", "release"},
         NEW kind \in Kinds, NEW b \in Bookings, NEW precursor \in Precursors,
         NEW d \in 0..MaxDisputes, Start(p, label, NewTask(kind, b, precursor, d, None)),
         UNCHANGED <<phase, booking, money, refund, approvals, docked, world, faults>>,
         label = "begin" => op[b] # "NONE",
         d \in 0..Len(disputes[b]), d # 0 <=> kind \in DisputeKinds,
         label = "release" <=> kind = "DISPUTE_RELEASE",
         label = "reserve" => kind # "CLIENT_CANCEL",
         kind \in {"REFUND"} \cup DisputeKinds => b \notin Large
  PROVE  Inductive'
<1>1. PICK t : t = NewTask(kind, b, precursor, d, None)
  OBVIOUS
<1>2. /\ t.kind = kind /\ t.booking = b /\ t.dispute = d /\ t.approval = None
      /\ t \in TaskSet
  BY <1>1 DEF NewTask, TaskSet
<1>3. /\ approvals' \subseteq [id : ApprovalIds, status : {"PENDING", "APPROVED", "EXECUTED"}]
      /\ \A a \in approvals' : a \in approvals
      /\ Agreeing
  BY InductiveParts, ApprovalsStay DEF ApprovalsOK
<1> QED BY <1>1, <1>2, <1>3, StartStep

LEMMA NoDispute ==
  ASSUME Inductive, NEW b \in Bookings
  PROVE  0 \in 0..Len(disputes[b]) /\ 0 \in 0..MaxDisputes
<1>1. disputes[b] \in Seq({"OPEN", "UNDER_REVIEW", "RESOLVED"})
  BY InductiveParts DEF RowsOK, RowsType
<1>2. Len(disputes[b]) \in Nat
  BY <1>1
<1> QED BY <1>2

LEMMA RequestsInductive ==
  ASSUME Inductive, NEW p \in Procs, NEW b \in Bookings,
         SweepNoShow(p, b) \/ UsherCancels(p, b) \/ AdminRefunds(p, b) \/ Recover(p, b)
           \/ Callback(p, b)
  PROVE  Inductive'
<1>1. UNCHANGED <<phase, booking, money, refund, approvals, docked, world, faults>>
  BY DEF SweepNoShow, UsherCancels, AdminRefunds, Recover, Callback
<1>2. PICK label \in {"begin", "reserve", "release"}, kind \in Kinds, precursor \in Precursors :
        /\ Start(p, label, NewTask(kind, b, precursor, 0, None))
        /\ label = "begin" => op[b] # "NONE"
        /\ kind \notin DisputeKinds /\ label # "release"
        /\ kind = "REFUND" => b \notin Large
        /\ kind # "CLIENT_CANCEL"
  <2>1. CASE SweepNoShow(p, b)
    BY <2>1 DEF SweepNoShow, Kinds, Precursors, DisputeKinds
  <2>2. CASE UsherCancels(p, b)
    BY <2>2 DEF UsherCancels, Kinds, Precursors, DisputeKinds
  <2>3. CASE AdminRefunds(p, b)
    <3>1. RefundPrecursor(b) \in Precursors
      BY DEF RefundPrecursor, Precursors
    <3>2. Start(p, "reserve", NewTask("REFUND", b, RefundPrecursor(b), 0, None)) /\ b \notin Large
      BY <2>3 DEF AdminRefunds
    <3> QED BY <3>1, <3>2 DEF Kinds, DisputeKinds
  <2>4. CASE Recover(p, b)
    BY <2>4 DEF Recover, Kinds, Precursors, DisputeKinds
  <2>5. CASE Callback(p, b)
    BY <2>5 DEF Callback, Kinds, Precursors, DisputeKinds
  <2> QED BY <2>1, <2>2, <2>3, <2>4, <2>5
<1>3. kind # "DISPUTE_RELEASE" /\ kind # "DISPUTE_REFUND"
  BY <1>2 DEF DisputeKinds
<1> QED BY <1>1, <1>2, <1>3, NoDispute, RequestStep

LEMMA ResolveDisputeInductive ==
  ASSUME Inductive, NEW p \in Procs, NEW b \in Bookings, NEW d \in 1..MaxDisputes,
         NEW kind \in DisputeKinds, ResolveDispute(p, b, d, kind)
  PROVE  Inductive'
<1>1. /\ b \notin Large /\ d \in Unresolved(b)
      /\ UNCHANGED <<phase, booking, money, refund, approvals, docked, world, faults>>
  BY DEF ResolveDispute
<1>2. d \in 0..Len(disputes[b]) /\ d # 0 /\ d \in 0..MaxDisputes
  BY <1>1 DEF Unresolved
<1>3. PICK label \in {"begin", "reserve", "release"} :
        label = IF kind = "DISPUTE_RELEASE" THEN "release" ELSE "reserve"
  OBVIOUS
<1>4. Start(p, label, NewTask(kind, b, "NONE", d, None))
  BY <1>3 DEF ResolveDispute
<1>5. kind \in Kinds /\ "NONE" \in Precursors /\ kind # "CLIENT_CANCEL"
  BY DEF DisputeKinds, Kinds, Precursors
<1> QED BY <1>1, <1>2, <1>3, <1>4, <1>5, RequestStep

\* cancelConfirmedBooking reserves the booking and drives the cancellation.
LEMMA ClientCancelsInductive ==
  ASSUME Inductive, NEW p \in Procs, NEW b \in Bookings, ClientCancels(p, b)
  PROVE  Inductive'
<1>1. /\ Start(p, "begin", NewTask("CLIENT_CANCEL", b, "CANCEL", 0, None))
      /\ UNCHANGED <<phase, booking, money, tried, approvals, docked, world, faults>>
  BY DEF ClientCancels
<1>2. RowsOK /\ ClockOK /\ ProcsOK /\ ApprovalsOK
  BY InductiveParts
<1>3. "CLIENT_CANCEL" \in Kinds /\ "CANCEL" \in Precursors /\ "CLIENT_CANCEL" \notin DisputeKinds
  BY DEF Kinds, Precursors, DisputeKinds
<1>4. CASE UNCHANGED <<op, intent>>
  <2>1. op[b] # "NONE"
    <3>1. CASE op[b] = "NONE"
      <4>1. op' = [op EXCEPT ![b] = "PENDING"] /\ op \in [Bookings -> OpStatus]
        BY <1>2, <3>1 DEF ClientCancels, RowsOK, RowsType
      <4> QED BY <1>4, <3>1, <4>1
    <3> QED BY <3>1
  <2> QED BY <1>1, <1>3, <1>4, <2>1, NoDispute, RequestStep
<1>5. CASE ~ UNCHANGED <<op, intent>>
  <2>1. PICK i : i = [precursor |-> "CANCEL", window |-> CancelWindow(phase), dispute |-> 0,
                   by |-> "CLIENT_CANCEL"]
    OBVIOUS
  <2>2. /\ op[b] = "NONE" /\ escrow[b] = "HELD" /\ Refundable(b, "CANCEL")
        /\ op' = [op EXCEPT ![b] = "PENDING"] /\ intent' = [intent EXCEPT ![b] = i]
    BY <1>5, <2>1 DEF ClientCancels
  <2>3. CancelWindow(phase) \in Windows
    BY DEF CancelWindow, Windows
  <2>4. /\ i \in Intents
        /\ i.precursor = "CANCEL" /\ i.dispute = 0 /\ i.by = "CLIENT_CANCEL" /\ i.window # "NONE"
    BY <1>3, <2>1, <2>3, NoDispute DEF Windows, Intents
  <2>5. RowsOK' /\ Evolves
    BY <1>1, <1>2, <2>2, <2>4, ReservationRows
  <2>6. op'[b] = "PENDING" /\ intent'[b] = i /\ \A c \in Bookings \ {b} : intent'[c] = intent[c]
    BY <1>2, <2>2 DEF RowsOK, RowsType
  <2>7. /\ Agreeing /\ Approving
        /\ approvals' \subseteq [id : ApprovalIds, status : {"PENDING", "APPROVED", "EXECUTED"}]
    BY <1>1, <1>2, ApprovalsStay DEF ApprovalsOK
  <2>8. DecidedByTwo(b)'
    BY <2>4, <2>6 DEF DecidedByTwo
  <2>9. ApprovalsOK'
    BY <1>1, <1>2, <2>5, <2>6, <2>7, <2>8, ApprovalsStep
  <2>10. PICK t : t = NewTask("CLIENT_CANCEL", b, "CANCEL", 0, None)
    OBVIOUS
  <2>11. /\ t.kind = "CLIENT_CANCEL" /\ t.booking = b /\ t.dispute = 0 /\ t.approval = None
         /\ t \in TaskSet
    BY <1>3, <2>10, NoDispute DEF NewTask, TaskSet
  <2>12. 0 \in 0..Len(disputes'[b])
    BY <1>1, NoDispute
  <2>13. ProcsOK'
    BY <1>1, <1>2, <1>3, <2>5, <2>6, <2>7, <2>10, <2>11, <2>12, ProcessStarts
  <2>14. ClockOK'
    BY <1>1, <1>2 DEF ClockOK
  <2> QED BY <2>5, <2>9, <2>13, <2>14, InductiveParts
<1> QED BY <1>4, <1>5

\* A process carries out what two administrators agreed on.
LEMMA CarryStep ==
  ASSUME Inductive, NEW p \in Procs, NEW a \in approvals, Carry(p, a),
         UNCHANGED <<phase, booking, money, refund, docked, world, faults>>,
         approvals' \subseteq [id : ApprovalIds, status : {"PENDING", "APPROVED", "EXECUTED"}],
         \A x \in approvals' : x \in approvals \/ ApprovalOK(x)', Agreeing,
         \E x \in approvals' : x.id = a.id /\ x.status # "PENDING"
  PROVE  Inductive'
<1>1. PICK id \in ApprovalIds : id = a.id
  BY InductiveParts DEF ApprovalsOK
<1>2. PICK b \in Bookings, d \in 0..MaxDisputes : b = id.booking /\ d = id.dispute
  BY <1>1 DEF ApprovalIds
<1>3. /\ d \in 0..Len(disputes[b])
      /\ d # 0 <=> id.kind \in DisputeKinds
      /\ id.kind = "CLIENT_CANCEL" => op[b] # "NONE"
  BY <1>1, <1>2, InductiveParts DEF ApprovalsOK, ApprovalOK
<1>4. AgreedOn(id)' /\ id # None
  BY <1>1 DEF AgreedOn
<1>5. id.kind \in {"CLIENT_CANCEL", "REFUND", "DISPUTE_REFUND", "DISPUTE_RELEASE"}
  BY DEF ApprovalIds
<1>6. PICK label \in {"begin", "reserve", "release"}, precursor \in Precursors :
        /\ Start(p, label, NewTask(id.kind, b, precursor, d, id))
        /\ label = "begin" <=> id.kind = "CLIENT_CANCEL"
        /\ label = "release" <=> id.kind = "DISPUTE_RELEASE"
  <2>1. CASE id.kind = "CLIENT_CANCEL"
    <3>1. Start(p, "begin", NewTask(id.kind, b, "CANCEL", d, id))
      BY <1>1, <1>2, <1>3, <2>1 DEF Carry, DisputeKinds
    <3> QED BY <2>1, <3>1 DEF Precursors
  <2>2. CASE id.kind = "REFUND"
    <3>1. Start(p, "reserve", NewTask(id.kind, b, RefundPrecursor(b), d, id))
      BY <1>1, <1>2, <1>3, <2>2 DEF Carry, DisputeKinds
    <3> QED BY <2>2, <3>1 DEF Precursors, RefundPrecursor
  <2>3. CASE id.kind = "DISPUTE_REFUND"
    <3>1. Start(p, "reserve", NewTask(id.kind, b, "NONE", d, id))
      BY <1>1, <1>2, <2>3 DEF Carry
    <3> QED BY <2>3, <3>1 DEF Precursors
  <2>4. CASE id.kind = "DISPUTE_RELEASE"
    <3>1. Start(p, "release", NewTask(id.kind, b, "NONE", d, id))
      BY <1>1, <1>2, <2>4 DEF Carry
    <3> QED BY <2>4, <3>1 DEF Precursors
  <2> QED BY <1>5, <2>1, <2>2, <2>3, <2>4
<1>7. PICK t : t = NewTask(id.kind, b, precursor, d, id)
  OBVIOUS
<1>8. /\ t.kind = id.kind /\ t.booking = b /\ t.dispute = d /\ t.approval = id
      /\ t \in TaskSet
  BY <1>5, <1>7 DEF NewTask, TaskSet, Kinds
<1>9. /\ Start(p, label, t)
      /\ label = "begin" => op[t.booking] # "NONE"
      /\ label = "release" <=> t.kind = "DISPUTE_RELEASE"
      /\ label = "reserve" => t.kind # "CLIENT_CANCEL"
  BY <1>3, <1>6, <1>7, <1>8
<1>10. t.dispute \in 0..Len(disputes[t.booking]) /\ (t.dispute # 0 <=> t.kind \in DisputeKinds)
  BY <1>3, <1>8
<1>11. /\ t.approval # None /\ AgreedOn(t.approval)'
       /\ t.approval.kind = t.kind /\ t.approval.booking = t.booking
       /\ t.approval.dispute = t.dispute
  BY <1>2, <1>4, <1>8 DEF AgreedOn
<1> QED BY <1>8, <1>9, <1>10, <1>11, StartStep

LEMMA ApproveInductive ==
  ASSUME Inductive, NEW p \in Procs, NEW admin, NEW a \in approvals, Approve(p, admin, a)
  PROVE  Inductive'
<1>1. PICK new : new = [a EXCEPT !.status = "APPROVED"]
  OBVIOUS
<1>2. /\ a.status = "PENDING" /\ approvals' = (approvals \ {a}) \cup {new} /\ Carry(p, a)
      /\ UNCHANGED <<phase, booking, money, refund, docked, world, faults>>
  BY <1>1 DEF Approve
<1>3. a \in [id : ApprovalIds, status : {"PENDING", "APPROVED", "EXECUTED"}] /\ ApprovalOK(a)
  BY InductiveParts DEF ApprovalsOK
<1>4. /\ new \in [id : ApprovalIds, status : {"PENDING", "APPROVED", "EXECUTED"}]
      /\ new.id = a.id /\ new.status = "APPROVED"
  BY <1>1, <1>3
<1>5. approvals' \subseteq [id : ApprovalIds, status : {"PENDING", "APPROVED", "EXECUTED"}]
  BY <1>2, <1>4, InductiveParts DEF ApprovalsOK
<1>6. Agreeing
  BY <1>2 DEF Agreeing, AgreedOn
<1>7. ApprovalOK(new)'
  BY <1>2, <1>3, <1>4 DEF ApprovalOK
<1> QED BY <1>2, <1>4, <1>5, <1>6, <1>7, CarryStep

LEMMA ResumeInductive ==
  ASSUME Inductive, NEW p \in Procs, NEW a \in approvals, ResumeApproval(p, a)
  PROVE  Inductive'
<1>1. /\ a.status = "APPROVED" /\ Carry(p, a)
      /\ UNCHANGED <<phase, booking, money, refund, approvals, docked, world, faults>>
  BY DEF ResumeApproval
<1>2. /\ approvals' \subseteq [id : ApprovalIds, status : {"PENDING", "APPROVED", "EXECUTED"}]
      /\ Agreeing
  BY <1>1, InductiveParts, ApprovalsStay DEF ApprovalsOK
<1> QED BY <1>1, <1>2, CarryStep

-----------------------------------------------------------------------------
(* Steps of a process that drives a decision or a refund.                  *)

\* What a busy process is about.
LEMMA Busy ==
  ASSUME Inductive, NEW p \in Procs, pc[p] # "idle"
  PROVE  /\ task[p] \in TaskSet /\ task[p].booking \in Bookings
         /\ DriverOK(p) /\ CarrierOK(p) /\ ProcsOK /\ ProcsType /\ RowsOK /\ ApprovalsOK /\ ClockOK
<1>1. ProcsOK /\ RowsOK /\ ApprovalsOK /\ ClockOK
  BY InductiveParts
<1>2. task[p] \in TaskSet
  BY <1>1 DEF ProcsOK, DriverOK
<1> QED BY <1>1, <1>2 DEF ProcsOK, TaskSet

LEMMA DriveStep ==
  ASSUME Inductive, RowsOK', Evolves, ProcsOK', UNCHANGED <<intent, approvals>>, ClockOK'
  PROVE  Inductive'
  BY InductiveParts, ApprovalsStay

\* The process goes on with a refund.
LEMMA GoesOn ==
  ASSUME Inductive, Evolves, UNCHANGED <<approvals, bank>>, NEW p \in Procs,
         pc[p] \notin {"idle", "release", "executed"},
         NEW label \in Labels \ {"idle", "release", "executed", "reserve", "check", "post"},
         NEW e, MovedTo(p, label, task[p], e), DriverOK(p)'
  PROVE  ProcsOK'
<1>1. ProcsOK /\ ApprovalsOK /\ task[p] \in TaskSet /\ CarrierOK(p)
  BY Busy
<1>2. Agreeing /\ Approving
  BY <1>1, ApprovalsStay
<1>3. pc'[p] = label /\ task'[p] = task[p]
  BY DEF MovedTo
<1>4. task[p].kind # "DISPUTE_RELEASE"
  BY <1>1 DEF CarrierOK
<1>5. CarrierOK(p)'
  BY <1>1, <1>2, <1>3, <1>4, CarrierStep
<1> QED BY <1>1, <1>2, <1>5, QuietSenders, ProcessMoves

\* The process has carried its decision out.
LEMMA Finishes ==
  ASSUME Inductive, Evolves, UNCHANGED <<approvals, bank>>, NEW p \in Procs,
         pc[p] # "idle", Finish(p),
         task[p].approval # None => Effected(task[p].approval)'
  PROVE  ProcsOK'
<1>1. ProcsOK /\ ProcsType /\ ApprovalsOK /\ task[p] \in TaskSet /\ CarrierOK(p)
  BY Busy
<1>2. Agreeing /\ Approving
  BY <1>1, ApprovalsStay
<1>3. CASE MovedTo(p, "idle", None, "unknown")
  BY <1>1, <1>2, <1>3, QuietSenders, ProcessEnds
<1>4. CASE task[p].approval # None /\ MovedTo(p, "executed", task[p], ev[p])
  <2>1. pc'[p] = "executed" /\ task'[p] = task[p]
    BY <1>4 DEF MovedTo
  <2>2. DriverOK(p)'
    BY <1>1, <2>1 DEF DriverOK, Sender
  <2>3. CarrierOK(p)'
    BY <1>1, <1>2, <1>4, <2>1, CarrierStep
  <2>4. \A q \in Procs \ {p} : Sender(q) => bank'[task[q].booking] = "none"
    BY QuietSenders
  <2> QED BY <1>1, <1>2, <1>4, <2>2, <2>3, <2>4, ProcessMoves
<1> QED BY <1>1, <1>3, <1>4, FinishMoves

\* A step that writes no row.
LEMMA IdleRows ==
  ASSUME Inductive, UNCHANGED <<phase, booking, money, refund, approvals, world>>,
         docked' \in [Bookings -> Nat], faults' \in 0..MaxFaults
  PROVE  RowsOK' /\ Evolves /\ ClockOK'
<1>1. RowsOK /\ ApprovalsOK /\ ClockOK
  BY InductiveParts
<1>2. RowsOK' /\ Evolves
  BY <1>1, ApprovalsStay, RowsRest
<1> QED BY <1>1, <1>2 DEF ClockOK

LEMMA EndStep ==
  ASSUME Inductive, NEW p \in Procs, Done(p),
         UNCHANGED <<phase, booking, money, refund, approvals, world>>,
         docked' \in [Bookings -> Nat], faults' \in 0..MaxFaults
  PROVE  Inductive'
<1>1. RowsOK' /\ Evolves /\ ClockOK'
  BY IdleRows
<1>2. ProcsOK /\ ProcsType /\ ApprovalsOK
  BY InductiveParts DEF ProcsOK
<1>3. MovedTo(p, "idle", None, "unknown")
  BY <1>2, DoneMoves
<1>4. ProcsOK'
  BY <1>1, <1>2, <1>3, ApprovalsStay, QuietSenders, ProcessEnds
<1> QED BY <1>1, <1>4, DriveStep

LEMMA ReleaseDisputeInductive ==
  ASSUME Inductive, NEW p \in Procs, ReleaseDispute(p)
  PROVE  Inductive'
<1>1. /\ pc[p] = "release" /\ Finish(p)
      /\ UNCHANGED <<phase, arrived, checkedIn, refunded, order, refund, approvals,
                     docked, world, faults>>
  BY DEF ReleaseDispute
<1>2. task[p] \in TaskSet /\ task[p].booking \in Bookings /\ CarrierOK(p) /\ RowsOK /\ ClockOK
  BY <1>1, Busy
<1>3. RowsOK' /\ Evolves /\ disputes'[task[p].booking][task[p].dispute] = "RESOLVED"
  BY <1>2, ReleaseDisputeRows
<1>4. ASSUME task[p].approval # None
      PROVE  Effected(task[p].approval)'
  <2>1. PICK id : id = task[p].approval
    OBVIOUS
  <2>2. id.kind = "DISPUTE_RELEASE" /\ id.booking = task[p].booking /\ id.dispute = task[p].dispute
    BY <1>1, <1>2, <1>4, <2>1 DEF CarrierOK
  <2>3. id = task'[p].approval
    BY <1>1, <1>2, <1>4, <2>1 DEF Finish, Goto
  <2> QED BY <1>3, <2>2, <2>3 DEF Effected
<1>5. ProcsOK'
  BY <1>1, <1>3, <1>4, Finishes
<1>6. ClockOK'
  BY <1>1, <1>2 DEF ClockOK
<1> QED BY <1>1, <1>3, <1>5, <1>6, DriveStep

LEMMA ReleaseNothingInductive ==
  ASSUME Inductive, NEW p \in Procs, ReleaseNothing(p)
  PROVE  Inductive'
<1>1. /\ pc[p] = "release"
      /\ UNCHANGED <<phase, booking, money, refund, approvals, docked, world, faults>>
  BY DEF ReleaseNothing
<1>2. /\ task[p] \in TaskSet /\ task[p].booking \in Bookings /\ CarrierOK(p)
      /\ RowsOK /\ ClockOK
  BY <1>1, Busy
<1>3. RowsOK' /\ Evolves /\ ClockOK'
  BY <1>1, <1>2, IdleRows DEF ClockOK
<1>4. CASE Done(p)
  BY <1>1, <1>2, <1>4, EndStep DEF ClockOK
<1>5. CASE Finish(p) /\ ~ Done(p)
  <2>7. PICK b \in Bookings : b = task[p].booking
    BY <1>2
  <2>1. PICK d : b = task[p].booking /\ d = task[p].dispute
    BY <2>7
  <2>2. d \notin Unresolved(b)
    BY <1>5, <2>1 DEF ReleaseNothing
  <2>3. d \in 1..Len(disputes[b])
    <3>1. task[p].kind = "DISPUTE_RELEASE" /\ task[p].dispute # 0
      BY <1>1, <1>2 DEF CarrierOK, DisputeKinds
    <3>2. d \in 0..Len(disputes[b]) /\ d # 0 /\ d \in Nat
      BY <1>1, <1>2, <2>1, <3>1 DEF CarrierOK, TaskSet
    <3> QED BY <3>2
  <2>4. disputes'[b][d] = "RESOLVED"
    BY <1>1, <2>2, <2>3 DEF Unresolved
  <2>5. ASSUME task[p].approval # None
        PROVE  Effected(task[p].approval)'
    <3>1. PICK id : id = task[p].approval
      OBVIOUS
    <3>2. id.kind = "DISPUTE_RELEASE" /\ id.booking = b /\ id.dispute = d
      BY <1>1, <1>2, <2>1, <2>5, <3>1 DEF CarrierOK
    <3>3. id = task'[p].approval
      BY <1>1, <1>5, <2>5, <3>1 DEF Finish, Goto
    <3> QED BY <2>4, <3>2, <3>3 DEF Effected
  <2>6. ProcsOK'
    BY <1>1, <1>3, <1>5, <2>5, Finishes
  <2> QED BY <1>1, <1>3, <2>6, DriveStep
<1>6. Done(p) \/ Finish(p)
  BY DEF ReleaseNothing
<1> QED BY <1>4, <1>5, <1>6

LEMMA ReserveInductive ==
  ASSUME Inductive, NEW p \in Procs, Reserve(p)
  PROVE  Inductive'
<1>1. /\ pc[p] = "reserve" /\ Goto(p, "begin")
      /\ UNCHANGED <<phase, booking, money, approvals, docked, world, faults>>
  BY DEF Reserve
<1>2. PICK t \in TaskSet : t = task[p]
  BY <1>1, Busy
<1>3. PICK b \in Bookings : b = t.booking
  BY <1>2 DEF TaskSet
<1>4. CarrierOK(p) /\ ProcsOK /\ ProcsType /\ RowsOK /\ ApprovalsOK /\ ClockOK
  BY <1>1, Busy
<1>5. ClockOK'
  BY <1>1, <1>4 DEF ClockOK
<1>6. Agreeing /\ Approving
  BY <1>1, <1>4, ApprovalsStay
<1>7. MovedTo(p, "begin", task[p], ev[p])
  BY <1>1, <1>4, GotoMoves DEF Labels
<1>8. pc'[p] = "begin" /\ task'[p] = task[p]
  BY <1>7 DEF MovedTo
<1>9. CASE op[b] # "NONE"
  <2>1. UNCHANGED refund
    BY <1>2, <1>3, <1>9 DEF Reserve
  <2>2. RowsOK' /\ Evolves
    BY <1>1, <1>4, <1>6, <2>1, RowsRest
  <2>3. DriverOK(p)'
    BY <1>2, <1>3, <1>8, <1>9, <2>1 DEF DriverOK, Sender
  <2>4. ProcsOK'
    BY <1>1, <1>7, <2>2, <2>3, GoesOn DEF Labels
  <2> QED BY <1>1, <1>5, <2>1, <2>2, <2>4, DriveStep
<1>10. CASE op[b] = "NONE"
  <2>1. PICK i : i = [precursor |-> t.precursor, window |-> "NONE", dispute |-> t.dispute,
                   by |-> t.kind]
    OBVIOUS
  <2>2. /\ Refundable(b, t.precursor)
        /\ op' = [op EXCEPT ![b] = "PENDING"] /\ intent' = [intent EXCEPT ![b] = i]
        /\ UNCHANGED tried
    BY <1>2, <1>3, <1>10, <2>1 DEF Reserve
  <2>3. /\ i \in Intents
        /\ i.precursor = t.precursor /\ i.window = "NONE" /\ i.dispute = t.dispute /\ i.by = t.kind
    BY <1>2, <2>1 DEF TaskSet, Intents
  <2>4. RowsOK' /\ Evolves
    BY <1>1, <1>4, <1>10, <2>2, <2>3, ReservationRows
  <2>5. op'[b] = "PENDING" /\ intent'[b] = i /\ \A c \in Bookings \ {b} : intent'[c] = intent[c]
    BY <1>4, <2>2 DEF RowsOK, RowsType
  <2>6. DriverOK(p)'
    BY <1>2, <1>3, <1>8, <2>5 DEF DriverOK, Sender
  <2>7. ProcsOK'
    BY <1>1, <1>7, <2>4, <2>6, GoesOn DEF Labels
  <2>8. DecidedByTwo(b)'
    <3>1. /\ t.kind # "CLIENT_CANCEL"
          /\ t.dispute # 0 => t.kind = "DISPUTE_REFUND"
      BY <1>1, <1>2, <1>4 DEF CarrierOK, DisputeKinds
    <3>2. ASSUME b \in Large, t.kind \in {"REFUND", "DISPUTE_REFUND"}
          PROVE  Agreed(t.kind, b, t.dispute)'
      <4>1. /\ t.approval # None /\ AgreedOn(t.approval)
            /\ t.approval.kind = t.kind /\ t.approval.booking = t.booking
            /\ t.approval.dispute = t.dispute
        BY <1>1, <1>2, <1>3, <1>4, <3>2 DEF CarrierOK, DisputeKinds
      <4>2. PICK a \in approvals : a.id = t.approval /\ a.status # "PENDING"
        BY <4>1 DEF AgreedOn
      <4> QED BY <1>1, <1>3, <4>1, <4>2 DEF Agreed
    <3> QED BY <2>3, <2>5, <3>1, <3>2 DEF DecidedByTwo, Agreed
  <2>9. approvals' \subseteq [id : ApprovalIds, status : {"PENDING", "APPROVED", "EXECUTED"}]
    BY <1>1, <1>4 DEF ApprovalsOK
  <2>10. ApprovalsOK'
    BY <1>1, <1>4, <1>6, <2>4, <2>5, <2>8, <2>9, ApprovalsStep
  <2> QED BY <1>5, <2>4, <2>7, <2>10, InductiveParts
<1> QED BY <1>9, <1>10

LEMMA ReserveRefusedInductive ==
  ASSUME Inductive, NEW p \in Procs, ReserveRefused(p)
  PROVE  Inductive'
  BY InductiveParts, EndStep DEF ReserveRefused, ClockOK

\* The caller of an operation that is settled already.
LEMMA SettledInductive ==
  ASSUME Inductive, NEW p \in Procs, DriveSettled(p) \/ FinalizeNothing(p)
  PROVE  Inductive'
<1>1. /\ pc[p] \in {"begin", "finalize"}
      /\ UNCHANGED <<phase, booking, money, refund, approvals, docked, world, faults>>
  BY DEF DriveSettled, FinalizeNothing
<1>2. ProcsOK /\ ApprovalsOK /\ ClockOK
  BY InductiveParts
<1>3. CASE op[task[p].booking] = "RECORDED"
  <2>1. Recorded(p)
    BY <1>3 DEF DriveSettled, FinalizeNothing
  <2>2. RowsOK' /\ Evolves /\ ClockOK'
    BY <1>1, <1>2, IdleRows DEF ClockOK
  <2>3. Agreeing /\ Approving
    BY <1>1, <1>2, ApprovalsStay
  <2>4. ProcsOK'
    BY <1>1, <1>2, <1>3, <2>1, <2>2, <2>3, RecordedProcs
  <2> QED BY <1>1, <2>2, <2>4, DriveStep
<1>4. CASE op[task[p].booking] # "RECORDED"
  <2>1. Done(p)
    BY <1>4 DEF DriveSettled, FinalizeNothing
  <2> QED BY <1>1, <1>2, <2>1, EndStep DEF ClockOK
<1> QED BY <1>3, <1>4

\* Only the first attempt may send the refund, and nobody has sent it then.
LEMMA RunOperationInductive ==
  ASSUME Inductive, NEW p \in Procs, RunOperation(p)
  PROVE  Inductive'
<1>1. /\ pc[p] = "begin"
      /\ UNCHANGED <<phase, booking, money, op, intent, approvals, docked, world, faults>>
  BY DEF RunOperation
<1>2. PICK t \in TaskSet : t = task[p]
  BY <1>1, Busy
<1>3. PICK b \in Bookings : b = t.booking
  BY <1>2 DEF TaskSet
<1>4. CarrierOK(p) /\ ProcsOK /\ ProcsType /\ RowsOK /\ RowsType /\ ApprovalsOK /\ ClockOK
  BY <1>1, Busy DEF RowsOK
<1>5. ClockOK' /\ Agreeing /\ Approving
  BY <1>1, <1>4, ApprovalsStay DEF ClockOK
<1>6. RowsOK' /\ Evolves
  BY <1>2, <1>3, <1>4, RunOperationRows
<1>7. /\ op[b] \in {"PENDING", "PROVIDER_OK"} /\ ~ Awaiting(b)
      /\ tried' = (IF op[b] = "PENDING" THEN [tried EXCEPT ![b] = TRUE] ELSE tried)
  BY <1>2, <1>3 DEF RunOperation
<1>8. op'[b] # "NONE" /\ ~ Awaiting(b)' /\ RefundAmount(b)' = RefundAmount(b)
  BY <1>5, <1>6, <1>7, OperationKept
<1>9. ASSUME NEW label \in {"finalize", "verify"}, Goto(p, label)
      PROVE  ProcsOK'
  <2>1. MovedTo(p, label, task[p], ev[p])
    BY <1>4, <1>9, GotoMoves DEF Labels
  <2>2. DriverOK(p)'
    BY <1>2, <1>3, <1>8, <1>9, <2>1 DEF MovedTo, DriverOK, Sender
  <2> QED BY <1>1, <1>6, <1>9, <2>1, <2>2, GoesOn DEF Labels
<1>10. ASSUME GotoWith(p, "checkpoint", "success"), RefundAmount(b) = 0
       PROVE  ProcsOK'
  <2>1. MovedTo(p, "checkpoint", task[p], "success")
    BY <1>4, <1>10, GotoWithMoves DEF Labels, Evidence
  <2>2. DriverOK(p)'
    BY <1>2, <1>3, <1>8, <1>10, <2>1 DEF MovedTo, DriverOK, Sender
  <2> QED BY <1>1, <1>6, <2>1, <2>2, GoesOn DEF Labels
<1>11. ASSUME Goto(p, "check"), op[b] = "PENDING", RefundAmount(b) # 0, ~ tried[b]
       PROVE  ProcsOK'
  <2>1. MovedTo(p, "check", task[p], ev[p])
    BY <1>4, <1>11, GotoMoves DEF Labels
  <2>2. pc'[p] = "check" /\ task'[p] = task[p] /\ ev'[p] = ev[p]
    BY <2>1 DEF MovedTo
  <2>3. bank[b] = "none" /\ tried'[b]
    <3>1. tried \in [Bookings -> BOOLEAN] /\ RefundOK(b)
      BY <1>4 DEF RowsType, RowsOK
    <3> QED BY <1>7, <1>11, <3>1 DEF RefundOK
  <2>4. DriverOK(p)'
    BY <1>1, <1>2, <1>3, <1>8, <1>11, <2>2, <2>3 DEF DriverOK, Sender
  <2>5. CarrierOK(p)'
    <3>1. task[p].kind # "DISPUTE_RELEASE"
      BY <1>1, <1>4 DEF CarrierOK
    <3> QED BY <1>1, <1>2, <1>4, <1>5, <1>6, <2>2, <3>1, CarrierStep
  <2>6. \A q \in Procs \ {p} : Sender(q) => task[q].booking # task[p].booking
    BY <1>2, <1>3, <1>4, <1>11 DEF ProcsOK, DriverOK, Sender
  <2> QED BY <1>1, <1>4, <1>5, <1>6, <2>1, <2>4, <2>5, <2>6, QuietSenders, ProcessMoves
<1>12. \/ \E label \in {"finalize", "verify"} : Goto(p, label)
       \/ GotoWith(p, "checkpoint", "success") /\ RefundAmount(b) = 0
       \/ Goto(p, "check") /\ op[b] = "PENDING" /\ RefundAmount(b) # 0 /\ ~ tried[b]
  <2>1. CASE op[b] = "PROVIDER_OK"
    BY <1>2, <1>3, <2>1 DEF RunOperation
  <2>2. CASE op[b] = "PENDING" /\ RefundAmount(b) = 0
    BY <1>2, <1>3, <2>2 DEF RunOperation
  <2>3. CASE op[b] = "PENDING" /\ RefundAmount(b) # 0 /\ ~ tried[b]
    BY <1>2, <1>3, <2>3 DEF RunOperation
  <2>4. CASE op[b] = "PENDING" /\ RefundAmount(b) # 0 /\ tried[b]
    BY <1>2, <1>3, <2>4, Zenon DEF RunOperation
  <2> QED BY <1>7, <2>1, <2>2, <2>3, <2>4
<1>13. ProcsOK'
  BY <1>9, <1>10, <1>11, <1>12
<1> QED BY <1>1, <1>5, <1>6, <1>13, DriveStep

\* The provider is asked: it knows the refund, or it does not.
LEMMA EvidentOf ==
  ASSUME Inductive, NEW b \in Bookings
  PROVE  /\ Evident(b) \in Evidence
         /\ Evident(b) = "failed" => bank[b] = "failed"
         /\ Evident(b) = "success" => bank[b] = "processed"
         /\ Evident(b) = "unknown" => bank[b] \in {"none", "lost"}
<1>1. bank[b] \in BankStatus
  BY InductiveParts DEF RowsOK, RowsType
<1>2. CASE bank[b] \in {"none", "lost"}
  BY <1>2 DEF Evident, Evidence
<1>3. CASE bank[b] = "processed"
  BY <1>3 DEF Evident, Evidence
<1>4. CASE bank[b] \in {"pending", "failed"}
  <2>1. Evident(b) = bank[b]
    BY <1>4, Zenon DEF Evident
  <2> QED BY <1>4, <2>1 DEF Evidence
<1> QED BY <1>1, <1>2, <1>3, <1>4 DEF BankStatus

LEMMA CheckInductive ==
  ASSUME Inductive, NEW p \in Procs, Check(p) \/ Verify(p)
  PROVE  Inductive'
<1>1. /\ pc[p] \in {"check", "verify"}
      /\ UNCHANGED <<phase, booking, money, refund, approvals, docked, world, faults>>
  BY DEF Check, Verify
<1>2. PICK t \in TaskSet : t = task[p]
  BY <1>1, Busy
<1>3. PICK b \in Bookings : b = t.booking
  BY <1>2 DEF TaskSet
<1>4. /\ CarrierOK(p) /\ DriverOK(p)
      /\ ProcsOK /\ ProcsType /\ RowsOK /\ ApprovalsOK /\ ClockOK
  BY <1>1, Busy
<1>5. RowsOK' /\ Evolves /\ ClockOK'
  BY <1>1, <1>4, IdleRows DEF ClockOK
<1>6. Agreeing /\ Approving
  BY <1>1, <1>4, ApprovalsStay
<1>7. /\ op[b] # "NONE" /\ ~ Awaiting(b)
      /\ Sender(p) => tried[b] /\ bank[b] = "none" /\ RefundAmount(b) # 0
  BY <1>1, <1>2, <1>3, <1>4 DEF DriverOK
<1>8. op'[b] # "NONE" /\ ~ Awaiting(b)' /\ RefundAmount(b)' = RefundAmount(b)
  BY <1>5, <1>6, <1>7, OperationKept
<1>9. ASSUME NEW e \in Evidence, GotoWith(p, "checkpoint", e), e = Evident(b)
      PROVE  ProcsOK'
  <2>1. MovedTo(p, "checkpoint", task[p], e)
    BY <1>4, <1>9, GotoWithMoves DEF Labels
  <2>2. /\ e = "failed" => bank'[b] = "failed"
        /\ e = "success" => bank'[b] = "processed"
    BY <1>1, <1>9, EvidentOf
  <2>3. DriverOK(p)'
    BY <1>2, <1>3, <1>8, <2>1, <2>2 DEF MovedTo, DriverOK, Sender
  <2> QED BY <1>1, <1>5, <2>1, <2>3, GoesOn DEF Labels
<1>10. ASSUME Goto(p, "post"), pc[p] = "check"
       PROVE  ProcsOK'
  <2>1. MovedTo(p, "post", task[p], ev[p])
    BY <1>4, <1>10, GotoMoves DEF Labels
  <2>2. pc'[p] = "post" /\ task'[p] = task[p] /\ ev'[p] = ev[p]
    BY <2>1 DEF MovedTo
  <2>3. Sender(p)
    BY <1>10 DEF Sender
  <2>4. DriverOK(p)'
    BY <1>1, <1>2, <1>3, <1>7, <1>8, <2>2, <2>3 DEF DriverOK, Sender
  <2>5. CarrierOK(p)'
    <3>1. task[p].kind # "DISPUTE_RELEASE"
      BY <1>1, <1>4 DEF CarrierOK
    <3> QED BY <1>1, <1>2, <1>4, <1>5, <1>6, <2>2, <3>1, CarrierStep
  <2>6. \A q \in Procs \ {p} : Sender(q) => task[q].booking # task[p].booking
    BY <1>4, <2>3 DEF ProcsOK, OneSender
  <2> QED BY <1>1, <1>4, <1>5, <1>6, <2>1, <2>4, <2>5, <2>6, QuietSenders, ProcessMoves
<1>11. \/ GotoWith(p, "checkpoint", Evident(b))
       \/ Goto(p, "post") /\ pc[p] = "check"
  BY <1>2, <1>3 DEF Check, Verify
<1>12. ProcsOK'
  BY <1>9, <1>10, <1>11, EvidentOf
<1> QED BY <1>1, <1>5, <1>12, DriveStep

\* The request leaves once: the other senders are about other bookings.
LEMMA PostInductive ==
  ASSUME Inductive, NEW p \in Procs, Post(p) \/ PostLost(p)
  PROVE  Inductive'
<1>1. /\ pc[p] = "post"
      /\ UNCHANGED <<phase, booking, money, refund, approvals, docked>>
  BY DEF Post, PostLost
<1>2. PICK t \in TaskSet : t = task[p]
  BY <1>1, Busy
<1>3. PICK b \in Bookings : b = t.booking
  BY <1>2 DEF TaskSet
<1>4. /\ CarrierOK(p) /\ DriverOK(p)
      /\ ProcsOK /\ ProcsType /\ RowsOK /\ RowsType /\ ApprovalsOK /\ ClockOK
  BY <1>1, Busy DEF RowsOK
<1>5. RowsOK' /\ Evolves
  BY <1>1, <1>2, <1>3, <1>4, PostRows
<1>6. Agreeing /\ Approving
  BY <1>1, <1>4, ApprovalsStay
<1>7. ClockOK'
  <2>1. faults' \in 0..MaxFaults
    BY <1>4 DEF ClockOK, Post, PostLost, Fault
  <2> QED BY <1>1, <1>4, <2>1 DEF ClockOK
<1>8. \A q \in Procs \ {p} : Sender(q) => bank'[task[q].booking] = "none"
  <2> SUFFICES ASSUME NEW q \in Procs \ {p}, Sender(q)
               PROVE  bank'[task[q].booking] = "none"
    OBVIOUS
  <2>1. bank[task[q].booking] = "none"
    BY <1>4, NothingSent
  <2>2. Sender(p)
    BY <1>1 DEF Sender
  <2>3. task[q].booking # b
    BY <1>2, <1>3, <1>4, <2>2 DEF ProcsOK, OneSender
  <2>4. \A c \in Bookings \ {b} : bank'[c] = bank[c]
    <3>1. bank \in [Bookings -> BankStatus]
      BY <1>4 DEF RowsType
    <3> QED BY <1>2, <1>3, <3>1 DEF Post, PostLost
  <2>5. task[q].booking \in Bookings
    BY <1>4 DEF ProcsOK, DriverOK, Sender, TaskSet
  <2> QED BY <2>1, <2>3, <2>4, <2>5
<1>9. CASE Post(p)
  <2>1. PICK answer \in {"pending", "processed", "failed"} :
          /\ bank' = [bank EXCEPT ![b] = answer]
          /\ GotoWith(p, "checkpoint", IF answer = "processed" THEN "success" ELSE answer)
    BY <1>2, <1>3, <1>9 DEF Post
  <2>2. PICK e \in Evidence : e = IF answer = "processed" THEN "success" ELSE answer
    BY DEF Evidence
  <2>3. MovedTo(p, "checkpoint", task[p], e)
    BY <1>4, <2>1, <2>2, GotoWithMoves DEF Labels
  <2>4. pc'[p] = "checkpoint" /\ task'[p] = task[p] /\ ev'[p] = e
    BY <2>3 DEF MovedTo
  <2>5. bank'[b] = answer
    BY <1>4, <2>1 DEF RowsType
  <2>6. op[b] # "NONE" /\ ~ Awaiting(b)
    BY <1>1, <1>2, <1>3, <1>4 DEF DriverOK
  <2>7. op'[b] # "NONE" /\ ~ Awaiting(b)'
    BY <1>5, <1>6, <2>6, OperationKept
  <2>8. DriverOK(p)'
    BY <1>2, <1>3, <2>2, <2>4, <2>5, <2>7 DEF DriverOK, Sender
  <2>9. CarrierOK(p)'
    <3>1. task[p].kind # "DISPUTE_RELEASE"
      BY <1>1, <1>4 DEF CarrierOK
    <3> QED BY <1>1, <1>2, <1>4, <1>5, <1>6, <2>4, <3>1, CarrierStep
  <2>10. ProcsOK'
    BY <1>4, <1>5, <1>6, <1>8, <2>3, <2>8, <2>9, ProcessMoves
  <2> QED BY <1>1, <1>5, <1>7, <2>10, DriveStep
<1>10. CASE PostLost(p)
  <2>1. MovedTo(p, "idle", None, "unknown")
    BY <1>4, <1>10, DoneMoves DEF PostLost
  <2>2. ProcsOK'
    BY <1>4, <1>5, <1>6, <1>8, <2>1, ProcessEnds
  <2> QED BY <1>1, <1>5, <1>7, <2>2, DriveStep
<1> QED BY <1>9, <1>10

LEMMA CheckpointInductive ==
  ASSUME Inductive, NEW p \in Procs, Checkpoint(p)
  PROVE  Inductive'
<1>1. /\ pc[p] = "checkpoint" /\ Goto(p, "finalize")
      /\ UNCHANGED <<phase, booking, money, tried, intent, approvals, docked, world, faults>>
  BY DEF Checkpoint
<1>2. PICK t \in TaskSet : t = task[p]
  BY <1>1, Busy
<1>3. PICK b \in Bookings : b = t.booking
  BY <1>2 DEF TaskSet
<1>4. DriverOK(p) /\ ProcsType /\ RowsOK /\ ClockOK /\ op[b] # "NONE"
  BY <1>1, <1>2, <1>3, Busy DEF DriverOK
<1>5. RowsOK' /\ Evolves
  BY <1>1, <1>2, <1>3, <1>4, CheckpointRows
<1>6. MovedTo(p, "finalize", task[p], ev[p])
  BY <1>1, <1>4, GotoMoves DEF Labels
<1>7. op'[b] # "NONE"
  BY <1>4, <1>5 DEF Evolves
<1>8. DriverOK(p)'
  BY <1>2, <1>3, <1>6, <1>7 DEF MovedTo, DriverOK, Sender
<1>9. ProcsOK'
  BY <1>1, <1>5, <1>6, <1>8, GoesOn DEF Labels
<1>10. ClockOK'
  BY <1>1, <1>4 DEF ClockOK
<1> QED BY <1>1, <1>5, <1>9, <1>10, DriveStep

LEMMA FinalizeInductive ==
  ASSUME Inductive, NEW p \in Procs, Finalize(p)
  PROVE  Inductive'
<1>1. /\ pc[p] = "finalize" /\ Recorded(p)
      /\ UNCHANGED <<phase, arrived, checkedIn, tried, intent, approvals, docked, world, faults>>
  BY DEF Finalize
<1>2. /\ task[p].booking \in Bookings
      /\ ProcsOK /\ RowsOK /\ ApprovalsOK /\ ClockOK
  BY <1>1, Busy
<1>3. RowsOK' /\ Evolves /\ op'[task[p].booking] = "RECORDED"
  BY <1>2, FinalizeRows
<1>4. ProcsOK'
  BY <1>1, <1>2, <1>3, ApprovalsStay, RecordedProcs
<1>5. ClockOK'
  BY <1>1, <1>2 DEF ClockOK
<1> QED BY <1>1, <1>3, <1>4, <1>5, DriveStep

LEMMA PenaliseInductive ==
  ASSUME Inductive, NEW p \in Procs, Penalise(p)
  PROVE  Inductive'
<1>1. /\ pc[p] = "penalty" /\ Done(p)
      /\ docked' = [docked EXCEPT ![task[p].booking] = docked[task[p].booking] + 1]
      /\ UNCHANGED <<phase, booking, money, refund, approvals, world, faults>>
  BY DEF Penalise
<1>2. docked \in [Bookings -> Nat] /\ task[p].booking \in Bookings /\ faults \in 0..MaxFaults
  BY <1>1, Busy DEF ClockOK
<1>3. docked' \in [Bookings -> Nat]
  BY <1>1, <1>2
<1> QED BY <1>1, <1>2, <1>3, EndStep

\* The dispute is resolved after its refund, if it is not yet.
LEMMA RepairInductive ==
  ASSUME Inductive, NEW p \in Procs, Repair(p)
  PROVE  Inductive'
<1>1. /\ pc[p] = "repair" /\ Finish(p)
      /\ UNCHANGED <<phase, status, escrow, arrived, checkedIn, money, refund, approvals,
                     docked, world, faults>>
  BY DEF Repair
<1>2. PICK t \in TaskSet : t = task[p]
  BY <1>1, Busy
<1>3. PICK b \in Bookings, d \in Nat : b = t.booking /\ d = t.dispute
  BY <1>2 DEF TaskSet
<1>4. /\ CarrierOK(p) /\ DriverOK(p)
      /\ RowsOK /\ RowsType /\ ApprovalsOK /\ ClockOK
  BY <1>1, Busy DEF RowsOK
<1>5. disputes' = [disputes EXCEPT ![b][d] = "RESOLVED"]
  BY <1>2, <1>3 DEF Repair
<1>6. /\ disputes' \in [Bookings -> Seq({"OPEN", "UNDER_REVIEW", "RESOLVED"})]
      /\ \A c \in Bookings \ {b} : disputes'[c] = disputes[c]
      /\ Unresolved(b)' \subseteq Unresolved(b) /\ DisputesEvolve(b)
  BY <1>4, <1>5, DecidedDispute
<1>7. RowsOK' /\ Evolves
  BY <1>1, <1>4, <1>6, ApprovalsStay, DisputeRows
<1>8. ClockOK'
  BY <1>1, <1>4 DEF ClockOK
<1>9. ASSUME task[p].approval # None
      PROVE  Effected(task[p].approval)'
  <2>1. PICK id : id = task[p].approval
    OBVIOUS
  <2>2. id.kind # "DISPUTE_RELEASE" /\ id.booking = b
    BY <1>1, <1>2, <1>3, <1>4, <1>9, <2>1 DEF CarrierOK
  <2>3. op'[b] = "RECORDED"
    BY <1>1, <1>2, <1>3, <1>4 DEF DriverOK
  <2>4. id = task'[p].approval
    BY <1>1, <1>9, <2>1 DEF Finish, Goto
  <2> QED BY <2>2, <2>3, <2>4 DEF Effected
<1>10. ProcsOK'
  BY <1>1, <1>7, <1>9, Finishes
<1> QED BY <1>1, <1>7, <1>8, <1>10, DriveStep

\* An approval is reported done after its effect.
LEMMA MarkExecutedInductive ==
  ASSUME Inductive, NEW p \in Procs, MarkExecuted(p)
  PROVE  Inductive'
<1>1. PICK new : new = [id |-> task[p].approval, status |-> "EXECUTED"]
  OBVIOUS
<1>2. /\ pc[p] = "executed" /\ Done(p)
      /\ approvals' = {a \in approvals : a.id # task[p].approval} \cup {new}
      /\ UNCHANGED <<phase, booking, money, refund, docked, world, faults>>
  BY <1>1 DEF MarkExecuted
<1>3. PICK t \in TaskSet : t = task[p]
  BY <1>2, Busy
<1>4. PICK id \in ApprovalIds : id = t.approval
  BY <1>2, <1>3, Busy DEF CarrierOK, TaskSet
<1>5. /\ ProcsOK /\ ProcsType /\ RowsOK /\ ApprovalsOK /\ ClockOK
      /\ id.kind = t.kind /\ id.booking = t.booking /\ id.dispute = t.dispute
      /\ t.dispute \in 0..Len(disputes[t.booking])
      /\ t.dispute # 0 <=> t.kind \in DisputeKinds
      /\ Effected(id)
  BY <1>2, <1>3, <1>4, Busy DEF CarrierOK
<1>6. new.id = id /\ new.status = "EXECUTED"
  BY <1>1, <1>3, <1>4
<1>7. new \in [id : ApprovalIds, status : {"PENDING", "APPROVED", "EXECUTED"}]
  BY <1>1, <1>3, <1>4
<1>8. approvals' \subseteq [id : ApprovalIds, status : {"PENDING", "APPROVED", "EXECUTED"}]
  BY <1>2, <1>5, <1>7 DEF ApprovalsOK
<1>9. Agreeing
  BY <1>2, <1>3, <1>4, <1>6 DEF Agreeing, AgreedOn
<1>10. Approving
  BY <1>8, <1>9, StillApproved
<1>11. RowsOK' /\ Evolves
  BY <1>2, <1>5, <1>10, RowsRest
<1>12. Effected(id)' /\ disputes' = disputes /\ op' = op
  BY <1>2, <1>5 DEF Effected
<1>13. id.kind = "CLIENT_CANCEL" => op[id.booking] # "NONE"
  BY <1>5 DEF Effected
<1>14. ApprovalOK(new)'
  BY <1>5, <1>6, <1>12, <1>13 DEF ApprovalOK
<1>15. ApprovalsOK'
  BY <1>2, <1>5, <1>8, <1>9, <1>11, <1>14, ApprovalsStep
<1>16. MovedTo(p, "idle", None, "unknown")
  BY <1>2, <1>5, DoneMoves
<1>17. ProcsOK'
  BY <1>2, <1>5, <1>9, <1>10, <1>11, <1>16, QuietSenders, ProcessEnds
<1>18. ClockOK'
  BY <1>2, <1>5 DEF ClockOK
<1> QED BY <1>11, <1>15, <1>17, <1>18, InductiveParts

LEMMA CrashInductive ==
  ASSUME Inductive, NEW p \in Procs, Crash(p)
  PROVE  Inductive'
<1>1. faults' \in 0..MaxFaults /\ docked' \in [Bookings -> Nat]
  BY InductiveParts DEF Crash, Fault, ClockOK
<1> QED BY <1>1, EndStep DEF Crash

-----------------------------------------------------------------------------
(* The inductive invariant.                                                *)

LEMMA InitInductive == Init => Inductive
<1> SUFFICES ASSUME Init
             PROVE  Inductive
  OBVIOUS
<1>1. RowsType
  <2>1. <<>> \in Seq({"OPEN", "UNDER_REVIEW", "RESOLVED"})
    OBVIOUS
  <2>2. NoIntent \in Intents
    BY DEF NoIntent, Precursors, Intents
  <2> QED BY <2>1, <2>2 DEF Init, RowsType, BookingStatus, EscrowStatus, OpStatus, BankStatus
<1>2. \A b \in Bookings : Balance(b) = Gross(b)
  BY <1>1, WholeBalance DEF Init
<1>3. OrderAddsUp
  <2>1. Divides
    BY <1>2 DEF Init, Divides
  <2>2. OrderAgrees
    BY DEF Init, OrderAgrees
  <2> QED BY <2>1, <2>2 DEF OrderAddsUp
<1>4. ASSUME NEW b \in Bookings
      PROVE  RefundOK(b) /\ DisputesOK(b) /\ DecidedByTwo(b)
  <2>1. intent[b].window = "NONE" /\ intent[b].dispute = 0 /\ intent[b].by = "NONE"
    BY DEF Init, NoIntent
  <2>2. RefundOK(b)
    BY <2>1 DEF Init, RefundOK
  <2>3. Unresolved(b) = {}
    <3>1. disputes[b] = <<>>
      BY DEF Init
    <3>2. Len(<<>>) = 0
      OBVIOUS
    <3> QED BY <3>1, <3>2 DEF Unresolved
  <2>4. DisputesOK(b)
    BY <2>3 DEF Init, DisputesOK
  <2> QED BY <2>1, <2>2, <2>4 DEF DecidedByTwo
<1>5. ProcsOK
  BY DEF Init, ProcsOK, ProcsType, OneSender, Sender, DriverOK, CarrierOK, Labels, Evidence
<1>6. ApprovalsOK /\ ClockOK
  BY <1>4 DEF Init, ApprovalsOK, ClockOK
<1> QED BY <1>1, <1>3, <1>4, <1>5, <1>6, InductiveParts DEF RowsOK

LEMMA StutterInductive ==
  ASSUME Inductive, UNCHANGED vars
  PROVE  Inductive'
<1>1. UNCHANGED <<approvals, intent, procs, bank>>
  BY DEF vars
<1>2. RowsOK' /\ Evolves /\ ClockOK'
  BY InductiveParts, IdleRows DEF vars, ClockOK
<1> QED BY <1>1, <1>2, QuietSenders, QuietStep

\* One lemma per kind of step.
LEMMA NextInductive == Inductive /\ [Next]_vars => Inductive'
<1> SUFFICES ASSUME Inductive, [Next]_vars
             PROVE  Inductive'
  OBVIOUS
<1>1. CASE Tick
  BY <1>1, TickInductive
<1>2. ASSUME NEW b \in Bookings,
             \/ AssertArrival(b) \/ CheckIn(b) \/ Complete(b) \/ AutoComplete(b)
             \/ \E party \in {"CLIENT", "USHER"} : OpenDispute(b, party)
             \/ Arrive(b) \/ BankSettles(b)
             \/ \E admin \in Admins :
                 \/ ProposeRefund(admin, b) \/ ProposeCancellation(admin, b)
                 \/ \E d \in 1..MaxDisputes, kind \in DisputeKinds :
                     ProposeResolution(admin, b, d, kind)
      PROVE  Inductive'
  <2>1. CASE AssertArrival(b) \/ CheckIn(b) \/ Complete(b) \/ AutoComplete(b)
    BY <2>1, AttendanceInductive
  <2>2. CASE \E party \in {"CLIENT", "USHER"} : OpenDispute(b, party)
    BY <2>2, OpenDisputeInductive
  <2>3. CASE Arrive(b) \/ BankSettles(b)
    BY <2>3, ProviderInductive
  <2>4. CASE \E admin \in Admins : ProposeRefund(admin, b) \/ ProposeCancellation(admin, b)
    BY <2>4, ProposeInductive
  <2>5. CASE \E admin \in Admins, d \in 1..MaxDisputes, kind \in DisputeKinds :
                ProposeResolution(admin, b, d, kind)
    BY <2>5, ProposeResolutionInductive
  <2> QED BY <1>2, <2>1, <2>2, <2>3, <2>4, <2>5
<1>3. ASSUME NEW p \in Procs, Drive(p) \/ PostLost(p) \/ Crash(p)
      PROVE  Inductive'
  <2>1. CASE ReleaseDispute(p) \/ ReleaseNothing(p)
    BY <2>1, ReleaseDisputeInductive, ReleaseNothingInductive
  <2>2. CASE Reserve(p) \/ ReserveRefused(p)
    BY <2>2, ReserveInductive, ReserveRefusedInductive
  <2>3. CASE DriveSettled(p) \/ FinalizeNothing(p)
    BY <2>3, SettledInductive
  <2>4. CASE RunOperation(p) \/ Checkpoint(p) \/ Finalize(p)
    BY <2>4, RunOperationInductive, CheckpointInductive, FinalizeInductive
  <2>5. CASE Check(p) \/ Verify(p)
    BY <2>5, CheckInductive
  <2>6. CASE Post(p) \/ PostLost(p)
    BY <2>6, PostInductive
  <2>7. CASE Penalise(p) \/ Repair(p) \/ MarkExecuted(p) \/ Crash(p)
    BY <2>7, PenaliseInductive, RepairInductive, MarkExecutedInductive, CrashInductive
  <2> QED BY <1>3, <2>1, <2>2, <2>3, <2>4, <2>5, <2>6, <2>7 DEF Drive
<1>4. ASSUME NEW p \in Procs, NEW b \in Bookings, Request(p, b)
      PROVE  Inductive'
  <2>1. CASE \E d \in 1..MaxDisputes, kind \in DisputeKinds : ResolveDispute(p, b, d, kind)
    BY <2>1, ResolveDisputeInductive
  <2>2. CASE ClientCancels(p, b)
    BY <2>2, ClientCancelsInductive
  <2> QED BY <1>4, <2>1, <2>2, RequestsInductive DEF Request
<1>5. ASSUME NEW p \in Procs, NEW admin \in Admins, Decide(p, admin)
      PROVE  Inductive'
  BY <1>5, ApproveInductive, RejectInductive DEF Decide
<1>6. ASSUME NEW p \in Procs, NEW a \in approvals, ResumeApproval(p, a)
      PROVE  Inductive'
  BY <1>6, ResumeInductive
<1>7. CASE UNCHANGED vars
  BY <1>7, StutterInductive
<1> QED BY <1>1, <1>2, <1>3, <1>4, <1>5, <1>6, <1>7 DEF Next

\* The rows, the processes and the approvals stay in order in every behaviour.
THEOREM InductiveInvariant == Spec => []Inductive
  BY InitInductive, NextInductive, PTL DEF Spec

-----------------------------------------------------------------------------
(* Disputes are resolved as two administrators decided.                    *)

ResolvedIn(b, d) == d \in 1..Len(disputes[b]) /\ disputes[b][d] = "RESOLVED"
DecidedFor(b, d) == \/ Agreed("DISPUTE_RELEASE", b, d)
                    \/ op[b] = "RECORDED" /\ Agreed("DISPUTE_REFUND", b, d)

\* A step whose new resolutions were decided, and that keeps earlier decisions.
LEMMA ResolutionsDecided ==
  ASSUME ResolvedByTwo, Large \subseteq Bookings, Agreeing,
         \A b \in Bookings : op[b] = "RECORDED" => op'[b] = "RECORDED",
         \A b \in Large : \A d : ResolvedIn(b, d)' => ResolvedIn(b, d) \/ DecidedFor(b, d)'
  PROVE  ResolvedByTwo'
<1> SUFFICES ASSUME NEW b \in Large, NEW d, ResolvedIn(b, d)'
             PROVE  DecidedFor(b, d)'
  BY DEF ResolvedByTwo, ResolvedIn, DecidedFor
<1>1. CASE ResolvedIn(b, d)
  <2>1. DecidedFor(b, d)
    BY <1>1 DEF ResolvedByTwo, ResolvedIn, DecidedFor
  <2>2. /\ Agreed("DISPUTE_RELEASE", b, d) => Agreed("DISPUTE_RELEASE", b, d)'
        /\ Agreed("DISPUTE_REFUND", b, d) => Agreed("DISPUTE_REFUND", b, d)'
    BY AgreedStands
  <2> QED BY <2>1, <2>2 DEF DecidedFor
<1>2. CASE ~ ResolvedIn(b, d)
  BY <1>2
<1> QED BY <1>1, <1>2

\* Only what is written as RESOLVED is newly resolved.
LEMMA WrittenResolution ==
  ASSUME RowsType, NEW b \in Bookings, NEW d \in Nat, NEW x,
         disputes' = [disputes EXCEPT ![b][d] = x],
         NEW c \in Bookings, NEW e, ResolvedIn(c, e)', ~ ResolvedIn(c, e)
  PROVE  c = b /\ e = d /\ x = "RESOLVED"
<1>1. disputes \in [Bookings -> Seq({"OPEN", "UNDER_REVIEW", "RESOLVED"})]
  BY DEF RowsType
<1>2. PICK old : old = disputes[b] /\ old \in Seq({"OPEN", "UNDER_REVIEW", "RESOLVED"})
  BY <1>1
<1>3. PICK new : new = [old EXCEPT ![d] = x]
  OBVIOUS
<1>4. disputes'[b] = new /\ \A y \in Bookings \ {b} : disputes'[y] = disputes[y]
  BY <1>1, <1>2, <1>3
<1>5. c = b
  BY <1>4 DEF ResolvedIn
<1>6. e \in 1..Len(new) /\ new[e] = "RESOLVED" /\ ~ (e \in 1..Len(old) /\ old[e] = "RESOLVED")
  BY <1>2, <1>4, <1>5 DEF ResolvedIn
<1>7. DOMAIN new = DOMAIN old /\ DOMAIN old = 1..Len(old) /\ Len(old) \in Nat
  BY <1>2, <1>3
<1>8. Len(new) = Len(old)
  BY <1>7
<1>9. \A i \in 1..Len(old) : new[i] = IF i = d THEN x ELSE old[i]
  BY <1>3, <1>7
<1> QED BY <1>5, <1>6, <1>8, <1>9

\* Reopening a dispute, or taking it under review, resolves none.
LEMMA UnresolvedWrite ==
  ASSUME RowsType, NEW b \in Bookings, NEW d \in Nat, NEW x, x # "RESOLVED",
         disputes' = [disputes EXCEPT ![b][d] = x]
  PROVE  \A c \in Bookings : \A e : ResolvedIn(c, e)' => ResolvedIn(c, e)
<1>1. SUFFICES ASSUME NEW c \in Bookings, NEW e, ResolvedIn(c, e)', ~ ResolvedIn(c, e)
               PROVE  FALSE
  OBVIOUS
<1>2. x = "RESOLVED"
  BY <1>1, WrittenResolution
<1> QED BY <1>2

\* What the steps do to approvals, recorded refunds and disputes.
LEMMA DecisionSteps ==
  ASSUME [Next]_vars
  PROVE  \/ UNCHANGED <<approvals, op, disputes>>
         \/ /\ UNCHANGED <<approvals, disputes>>
            /\ \E p \in Procs : \/ \E b \in Bookings : ClientCancels(p, b)
                                \/ Reserve(p) \/ Checkpoint(p)
         \/ /\ UNCHANGED <<op, disputes>>
            /\ \/ \E admin \in Admins, b \in Bookings :
                     ProposeRefund(admin, b) \/ ProposeCancellation(admin, b)
               \/ \E p \in Procs, admin \in Admins, a \in approvals : Approve(p, admin, a)
               \/ \E p \in Procs : MarkExecuted(p)
         \/ \E b \in Bookings : \E party : OpenDispute(b, party)
         \/ \E admin \in Admins, b \in Bookings, d \in 1..MaxDisputes, kind \in DisputeKinds :
              ProposeResolution(admin, b, d, kind)
         \/ \E admin \in Admins, a \in approvals : Reject(admin, a)
         \/ \E p \in Procs : ReleaseDispute(p) \/ Repair(p) \/ Finalize(p)
<1>1. CASE Tick \/ UNCHANGED vars
  BY <1>1 DEF Tick, vars, booking, refund
<1>2. ASSUME NEW b \in Bookings,
             \/ AssertArrival(b) \/ CheckIn(b) \/ Complete(b) \/ AutoComplete(b)
             \/ Arrive(b) \/ BankSettles(b)
      PROVE  UNCHANGED <<approvals, op, disputes>>
  BY <1>2 DEF AssertArrival, CheckIn, Complete, AutoComplete, Arrive, BankSettles, booking, refund
<1>3. ASSUME NEW b \in Bookings, NEW admin \in Admins,
             ProposeRefund(admin, b) \/ ProposeCancellation(admin, b)
      PROVE  UNCHANGED <<op, disputes>>
  BY <1>3 DEF ProposeRefund, ProposeCancellation, booking, refund
<1>4. ASSUME NEW p \in Procs,
             \/ ReleaseNothing(p) \/ ReserveRefused(p) \/ DriveSettled(p) \/ RunOperation(p)
             \/ Check(p) \/ Post(p) \/ Verify(p) \/ FinalizeNothing(p) \/ Penalise(p)
             \/ PostLost(p) \/ Crash(p)
      PROVE  UNCHANGED <<approvals, op, disputes>>
  BY <1>4 DEF ReleaseNothing, ReserveRefused, DriveSettled, RunOperation, Check, Post, Verify,
              FinalizeNothing, Penalise, PostLost, Crash, booking, refund
<1>5. ASSUME NEW p \in Procs, Reserve(p) \/ Checkpoint(p)
      PROVE  UNCHANGED <<approvals, disputes>>
  BY <1>5 DEF Reserve, Checkpoint, booking
<1>6. ASSUME NEW p \in Procs, MarkExecuted(p)
      PROVE  UNCHANGED <<op, disputes>>
  BY <1>6 DEF MarkExecuted, booking, refund
<1>7. ASSUME NEW p \in Procs, NEW b \in Bookings,
             \/ SweepNoShow(p, b) \/ UsherCancels(p, b) \/ AdminRefunds(p, b)
             \/ Recover(p, b) \/ Callback(p, b)
             \/ \E d \in 1..MaxDisputes, kind \in DisputeKinds : ResolveDispute(p, b, d, kind)
      PROVE  UNCHANGED <<approvals, op, disputes>>
  BY <1>7 DEF SweepNoShow, UsherCancels, AdminRefunds, Recover, Callback, ResolveDispute,
              booking, refund
<1>8. ASSUME NEW p \in Procs, NEW b \in Bookings, ClientCancels(p, b)
      PROVE  UNCHANGED <<approvals, disputes>>
  BY <1>8 DEF ClientCancels, booking
<1>9. ASSUME NEW p \in Procs, NEW admin \in Admins, NEW a \in approvals, Approve(p, admin, a)
      PROVE  UNCHANGED <<op, disputes>>
  BY <1>9 DEF Approve, booking, refund
<1>10. ASSUME NEW p \in Procs, NEW a \in approvals, ResumeApproval(p, a)
       PROVE  UNCHANGED <<approvals, op, disputes>>
  BY <1>10 DEF ResumeApproval, booking, refund
<1>11. CASE Tick \/ UNCHANGED vars
  BY <1>1, <1>11
<1>12. ASSUME NEW b \in Bookings,
              \/ AssertArrival(b) \/ CheckIn(b) \/ Complete(b) \/ AutoComplete(b)
              \/ \E party \in {"CLIENT", "USHER"} : OpenDispute(b, party)
              \/ Arrive(b) \/ BankSettles(b)
              \/ \E admin \in Admins :
                  \/ ProposeRefund(admin, b) \/ ProposeCancellation(admin, b)
                  \/ \E d \in 1..MaxDisputes, kind \in DisputeKinds :
                      ProposeResolution(admin, b, d, kind)
       PROVE  \/ UNCHANGED <<approvals, op, disputes>>
              \/ \E party : OpenDispute(b, party)
              \/ \E admin \in Admins :
                   \/ UNCHANGED <<op, disputes>>
                        /\ (ProposeRefund(admin, b) \/ ProposeCancellation(admin, b))
                   \/ \E d \in 1..MaxDisputes, kind \in DisputeKinds :
                        ProposeResolution(admin, b, d, kind)
  BY <1>2, <1>3, <1>12
<1>13. ASSUME NEW p \in Procs, Drive(p) \/ PostLost(p) \/ Crash(p)
       PROVE  \/ UNCHANGED <<approvals, op, disputes>>
              \/ UNCHANGED <<approvals, disputes>> /\ (Reserve(p) \/ Checkpoint(p))
              \/ UNCHANGED <<op, disputes>> /\ MarkExecuted(p)
              \/ ReleaseDispute(p) \/ Repair(p) \/ Finalize(p)
  BY <1>4, <1>5, <1>6, <1>13 DEF Drive
<1>14. ASSUME NEW p \in Procs, NEW b \in Bookings, Request(p, b)
       PROVE  \/ UNCHANGED <<approvals, op, disputes>>
              \/ UNCHANGED <<approvals, disputes>> /\ ClientCancels(p, b)
  BY <1>7, <1>8, <1>14 DEF Request
<1>15. ASSUME NEW p \in Procs, NEW admin \in Admins, Decide(p, admin)
       PROVE  \E a \in approvals : \/ UNCHANGED <<op, disputes>> /\ Approve(p, admin, a)
                                   \/ Reject(admin, a)
  BY <1>9, <1>15 DEF Decide
<1> QED BY <1>10, <1>11, <1>12, <1>13, <1>14, <1>15 DEF Next

LEMMA ResolutionStep == Inductive /\ ResolvedByTwo /\ [Next]_vars => ResolvedByTwo'
<1> SUFFICES ASSUME Inductive, ResolvedByTwo, [Next]_vars
             PROVE  ResolvedByTwo'
  OBVIOUS
<1>1. /\ Large \subseteq Bookings /\ RowsType /\ ProcsOK /\ ApprovalsOK
      /\ op \in [Bookings -> OpStatus] /\ \A b \in Bookings : DecidedByTwo(b)
  BY EscrowAssumption, InductiveParts DEF RowsOK, RowsType, ApprovalsOK
<1>2. ASSUME UNCHANGED disputes
      PROVE  \A b, d : ResolvedIn(b, d)' => ResolvedIn(b, d)
  BY <1>2 DEF ResolvedIn
<1>3. ASSUME UNCHANGED approvals
      PROVE  Agreeing /\ \A kind, b, d : Agreed(kind, b, d)' <=> Agreed(kind, b, d)
  BY <1>3 DEF Agreeing, AgreedOn, Agreed
<1>4. CASE UNCHANGED <<approvals, op, disputes>>
  BY <1>1, <1>2, <1>3, <1>4, ResolutionsDecided
<1>5. CASE /\ UNCHANGED <<approvals, disputes>>
           /\ \E p \in Procs : \/ \E b \in Bookings : ClientCancels(p, b)
                               \/ Reserve(p) \/ Checkpoint(p)
  <2>1. \A b \in Bookings : op[b] = "RECORDED" => op'[b] = "RECORDED"
    BY <1>1, <1>5 DEF ClientCancels, Reserve, Checkpoint
  <2> QED BY <1>1, <1>2, <1>3, <1>5, <2>1, ResolutionsDecided
<1>6. ASSUME Agreeing, UNCHANGED <<op, disputes>>
      PROVE  ResolvedByTwo'
  BY <1>1, <1>2, <1>6, ResolutionsDecided
<1>7. CASE \E admin \in Admins, b \in Bookings :
              /\ ProposeRefund(admin, b) \/ ProposeCancellation(admin, b)
              /\ UNCHANGED <<op, disputes>>
  <2>1. approvals \subseteq approvals'
    BY <1>7 DEF ProposeRefund, ProposeCancellation, Propose
  <2> QED BY <1>6, <1>7, <2>1 DEF Agreeing, AgreedOn
<1>8. CASE /\ \E p \in Procs, admin \in Admins, a \in approvals : Approve(p, admin, a)
           /\ UNCHANGED <<op, disputes>>
  <2>1. PICK p \in Procs, admin \in Admins, a \in approvals : Approve(p, admin, a)
    BY <1>8
  <2>2. a.status = "PENDING" /\ approvals \ {a} \subseteq approvals'
    BY <2>1 DEF Approve
  <2> QED BY <1>6, <1>8, <2>2 DEF Agreeing, AgreedOn
<1>9. CASE /\ \E p \in Procs : MarkExecuted(p)
           /\ UNCHANGED <<op, disputes>>
  <2>1. PICK p \in Procs : MarkExecuted(p)
    BY <1>9
  <2>2. PICK new : new = [id |-> task[p].approval, status |-> "EXECUTED"]
    OBVIOUS
  <2>3. approvals' = {a \in approvals : a.id # task[p].approval} \cup {new}
    BY <2>1, <2>2 DEF MarkExecuted
  <2>4. new.id = task[p].approval /\ new.status # "PENDING"
    BY <2>2
  <2> QED BY <1>6, <1>9, <2>3, <2>4 DEF Agreeing, AgreedOn
<1>10. CASE \E b \in Bookings : \E party : OpenDispute(b, party)
  <2>1. PICK b \in Bookings : \E party : OpenDispute(b, party)
    BY <1>10
  <2>2. /\ disputes' = [disputes EXCEPT ![b] = Append(disputes[b], "OPEN")]
        /\ UNCHANGED <<approvals, op>>
    BY <2>1 DEF OpenDispute, refund
  <2>3. PICK old : old = disputes[b] /\ old \in Seq({"OPEN", "UNDER_REVIEW", "RESOLVED"})
    BY <1>1 DEF RowsType
  <2>4. /\ Len(old) \in Nat /\ Len(Append(old, "OPEN")) = Len(old) + 1
        /\ Append(old, "OPEN")[Len(old) + 1] = "OPEN"
        /\ \A i \in 1..Len(old) : Append(old, "OPEN")[i] = old[i]
    BY ONLY <2>3, OpenedDispute
  <2>5. PICK new : new = Append(old, "OPEN")
    OBVIOUS
  <2>6. disputes'[b] = new /\ \A c \in Bookings \ {b} : disputes'[c] = disputes[c]
    BY <1>1, <2>2, <2>3, <2>5 DEF RowsType
  <2>7. ASSUME NEW c \in Bookings, NEW d, ResolvedIn(c, d)'
        PROVE  ResolvedIn(c, d)
    <3>1. CASE c # b
      BY <2>6, <2>7, <3>1 DEF ResolvedIn
    <3>2. CASE c = b
      <4>1. d \in 1..(Len(old) + 1) /\ new[d] = "RESOLVED"
        BY <2>4, <2>5, <2>6, <2>7, <3>2 DEF ResolvedIn
      <4>2. d # Len(old) + 1
        BY <2>4, <2>5, <4>1
      <4>3. d \in 1..Len(old)
        BY <2>4, <4>1, <4>2
      <4> QED BY <2>3, <2>4, <2>5, <3>2, <4>1, <4>3 DEF ResolvedIn
    <3> QED BY <3>1, <3>2
  <2> QED BY <1>1, <1>3, <2>2, <2>7, ResolutionsDecided
<1>11. CASE \E admin \in Admins, b \in Bookings, d \in 1..MaxDisputes, kind \in DisputeKinds :
              ProposeResolution(admin, b, d, kind)
  <2>1. PICK admin \in Admins, b \in Bookings, d \in 1..MaxDisputes, kind \in DisputeKinds :
              ProposeResolution(admin, b, d, kind)
    BY <1>11
  <2>2. /\ disputes' = [disputes EXCEPT ![b][d] = "UNDER_REVIEW"]
        /\ approvals \subseteq approvals' /\ UNCHANGED op /\ d \in Nat
    BY <2>1 DEF ProposeResolution, Propose, refund
  <2>3. \A c \in Bookings : \A e : ResolvedIn(c, e)' => ResolvedIn(c, e)
    BY <1>1, <2>2, UnresolvedWrite
  <2>4. Agreeing
    BY <2>2 DEF Agreeing, AgreedOn
  <2> QED BY <1>1, <2>2, <2>3, <2>4, ResolutionsDecided
<1>12. CASE \E admin \in Admins, a \in approvals : Reject(admin, a)
  <2>1. PICK admin \in Admins, a \in approvals : Reject(admin, a)
    BY <1>12
  <2>2. a.status = "PENDING" /\ approvals' = approvals \ {a} /\ UNCHANGED op
    BY <2>1 DEF Reject, refund
  <2>3. PICK id \in ApprovalIds : id = a.id
    BY <1>1 DEF ApprovalsOK
  <2>4. PICK b \in Bookings, d \in Nat : b = id.booking /\ d = id.dispute
    BY DEF ApprovalIds
  <2>5. UNCHANGED disputes \/ disputes' = [disputes EXCEPT ![b][d] = "OPEN"]
    BY <2>1, <2>3, <2>4 DEF Reject
  <2>6. \A c \in Bookings : \A e : ResolvedIn(c, e)' => ResolvedIn(c, e)
    <3>1. CASE UNCHANGED disputes
      BY <3>1 DEF ResolvedIn
    <3>2. CASE disputes' = [disputes EXCEPT ![b][d] = "OPEN"]
      BY <1>1, <3>2, UnresolvedWrite
    <3> QED BY <2>5, <3>1, <3>2
  <2>7. Agreeing
    BY <2>2 DEF Agreeing, AgreedOn
  <2> QED BY <1>1, <2>2, <2>6, <2>7, ResolutionsDecided
<1>13. CASE \E p \in Procs : ReleaseDispute(p) \/ Repair(p)
  <2>1. PICK p \in Procs : ReleaseDispute(p) \/ Repair(p)
    BY <1>13
  <2>2. pc[p] \in {"release", "repair"}
    BY <2>1 DEF ReleaseDispute, Repair
  <2>3. PICK t \in TaskSet : t = task[p]
    BY <2>2, Busy
  <2>4. PICK b \in Bookings, d \in Nat : b = t.booking /\ d = t.dispute
    BY <2>3 DEF TaskSet
  <2>5. /\ disputes' = [disputes EXCEPT ![b][d] = "RESOLVED"]
        /\ UNCHANGED <<approvals, op>>
    BY <2>1, <2>3, <2>4 DEF ReleaseDispute, Repair, refund
  <2>6. ASSUME NEW c \in Large, NEW e, ResolvedIn(c, e)'
        PROVE  ResolvedIn(c, e) \/ DecidedFor(c, e)'
    <3> SUFFICES ASSUME ~ ResolvedIn(c, e)
                 PROVE  DecidedFor(c, e)
      BY <1>3, <2>5 DEF DecidedFor
    <3>1. c = b /\ e = d
      BY <1>1, <2>5, <2>6, WrittenResolution
    <3>2. d # 0
      <4>1. disputes[b] \in Seq({"OPEN", "UNDER_REVIEW", "RESOLVED"})
        BY <1>1 DEF RowsType
      <4>2. e \in 1..Len(disputes'[c])
        BY <2>6 DEF ResolvedIn
      <4> QED BY <3>1, <4>2
    <3>3. CarrierOK(p) /\ DriverOK(p)
      BY <2>2, Busy
    <3>4. /\ t.kind \in DisputeKinds /\ t.approval # None /\ AgreedOn(t.approval)
          /\ t.approval.kind = t.kind /\ t.approval.booking = b /\ t.approval.dispute = d
      BY <2>2, <2>3, <2>4, <2>6, <3>1, <3>2, <3>3 DEF CarrierOK
    <3>5. Agreed(t.kind, b, d)
      BY <3>4 DEF AgreedOn, Agreed
    <3>6. pc[p] = "repair" => op[b] = "RECORDED" /\ t.kind = "DISPUTE_REFUND"
      BY <2>2, <2>3, <2>4, <3>3, <3>4 DEF CarrierOK, DriverOK, DisputeKinds
    <3>7. pc[p] = "release" => t.kind = "DISPUTE_RELEASE"
      BY <2>2, <2>3, <3>3 DEF CarrierOK
    <3> QED BY <2>2, <3>1, <3>5, <3>6, <3>7 DEF DecidedFor
  <2> QED BY <1>1, <1>3, <2>5, <2>6, ResolutionsDecided
<1>14. CASE \E p \in Procs : Finalize(p)
  <2>1. PICK p \in Procs : Finalize(p)
    BY <1>14
  <2>2. pc[p] = "finalize"
    BY <2>1 DEF Finalize
  <2>3. PICK b \in Bookings : b = task[p].booking
    BY <2>2, Busy
  <2>4. PICK d \in Nat : d = intent[b].dispute
    <3>1. intent[b] \in Intents
      BY <1>1 DEF RowsType
    <3>2. intent[b].dispute \in Nat
      BY ONLY <3>1, EscrowAssumption DEF Intents
    <3> QED BY <3>2
  <2>5. op' = [op EXCEPT ![b] = "RECORDED"] /\ UNCHANGED approvals
    BY <2>1, <2>3 DEF Finalize
  <2>6. UNCHANGED disputes \/ (d # 0 /\ disputes' = [disputes EXCEPT ![b][d] = "RESOLVED"])
    BY <2>1, <2>3, <2>4 DEF Finalize, SettleDivided, SettleCancelled, SettleRefund
  <2>7. ASSUME NEW c \in Large, NEW e, ResolvedIn(c, e)'
        PROVE  ResolvedIn(c, e) \/ DecidedFor(c, e)'
    <3> SUFFICES ASSUME ~ ResolvedIn(c, e)
                 PROVE  op'[c] = "RECORDED" /\ Agreed("DISPUTE_REFUND", c, e)'
      BY DEF DecidedFor
    <3>1. c = b /\ e = d /\ d # 0
      <4>1. ~ UNCHANGED disputes
        BY <1>2, <2>7
      <4>2. d # 0 /\ disputes' = [disputes EXCEPT ![b][d] = "RESOLVED"]
        BY <2>6, <4>1
      <4>3. c \in Bookings
        BY <1>1, <2>7
      <4> QED BY <1>1, <2>7, <4>2, <4>3, WrittenResolution
    <3>2. Agreed("DISPUTE_REFUND", b, d)
      BY <1>1, <2>4, <2>7, <3>1 DEF DecidedByTwo
    <3> QED BY <1>1, <1>3, <2>5, <3>1, <3>2
  <2>8. \A c \in Bookings : op[c] = "RECORDED" => op'[c] = "RECORDED"
    BY <1>1, <2>5
  <2> QED BY <1>1, <1>3, <2>5, <2>7, <2>8, ResolutionsDecided
<1> QED BY <1>4, <1>5, <1>7, <1>8, <1>9, <1>10, <1>11, <1>12, <1>13, <1>14, DecisionSteps

-----------------------------------------------------------------------------
(* The safety properties.                                                  *)

\* The rows, the provider's refund and the processes keep their types.
THEOREM TypeCorrect == Spec => []TypeOK
<1>1. Inductive => TypeOK
  BY DEF Inductive
<1> QED BY <1>1, InductiveInvariant, PTL

\* Every booking is divided exactly, and the order's status tells how.
THEOREM DividedExactly == Spec => []OrderAddsUp
<1>1. Inductive => OrderAddsUp
  BY DEF Inductive
<1> QED BY <1>1, InductiveInvariant, PTL

\* A refund that the provider has made, of a booking that has not been earned.
LEMMA RefundMade ==
  ASSUME Inductive, NEW b \in Bookings, bank[b] = "processed"
  PROVE  /\ released[b] + kept[b] + RefundAmount(b) <= Gross(b)
         /\ status[b] \in {"CONFIRMED", "DISPUTED", "CANCELLED", "NO_SHOW", "REFUNDED"}
<1>1. RowsType /\ RefundOK(b) /\ Divides
  BY InductiveParts DEF RowsOK, OrderAddsUp
<1>2. op[b] \in {"PENDING", "PROVIDER_OK", "RECORDED"}
  BY <1>1 DEF RowsType, RefundOK, OpStatus
<1>3. RefundAmount(b) \in 0..Gross(b) /\ Gross(b) \in Nat
  BY AmountBounds
<1>4. released[b] \in Nat /\ kept[b] \in Nat /\ refunded[b] \in Nat
  BY <1>1 DEF RowsType
<1>5. CASE op[b] \in {"PENDING", "PROVIDER_OK"}
  <2>1. Refundable(b, intent[b].precursor)
    BY <1>1, <1>5 DEF RefundOK
  <2>2. Balance(b) = Gross(b)
    BY <2>1 DEF Refundable
  <2>3. released[b] = 0 /\ kept[b] = 0
    BY <1>1, <2>2, WholeBalance
  <2> QED BY <1>3, <2>1, <2>3, RefundableFrom
<1>6. CASE op[b] = "RECORDED"
  <2>1. /\ status[b] \in {"CANCELLED", "REFUNDED"} /\ refunded[b] = RefundAmount(b)
        /\ escrow[b] \in {"RELEASED", "REFUNDED"}
    BY <1>1, <1>6 DEF RefundOK
  <2>2. Balance(b) = 0
    BY <1>1, <2>1 DEF Divides
  <2> QED BY <1>3, <1>4, <2>1, <2>2 DEF Balance
<1> QED BY <1>2, <1>5, <1>6

\* The client is refunded once, and the staff member never earns what was returned,
\* whatever the handlers, the jobs and the provider do in whatever order.
THEOREM RefundedOnce == Spec => []PaidOnce
<1>1. Inductive => PaidOnce
  <2> SUFFICES ASSUME Inductive
               PROVE  PaidOnce
    OBVIOUS
  <2>1. \A b \in Bookings : RefundOK(b)
    BY DEF Inductive
  <2>2. SentOnce
    BY <2>1 DEF SentOnce, RefundOK
  <2>3. NotPaidTwice
    <3> SUFFICES ASSUME NEW b \in Bookings, refunded[b] > 0
                 PROVE  bank[b] = "processed" /\ refunded[b] = RefundAmount(b)
      BY RefundMade DEF NotPaidTwice
    <3> QED BY <2>1 DEF RefundOK
  <2> QED BY <2>2, <2>3 DEF PaidOnce
<1> QED BY <1>1, InductiveInvariant, PTL

\* What the provider has returned, the ledger can record.
THEOREM AlwaysRecordable == Spec => []Recordable
<1>1. Inductive => Recordable
  BY DEF Inductive, RefundOK, Awaiting, Recordable
<1> QED BY <1>1, InductiveInvariant, PTL

\* A refund that takes effect was agreed on.
LEMMA EffectiveAgreed == Inductive => RefundedByTwo
<1> SUFFICES ASSUME Inductive, NEW b \in Large, Effective(b), intent[b].by \in TwoAdminRefunds
             PROVE  Agreed(intent[b].by, b, intent[b].dispute)
  BY DEF RefundedByTwo
<1>1. RefundOK(b) /\ DecidedByTwo(b) /\ \A a \in approvals : ApprovalOK(a)
  BY DEF Inductive
<1>2. CASE intent[b].by = "CLIENT_CANCEL"
  <2>1. intent[b].window # "NONE" /\ intent[b].dispute = 0
    BY <1>1, <1>2 DEF DecidedByTwo
  <2>2. CancellationApproved(b)
    BY <1>1, <2>1 DEF RefundOK, Effective, Awaiting
  <2>3. PICK a \in approvals : /\ a.id.kind = "CLIENT_CANCEL" /\ a.id.booking = b
                               /\ a.status \in {"APPROVED", "EXECUTED"}
    BY <2>2 DEF CancellationApproved
  <2>4. a.id.dispute = 0
    BY <1>1, <2>3 DEF ApprovalOK, DisputeKinds
  <2> QED BY <1>2, <2>1, <2>3, <2>4 DEF Agreed
<1>3. CASE intent[b].by # "CLIENT_CANCEL"
  BY <1>1, <1>3 DEF TwoAdminRefunds, DecidedByTwo
<1> QED BY <1>2, <1>3

\* No client's cancellation, administrator's refund or decided dispute of a large booking
\* takes effect before two administrators agreed on that very step, and an approval is
\* reported done after its effect.
THEOREM AgreedFirst == Spec => []ApprovalsHonoured
<1>1. Inductive => RefundedByTwo /\ ExecutedIsDone
  <2>1. Inductive => ExecutedIsDone
    BY DEF Inductive, ApprovalOK, Effected, ExecutedIsDone
  <2> QED BY <2>1, EffectiveAgreed
<1>2. Init => ResolvedByTwo
  <2> SUFFICES ASSUME Init, NEW b \in Large
               PROVE  Len(disputes[b]) = 0
    BY DEF ResolvedByTwo
  <2>1. disputes[b] = <<>>
    BY DEF Init
  <2> QED BY <2>1
<1>3. Inductive /\ ResolvedByTwo /\ [Next]_vars => ResolvedByTwo'
  BY ResolutionStep
<1>4. RefundedByTwo /\ ExecutedIsDone /\ ResolvedByTwo => ApprovalsHonoured
  BY DEF ApprovalsHonoured, TwoAdministrators
<1> QED BY <1>1, <1>2, <1>3, <1>4, InductiveInvariant, PTL DEF Spec

\* The staff member is paid for an undisputed booking that nobody is refunding.
THEOREM PaidUndisputed == Spec => []PaidIsUndisputed
<1>1. Inductive => PaidIsUndisputed
  BY DEF Inductive, DisputesOK, PaidIsUndisputed
<1> QED BY <1>1, InductiveInvariant, PTL

-----------------------------------------------------------------------------
(* The promise of the escrow.                                              *)

\* What the rows hold, in the terms of Custody.
Held == [b \in Bookings |-> CASE escrow[b] = "HELD" -> "held"
                              [] escrow[b] = "FROZEN" -> "frozen"
                              [] OTHER -> "spent"]
HeldAs(s) == CASE s = "HELD" -> "held" [] s = "FROZEN" -> "frozen" [] OTHER -> "spent"

LEMMA HeldAsEscrow == \A b \in Bookings : Held[b] = HeldAs(escrow[b])
  BY DEF Held, HeldAs

LEMMA HeldAsValues ==
  HeldAs("HELD") = "held" /\ HeldAs("FROZEN") = "frozen"
    /\ HeldAs("RELEASED") = "spent" /\ HeldAs("REFUNDED") = "spent"
  BY DEF HeldAs

LEMMA HeldMoves ==
  ASSUME RowsType, NEW b \in Bookings, NEW s, escrow' = [escrow EXCEPT ![b] = s]
  PROVE  Held' = [Held EXCEPT ![b] = HeldAs(s)]
<1>1. escrow \in [Bookings -> EscrowStatus]
  BY DEF RowsType
<1>2. Held = [x \in Bookings |-> HeldAs(escrow[x])] /\ Held' = [x \in Bookings |-> HeldAs(escrow'[x])]
  BY DEF Held, HeldAs
<1>3. \A x \in Bookings : escrow'[x] = IF x = b THEN s ELSE escrow[x]
  BY <1>1
<1>4. Held' = [x \in Bookings |-> IF x = b THEN HeldAs(s) ELSE HeldAs(escrow[x])]
  BY <1>2, <1>3
<1> QED BY <1>2, <1>4

\* A step that moves no money and opens or closes nothing.
LEMMA Stutters ==
  ASSUME UNCHANGED <<escrow, released, kept, refunded>>, (phase' = Deadline) <=> (phase = Deadline)
  PROVE  UNCHANGED Promise!vars
  BY DEF Promise!vars

\* A booking is divided.
LEMMA Spends ==
  ASSUME RowsType, NEW b \in Bookings, escrow[b] \in {"HELD", "FROZEN"},
         NEW s \in {"RELEASED", "REFUNDED"}, NEW x, NEW y, NEW z,
         escrow' = [escrow EXCEPT ![b] = s], released' = [released EXCEPT ![b] = x],
         kept' = [kept EXCEPT ![b] = y], refunded' = [refunded EXCEPT ![b] = z],
         phase' = phase
  PROVE  Promise!Spend(b, x, y, z)
<1>1. Held' = [Held EXCEPT ![b] = "spent"]
  <2>1. PICK h : h = HeldAs(s)
    OBVIOUS
  <2>2. h = "spent"
    BY <2>1, HeldAsValues
  <2>3. Held' = [Held EXCEPT ![b] = h]
    BY <2>1, HeldMoves
  <2> QED BY <2>2, <2>3
<1>2. Held[b] # "spent"
  BY HeldAsEscrow, HeldAsValues
<1> QED BY <1>1, <1>2 DEF Promise!Spend, Held

LEMMA Unwritten ==
  ASSUME NEW f, NEW S, f \in [Bookings -> S], NEW b \in Bookings, NEW x, f[b] = x
  PROVE  [f EXCEPT ![b] = x] = f
  OBVIOUS

LEMMA CompletionKeeps ==
  ASSUME Inductive, NEW b \in Bookings, Complete(b) \/ AutoComplete(b)
  PROVE  Promise!Earn(b) \/ UNCHANGED Promise!vars
<1>0. RowsType
  BY InductiveParts DEF RowsOK
<1>1. PICK early \in BOOLEAN : CompleteAndRelease(b, early)
  BY DEF Complete, AutoComplete
<1>2. phase' = phase /\ refunded' = refunded
  BY DEF Complete, AutoComplete
<1>3. CASE phase = Deadline
  <2>1. /\ escrow[b] = "HELD" /\ Balance(b) = Gross(b)
        /\ escrow' = [escrow EXCEPT ![b] = "RELEASED"]
        /\ released' = [released EXCEPT ![b] = Pay[b]] /\ kept' = [kept EXCEPT ![b] = Fee[b]]
    BY <1>1, <1>3 DEF CompleteAndRelease, Releasable
  <2>2. refunded[b] = 0 /\ refunded \in [Bookings -> Nat]
    BY <1>0, <2>1, WholeBalance DEF RowsType
  <2>3. refunded' = [refunded EXCEPT ![b] = 0]
    BY <1>2, <2>2, Unwritten
  <2>4. Promise!Spend(b, Pay[b], Fee[b], 0)
    BY <1>0, <1>2, <2>1, <2>3, Spends
  <2>5. Held[b] = "held"
    BY <2>1, HeldAsEscrow, HeldAsValues
  <2> QED BY <1>3, <2>4, <2>5 DEF Promise!Earn, Held
<1>4. CASE phase # Deadline
  <2>1. UNCHANGED <<escrow, released, kept>>
    BY <1>1, <1>4 DEF CompleteAndRelease
  <2> QED BY <1>2, <2>1, Stutters
<1> QED BY <1>3, <1>4

LEMMA OpenDisputeKeeps ==
  ASSUME Inductive, NEW b \in Bookings, NEW party, OpenDispute(b, party)
  PROVE  Promise!Freeze(b)
<1>1. /\ escrow[b] = "HELD" /\ phase < Deadline /\ phase \in Phases
      /\ escrow' = [escrow EXCEPT ![b] = "FROZEN"]
      /\ UNCHANGED <<phase, released, kept, refunded>>
  BY InductiveParts DEF OpenDispute, ClockOK
<1>2. Held' = [Held EXCEPT ![b] = "frozen"]
  BY <1>1, InductiveParts, HeldMoves, HeldAsValues DEF RowsOK
<1>3. Held[b] = "held"
  BY <1>1, HeldAsEscrow, HeldAsValues
<1>4. phase # Deadline
  BY <1>1 DEF Phases, Deadline
<1> QED BY <1>1, <1>2, <1>3, <1>4 DEF Promise!Freeze, Held

LEMMA ReleaseDisputeKeeps ==
  ASSUME Inductive, NEW p \in Procs, ReleaseDispute(p)
  PROVE  \E b \in Bookings : Promise!Thaw(b) \/ Promise!ThawAndEarn(b)
<1>1. PICK b \in Bookings : b = task[p].booking
  BY Busy DEF ReleaseDispute
<1>2. RowsType
  BY InductiveParts DEF RowsOK
<1>3. escrow[b] = "FROZEN" /\ Balance(b) = Gross(b) /\ UNCHANGED <<phase, refunded>>
  BY <1>1 DEF ReleaseDispute
<1>4. /\ released[b] = 0 /\ kept[b] = 0 /\ refunded[b] = 0
      /\ released \in [Bookings -> Nat] /\ kept \in [Bookings -> Nat]
      /\ refunded \in [Bookings -> Nat]
  BY <1>2, <1>3, WholeBalance DEF RowsType
<1>5. Held[b] = "frozen"
  BY <1>3, HeldAsEscrow, HeldAsValues
<1>6. CASE phase = Deadline
  <2>1. /\ escrow' = [escrow EXCEPT ![b] = "RELEASED"]
        /\ released' = [released EXCEPT ![b] = Pay[b]] /\ kept' = [kept EXCEPT ![b] = Fee[b]]
    BY <1>1, <1>6 DEF ReleaseDispute
  <2>2. refunded' = [refunded EXCEPT ![b] = 0]
    BY <1>3, <1>4, Unwritten
  <2>3. Promise!Spend(b, Pay[b], Fee[b], 0)
    BY <1>2, <1>3, <2>1, <2>2, Spends
  <2> QED BY <1>5, <1>6, <2>3 DEF Promise!ThawAndEarn, Held
<1>7. CASE phase # Deadline
  <2>1. /\ escrow' = [escrow EXCEPT ![b] = "HELD"]
        /\ released' = [released EXCEPT ![b] = 0] /\ kept' = [kept EXCEPT ![b] = 0]
    BY <1>1, <1>7 DEF ReleaseDispute
  <2>2. released' = released /\ kept' = kept
    BY <1>4, <2>1, Unwritten
  <2>3. Held' = [Held EXCEPT ![b] = "held"]
    BY <1>2, <2>1, HeldMoves, HeldAsValues
  <2> QED BY <1>3, <1>5, <2>2, <2>3 DEF Promise!Thaw, Held
<1> QED BY <1>6, <1>7

LEMMA SettlementKeeps ==
  ASSUME Inductive, NEW p \in Procs, Finalize(p)
  PROVE  \E b \in Bookings :
            Promise!GiveBack(b) \/ \E percent \in {0, 50} : Promise!Divide(b, percent)
<1>1. PICK b \in Bookings : b = task[p].booking
  BY Busy DEF Finalize
<1>2. RowsType /\ intent[b].window \in Windows \cup {"NONE"}
  BY InductiveParts DEF RowsOK, RowsType, Intents
<1>3. phase' = phase
  BY DEF Finalize
<1>4. CASE Divided(b)
  <2>1. SettleDivided(b)
    BY <1>1, <1>4 DEF Finalize, Divided
  <2>2. PICK percent \in {0, 50} : percent = RefundPercent(intent[b].window)
    BY <1>4 DEF Divided, RefundPercent
  <2>3. PICK x, y : x = (Pay[b] * percent) \div 100 /\ y = (Fee[b] * percent) \div 100
    OBVIOUS
  <2>4. RefundAmount(b) = x + y
    BY <1>4, <2>2, <2>3 DEF RefundAmount, Divided
  <2>5. /\ escrow[b] = "HELD" /\ escrow' = [escrow EXCEPT ![b] = "RELEASED"]
        /\ refunded' = [refunded EXCEPT ![b] = x + y]
        /\ released' = [released EXCEPT ![b] = Pay[b] - x]
        /\ kept' = [kept EXCEPT ![b] = Fee[b] - y]
    BY <2>1, <2>2, <2>3, <2>4 DEF SettleDivided
  <2>6. Promise!Spend(b, Pay[b] - x, Fee[b] - y, x + y)
    BY <1>2, <1>3, <2>5, Spends
  <2>7. Held[b] = "held"
    BY <2>5, HeldAsEscrow, HeldAsValues
  <2>8. Promise!Divide(b, percent)
    BY <2>3, <2>6, <2>7 DEF Promise!Divide, Promise!Returned, Held
  <2> QED BY <2>8
<1>5. CASE ~ Divided(b)
  <2>1. SettleRefund(b)
    <3>1. CASE intent[b].window = "GT_48H"
      BY <1>1, <1>5, <3>1 DEF Finalize, SettleCancelled
    <3>2. CASE intent[b].window # "GT_48H"
      BY <1>1, <1>5, <3>2 DEF Finalize
    <3> QED BY <3>1, <3>2
  <2>2. /\ escrow[b] \in {"HELD", "FROZEN"} /\ Balance(b) = Gross(b)
        /\ escrow' = [escrow EXCEPT ![b] = "REFUNDED"]
        /\ refunded' = [refunded EXCEPT ![b] = Gross(b)]
        /\ UNCHANGED <<released, kept>>
    BY <2>1 DEF SettleRefund, Refundable
  <2>3. /\ released[b] = 0 /\ kept[b] = 0
        /\ released \in [Bookings -> Nat] /\ kept \in [Bookings -> Nat]
    BY <1>2, <2>2, WholeBalance DEF RowsType
  <2>4. released' = [released EXCEPT ![b] = 0] /\ kept' = [kept EXCEPT ![b] = 0]
    BY <2>2, <2>3, Unwritten
  <2>5. Promise!Spend(b, 0, 0, Gross(b))
    BY <1>2, <1>3, <2>2, <2>4, Spends
  <2>6. Promise!GiveBack(b)
    BY <2>5 DEF Promise!GiveBack, Promise!Gross, Gross
  <2> QED BY <2>6
<1> QED BY <1>4, <1>5

\* The other steps of the processes move no money.
LEMMA NoMoneyMoves ==
  ASSUME NEW p,
         \/ ReleaseNothing(p) \/ Reserve(p) \/ ReserveRefused(p)
         \/ DriveSettled(p) \/ RunOperation(p) \/ Check(p) \/ Post(p) \/ Verify(p)
         \/ Checkpoint(p) \/ FinalizeNothing(p)
         \/ Penalise(p) \/ Repair(p) \/ MarkExecuted(p) \/ PostLost(p) \/ Crash(p)
         \/ \E b : Request(p, b)
         \/ \E admin : Decide(p, admin)
         \/ \E a : ResumeApproval(p, a)
  PROVE  UNCHANGED Promise!vars
<1> SUFFICES UNCHANGED <<phase, escrow, released, kept, refunded>>
  BY Stutters
<1>1. CASE \/ ReleaseNothing(p) \/ Reserve(p) \/ ReserveRefused(p)
           \/ DriveSettled(p) \/ RunOperation(p) \/ Check(p) \/ Post(p) \/ Verify(p)
           \/ Checkpoint(p) \/ FinalizeNothing(p)
           \/ Penalise(p) \/ Repair(p) \/ MarkExecuted(p) \/ PostLost(p) \/ Crash(p)
  BY <1>1 DEF ReleaseNothing, Reserve, ReserveRefused, DriveSettled, RunOperation, Check, Post,
     Verify, Checkpoint, FinalizeNothing, Penalise, Repair, MarkExecuted, PostLost, Crash
<1>2. CASE \E b : Request(p, b)
  BY <1>2 DEF Request, SweepNoShow, UsherCancels, AdminRefunds, ClientCancels, Recover, Callback,
     ResolveDispute
<1>3. CASE \E admin : Decide(p, admin)
  BY <1>3 DEF Decide, Approve, Reject
<1>4. CASE \E a : ResumeApproval(p, a)
  BY <1>4 DEF ResumeApproval
<1> QED BY <1>1, <1>2, <1>3, <1>4

\* Every step is a step of the promise, or none.
LEMMA StepKeepsPromise ==
  Inductive /\ [Next]_vars => [Promise!CustodyNext]_(Promise!vars)
<1> SUFFICES ASSUME Inductive, [Next]_vars
             PROVE  Promise!CustodyNext \/ UNCHANGED Promise!vars
  OBVIOUS
<1>1. CASE Tick
  <2>1. phase \in Phases /\ phase < Deadline /\ phase' = phase + 1
    BY <1>1, InductiveParts DEF ClockOK, Tick
  <2>2. phase # Deadline
    BY <2>1 DEF Phases, Deadline
  <2>3. UNCHANGED <<escrow, released, kept, refunded>>
    BY <1>1 DEF Tick
  <2>4. CASE phase' = Deadline
    <3>1. Promise!Close
      BY <2>3, <2>4 DEF Promise!Close
    <3> QED BY <3>1 DEF Promise!CustodyNext
  <2>5. CASE phase' # Deadline
    BY <2>2, <2>3, <2>5, Stutters
  <2> QED BY <2>4, <2>5
<1>2. ASSUME NEW b \in Bookings,
             \/ AssertArrival(b) \/ CheckIn(b) \/ Complete(b) \/ AutoComplete(b)
             \/ \E party \in {"CLIENT", "USHER"} : OpenDispute(b, party)
             \/ Arrive(b) \/ BankSettles(b)
             \/ \E admin \in Admins :
                 \/ ProposeRefund(admin, b) \/ ProposeCancellation(admin, b)
                 \/ \E d \in 1..MaxDisputes, kind \in DisputeKinds :
                     ProposeResolution(admin, b, d, kind)
      PROVE  Promise!CustodyNext \/ UNCHANGED Promise!vars
  <2>1. CASE Complete(b) \/ AutoComplete(b)
    BY <2>1, CompletionKeeps DEF Promise!CustodyNext
  <2>2. CASE \E party \in {"CLIENT", "USHER"} : OpenDispute(b, party)
    BY <2>2, OpenDisputeKeeps DEF Promise!CustodyNext
  <2>3. CASE \/ AssertArrival(b) \/ CheckIn(b) \/ Arrive(b) \/ BankSettles(b)
             \/ \E admin \in Admins :
                 \/ ProposeRefund(admin, b) \/ ProposeCancellation(admin, b)
                 \/ \E d \in 1..MaxDisputes, kind \in DisputeKinds :
                     ProposeResolution(admin, b, d, kind)
    <3>1. UNCHANGED <<phase, escrow, released, kept, refunded>>
      BY <2>3 DEF AssertArrival, CheckIn, Arrive, BankSettles, ProposeRefund,
         ProposeCancellation, ProposeResolution
    <3> QED BY <3>1, Stutters
  <2> QED BY <1>2, <2>1, <2>2, <2>3
<1>3. ASSUME NEW p \in Procs, Drive(p) \/ PostLost(p) \/ Crash(p)
      PROVE  Promise!CustodyNext \/ UNCHANGED Promise!vars
  <2>1. CASE ReleaseDispute(p)
    BY <2>1, ReleaseDisputeKeeps DEF Promise!CustodyNext
  <2>2. CASE Finalize(p)
    BY <2>2, SettlementKeeps DEF Promise!CustodyNext
  <2> QED BY <1>3, <2>1, <2>2, NoMoneyMoves DEF Drive
<1>4. ASSUME NEW p \in Procs,
             \/ \E b \in Bookings : Request(p, b)
             \/ \E admin \in Admins : Decide(p, admin)
             \/ \E a \in approvals : ResumeApproval(p, a)
      PROVE  UNCHANGED Promise!vars
  BY <1>4, NoMoneyMoves
<1>5. CASE UNCHANGED vars
  BY <1>5, Stutters DEF vars
<1> QED BY <1>1, <1>2, <1>3, <1>4, <1>5 DEF Next

LEMMA InitKeepsPromise == Init => Promise!CustodyInit
  BY DEF Init, Promise!CustodyInit

\* The escrow keeps the promise of Custody: the money of a booking is divided once and
\* completely, never to the staff member while it is frozen, and earned only when the
\* dispute window has closed.
THEOREM CustodyImplemented == Spec => ImplementsCustody
<1>1. Spec => []Inductive
  BY InductiveInvariant
<1> QED BY <1>1, InitKeepsPromise, StepKeepsPromise, PTL
        DEF Spec, ImplementsCustody, Promise!CustodySpec
=============================================================================

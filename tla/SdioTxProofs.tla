---------------------------- MODULE SdioTxProofs ----------------------------
(***************************************************************************)
(* For any packets, commands, writers and limits: dev->inflight counts     *)
(* exactly the packets in the driver; no grant is overspent as long as the *)
(* chip grants no more than tx_buf can hold; no writer sleeps without a    *)
(* wake-up coming as long as the interface stays up; and each of the two   *)
(* paths implements TxPipe.                                                *)
(***************************************************************************)
EXTENDS SdioTx, SequenceTheorems, TLAPS

-----------------------------------------------------------------------------
(* What is in the queues                                                   *)

LEMMA QueuesStack == Queues /\ (XmitCount \/ Xmit \/ Close) => Queues'
<1> SUFFICES ASSUME Queues, XmitCount \/ Xmit \/ Close PROVE Queues'
  OBVIOUS
<1> USE DEF Queues, users, locals
<1>1. CASE XmitCount
  BY <1>1 DEF XmitCount
<1>2. CASE XmitQueue
  <2>1. data_txq' \in Seq(Pkt)
    BY <1>2, AppendProperties DEF XmitQueue
  <2> QED BY <1>2, <2>1 DEF XmitQueue
<1>3. CASE XmitBackOut
  BY <1>3 DEF XmitBackOut
<1>4. CASE XmitStop
  BY <1>4 DEF XmitStop
<1>5. CASE CloseStart
  BY <1>5 DEF CloseStart
<1>6. CASE CloseCancel
  BY <1>6 DEF CloseCancel
<1>7. CASE CloseDrain
  <2>1. data_txq' \in Seq(Pkt)
    BY <1>7, HeadTailProperties DEF CloseDrain
  <2> QED BY <1>7, <2>1 DEF CloseDrain, stack
<1>8. CASE ClosePurge
  BY <1>8 DEF ClosePurge
<1>9. CASE NetOpen
  BY <1>9 DEF NetOpen
<1> QED
  BY <1>1, <1>2, <1>3, <1>4, <1>5, <1>6, <1>7, <1>8, <1>9 DEF Xmit, Close

LEMMA QueuesWrite == ASSUME NEW w \in Writer PROVE Queues /\ Write(w) => Queues'
<1> SUFFICES ASSUME Queues, Write(w) PROVE Queues'
  OBVIOUS
<1> USE DEF Queues, stack, locals
<1>1. CASE WriteQueue(w)
  <2>1. cmd_txq' \in Seq(Cmd)
    BY <1>1, AppendProperties DEF WriteQueue
  <2> QED BY <1>1, <2>1 DEF WriteQueue
<1>2. CASE WriteReady(w) \/ WriteSleep(w) \/ WriteSignal(w) \/ WriteFail(w)
  BY <1>2 DEF WriteReady, WriteSleep, WriteSignal, WriteFail
<1> QED BY <1>1, <1>2 DEF Write

LEMMA QueuesData == Queues /\ SendData => Queues'
<1> SUFFICES ASSUME Queues, SendData PROVE Queues'
  OBVIOUS
<1> USE DEF Queues, stack, users, Discard, Pack
<1>1. CASE DataEnter
  BY <1>1 DEF DataEnter
<1>2. CASE DataDequeue
  <2>1. Head(data_txq) \in Pkt /\ Tail(data_txq) \in Seq(Pkt)
    BY <1>2, HeadTailProperties DEF DataDequeue
  <2>2. hand' = <<Head(data_txq)>> /\ data_txq' = Tail(data_txq) /\ pc' = "fit"
    BY <1>2 DEF DataDequeue
  <2>3. hand'[1] = Head(data_txq)
    BY <2>2
  <2> QED BY <1>2, <2>1, <2>2, <2>3 DEF DataDequeue
<1>3. CASE DataEmpty
  BY <1>3 DEF DataEmpty
<1>4. CASE DataDrop
  BY <1>4 DEF DataDrop
<1>5. CASE DataRequeue
  <2>1. PICK p \in Pkt : hand = <<p>>
    BY <1>5 DEF DataRequeue
  <2>2. data_txq' \in Seq(Pkt)
    BY <1>5, <2>1, ConcatProperties DEF DataRequeue
  <2> QED BY <1>5, <2>2 DEF DataRequeue
<1>6. CASE DataOverflow
  BY <1>6 DEF DataOverflow
<1>7. CASE DataPack
  BY <1>7 DEF DataPack
<1>8. CASE DataFlush
  BY <1>8 DEF DataFlush
<1> QED
  BY <1>1, <1>2, <1>3, <1>4, <1>5, <1>6, <1>7, <1>8 DEF SendData

LEMMA QueuesCmd == Queues /\ SendCmd => Queues'
<1> SUFFICES ASSUME Queues, SendCmd PROVE Queues'
  OBVIOUS
<1> USE DEF Queues, stack, users, Discard, Pack, Release
<1>1. CASE CmdEnter
  BY <1>1 DEF CmdEnter
<1>2. CASE CmdDequeue
  <2>1. Head(cmd_txq) \in Cmd /\ Tail(cmd_txq) \in Seq(Cmd)
    BY <1>2, HeadTailProperties DEF CmdDequeue
  <2>2. hand' = <<Head(cmd_txq)>> /\ cmd_txq' = Tail(cmd_txq) /\ pc' = "cfit"
    BY <1>2 DEF CmdDequeue
  <2>3. hand'[1] = Head(cmd_txq)
    BY <2>2
  <2> QED BY <1>2, <2>1, <2>2, <2>3 DEF CmdDequeue
<1>3. CASE CmdEmpty
  BY <1>3 DEF CmdEmpty
<1>4. CASE CmdDrop
  BY <1>4 DEF CmdDrop
<1>5. CASE CmdRequeue
  <2>1. PICK c \in Cmd : hand = <<c>>
    BY <1>5 DEF CmdRequeue
  <2>2. cmd_txq' \in Seq(Cmd)
    BY <1>5, <2>1, ConcatProperties DEF CmdRequeue
  <2> QED BY <1>5, <2>2 DEF CmdRequeue
<1>6. CASE CmdOverflow
  BY <1>6 DEF CmdOverflow
<1>7. CASE CmdPack
  BY <1>7 DEF CmdPack
<1>8. CASE CmdFlush
  BY <1>8 DEF CmdFlush
<1> QED
  BY <1>1, <1>2, <1>3, <1>4, <1>5, <1>6, <1>7, <1>8 DEF SendCmd

LEMMA QueuesRest == Queues /\ (Irq \/ Worker \/ Chip) => Queues'
<1> SUFFICES ASSUME Queues, Irq \/ Worker \/ Chip PROVE Queues'
  OBVIOUS
<1> USE DEF Queues, stack, users, locals
<1>1. CASE Irq
  BY <1>1 DEF Irq, IrqEnter, IrqTx, IrqAck, IrqLeave
<1>2. CASE Worker
  BY <1>2 DEF Worker, WorkStart, WorkClaim
<1>3. CASE Chip
  BY <1>3 DEF Chip, ChipGrant, ChipReport, ChipDrain
<1> QED BY <1>1, <1>2, <1>3

LEMMA QueuesStep == Queues /\ [Next]_vars => Queues'
<1>1. Queues /\ UNCHANGED vars => Queues'
  BY DEF vars, Queues
<1> QED
  BY <1>1, QueuesStack, QueuesWrite, QueuesData, QueuesCmd, QueuesRest DEF Next

LEMMA QueuesInit == Init => Queues
BY EmptySeq DEF Init, Queues

-----------------------------------------------------------------------------
(* The in-flight counter                                                   *)

LEMMA Counts ==
    ASSUME Queues
    PROVE  /\ Len(data_txq) \in Nat /\ InHand \in 0..1 /\ InXmit \in 0..1
           /\ InflightCap \in Nat /\ InflightCap > 0
<1>1. Len(data_txq) \in Nat
  BY LenProperties DEF Queues
<1> QED BY <1>1, LimitAssumption DEF InHand, InXmit

\* A step that changes none of the things counted.
LEMMA InflightSame ==
    ASSUME InflightInv, UNCHANGED <<inflight, data_txq, xm>>,
           pc' # pc => pc # "fit" /\ pc' # "fit"
    PROVE  InflightInv'
<1>1. InHand' = InHand /\ InXmit' = InXmit /\ Admitted' = Admitted
  BY DEF InHand, InXmit, Admitted
<1> QED BY <1>1 DEF InflightInv, InflightExact

\* The steps of the stack: a packet is counted before it is queued and
\* uncounted by whoever takes it out.
LEMMA InflightStack == Queues /\ InflightInv /\ (XmitCount \/ Xmit \/ Close) => InflightInv'
<1> SUFFICES ASSUME Queues, InflightInv, XmitCount \/ Xmit \/ Close PROVE InflightInv'
  OBVIOUS
<1> USE DEF locals
<1>0. /\ Len(data_txq) \in Nat /\ InHand \in 0..1 /\ InXmit \in 0..1
      /\ InflightCap \in Nat /\ InflightCap > 0
  BY Counts
<1>1. inflight = Len(data_txq) + InHand + InXmit /\ Len(data_txq) + InHand <= InflightCap
  BY DEF InflightInv, InflightExact
<1>2. CASE XmitCount
  <2>1. InHand' = InHand /\ InXmit = 0 /\ UNCHANGED data_txq /\ inflight' = inflight + 1
    BY <1>2 DEF XmitCount, InHand, InXmit
  <2>2. PICK p \in todo :
           xm' = <<IF inflight + 1 > InflightCap THEN "over" ELSE "counted", p>>
    BY <1>2 DEF XmitCount
  <2>3. InXmit' = 1
    BY <2>2 DEF InXmit
  <2>4. Admitted' => inflight + 1 <= InflightCap
    BY <2>2, <1>0, <1>1 DEF Admitted
  <2> QED BY <1>0, <1>1, <2>1, <2>3, <2>4 DEF InflightInv, InflightExact
<1>3. CASE XmitQueue
  <2>1. Len(data_txq') = Len(data_txq) + 1
    BY <1>3, AppendProperties DEF XmitQueue, Queues
  <2>2. InHand' = InHand /\ InXmit = 1 /\ InXmit' = 0 /\ inflight' = inflight
    BY <1>3 DEF XmitQueue, InHand, InXmit
  <2>3. inflight <= InflightCap /\ ~Admitted'
    BY <1>3 DEF XmitQueue, InflightInv, Admitted
  <2> QED BY <1>0, <1>1, <2>1, <2>2, <2>3 DEF InflightInv, InflightExact
<1>4. CASE XmitBackOut
  <2>1. /\ UNCHANGED data_txq /\ InHand' = InHand
        /\ InXmit = 1 /\ inflight' = inflight - 1
    BY <1>4 DEF XmitBackOut, InHand, InXmit
  <2>2. xm' = <<"stopping", xm[2]>>
    BY <1>4 DEF XmitBackOut
  <2>3. InXmit' = 0 /\ ~Admitted'
    BY <2>2 DEF InXmit, Admitted
  <2> QED BY <1>0, <1>1, <2>1, <2>3 DEF InflightInv, InflightExact
<1>5. CASE XmitStop
  <2>1. /\ UNCHANGED <<data_txq, inflight>> /\ InHand' = InHand
        /\ InXmit = 0 /\ InXmit' = 0 /\ ~Admitted'
    BY <1>5 DEF XmitStop, InHand, InXmit, Admitted
  <2> QED BY <1>0, <1>1, <2>1 DEF InflightInv, InflightExact
<1>6. CASE CloseStart \/ CloseCancel \/ ClosePurge \/ NetOpen
  BY <1>6, InflightSame DEF CloseStart, CloseCancel, ClosePurge, NetOpen
<1>7. CASE CloseDrain
  <2>1. Len(data_txq') = Len(data_txq) - 1 /\ Len(data_txq) > 0
    BY <1>0, <1>7, EmptySeq, HeadTailProperties, LenProperties DEF CloseDrain, Queues
  <2>2. /\ InHand' = InHand /\ InXmit' = InXmit /\ Admitted' = Admitted
        /\ inflight' = IF inflight > 0 THEN inflight - 1 ELSE inflight
    BY <1>7 DEF CloseDrain, Uncount, stack, InHand, InXmit, Admitted
  <2>3. inflight' = inflight - 1
    BY <1>0, <1>1, <2>1, <2>2
  <2> QED BY <1>0, <1>1, <2>1, <2>2, <2>3 DEF InflightInv, InflightExact
<1> QED BY <1>2, <1>3, <1>4, <1>5, <1>6, <1>7 DEF Xmit, Close

\* send_data takes a packet into its hand, puts it back, or uncounts it.
LEMMA InflightData == Queues /\ InflightInv /\ SendData => InflightInv'
<1> SUFFICES ASSUME Queues, InflightInv, SendData PROVE InflightInv'
  OBVIOUS
<1>0. /\ Len(data_txq) \in Nat /\ InHand \in 0..1 /\ InXmit \in 0..1
      /\ InflightCap \in Nat /\ InflightCap > 0
  BY Counts
<1>1. inflight = Len(data_txq) + InHand + InXmit /\ Len(data_txq) + InHand <= InflightCap
  BY DEF InflightInv, InflightExact
<1>2. CASE DataEnter \/ DataEmpty \/ DataOverflow \/ DataFlush
  BY <1>2, InflightSame DEF DataEnter, DataEmpty, DataOverflow, DataFlush, stack
<1>3. InXmit' = InXmit /\ Admitted' = Admitted
  BY DEF SendData, DataEnter, DataDequeue, DataEmpty, DataDrop, DataRequeue, DataOverflow,
         DataPack, DataFlush, stack, InXmit, Admitted
<1>4. CASE DataDequeue
  <2>1. Len(data_txq') = Len(data_txq) - 1
    BY <1>4, HeadTailProperties DEF DataDequeue, Queues
  <2>2. InHand = 0 /\ InHand' = 1 /\ inflight' = inflight
    BY <1>4 DEF DataDequeue, InHand
  <2> QED BY <1>0, <1>1, <1>3, <2>1, <2>2 DEF InflightInv, InflightExact
<1>5. CASE DataDrop \/ DataPack
  <2>1. /\ InHand = 1 /\ InHand' = 0 /\ UNCHANGED data_txq
        /\ inflight' = IF inflight > 0 THEN inflight - 1 ELSE inflight
    BY <1>5 DEF DataDrop, DataPack, Uncount, InHand
  <2>2. inflight' = inflight - 1
    BY <1>0, <1>1, <2>1
  <2> QED BY <1>0, <1>1, <1>3, <2>1, <2>2 DEF InflightInv, InflightExact
<1>6. CASE DataRequeue
  <2>1. PICK p \in Pkt : hand = <<p>>
    BY <1>6 DEF DataRequeue, Queues
  <2>2. Len(data_txq') = 1 + Len(data_txq)
    BY <1>6, <2>1, ConcatProperties DEF DataRequeue, Queues
  <2>3. InHand = 1 /\ InHand' = 0 /\ inflight' = inflight
    BY <1>6 DEF DataRequeue, InHand
  <2> QED BY <1>0, <1>1, <1>3, <2>2, <2>3 DEF InflightInv, InflightExact
<1> QED BY <1>2, <1>4, <1>5, <1>6 DEF SendData

\* Nobody else touches the counter, the data queue or start_xmit.
LEMMA InflightRest ==
    /\ Queues /\ InflightInv /\ (SendCmd \/ Irq \/ Worker \/ Chip) => InflightInv'
    /\ \A w \in Writer : InflightInv /\ Write(w) => InflightInv'
<1> USE InflightSame DEF stack, users, locals
<1>1. ASSUME InflightInv, SendCmd PROVE InflightInv'
  BY <1>1
  DEF SendCmd, CmdEnter, CmdDequeue, CmdEmpty, CmdDrop, CmdRequeue, CmdOverflow, CmdPack,
      CmdFlush, Release
<1>2. ASSUME Queues, InflightInv, Irq PROVE InflightInv'
  BY <1>2 DEF Queues, Irq, IrqEnter, IrqTx, IrqAck, IrqLeave
<1>3. ASSUME Queues, InflightInv, Worker PROVE InflightInv'
  BY <1>3 DEF Queues, Worker, WorkStart, WorkClaim
<1>4. ASSUME InflightInv, Chip PROVE InflightInv'
  BY <1>4 DEF Chip, ChipGrant, ChipReport, ChipDrain
<1>5. ASSUME NEW w \in Writer, InflightInv, Write(w) PROVE InflightInv'
  BY <1>5 DEF Write, WriteReady, WriteSleep, WriteSignal, WriteQueue, WriteFail
<1> QED BY <1>1, <1>2, <1>3, <1>4, <1>5

\* Every packet start_xmit counted is uncounted exactly once, whether it is
\* sent, dropped, refused or drained by net_close: the counter never leaks
\* towards the cap.
THEOREM InflightIsExact == Spec => []InflightExact
<1> DEFINE I == Queues /\ InflightInv
<1>1. Init => I
  <2>1. Init => InflightInv
    BY LimitAssumption DEF Init, InflightInv, InflightExact, InHand, InXmit, Admitted
  <2> QED BY <2>1, QueuesInit
<1>2. I /\ [Next]_vars => I'
  <2>1. InflightInv /\ UNCHANGED vars => InflightInv'
    BY InflightSame DEF vars
  <2> QED
    BY <2>1, QueuesStep, InflightStack, InflightData, InflightRest DEF Next
<1>3. I => InflightExact
  BY DEF InflightInv
<1> QED BY <1>1, <1>2, <1>3, PTL DEF Spec

-----------------------------------------------------------------------------
(* The credit                                                              *)

LEMMA AlignUp == ASSUME NEW n \in Nat PROVE Align(n) \in Nat /\ n <= Align(n)
BY DEF Align, Block

LEMMA WireLenNat == ASSUME NEW m \in Msg PROVE WireLen(m) \in Nat
<1>1. Size[m] \in Nat /\ (m \in Pkt => Size[m] >= 20)
  BY MsgAssumption
<1> QED BY <1>1 DEF WireLen, Shrink

\* A message that fits a grant no larger than tx_buf does not overflow tx_buf.
LEMMA NoOverflow ==
    ASSUME SmallGrants, Budget, NEW m \in Msg, Fits(m), used > 0
    PROVE  ~Overflows(m)
<1> DEFINE n == used + WireLen(m) + Trailer
<1>1. n \in Nat
  BY WireLenNat DEF Budget, Trailer
<1>2. Staging \in Nat /\ tx_write_acc \in Nat
  BY LimitAssumption DEF Budget
<1>3. tx_write_acc <= Staging
  BY <1>2 DEF Budget, SmallGrants
<1>4. Align(n) \in Nat /\ n <= Align(n)
  BY <1>1, AlignUp
<1>5. Align(n) <= tx_write_acc
  BY DEF Fits
<1> HIDE DEF n
<1>6. n <= Staging
  BY <1>1, <1>2, <1>3, <1>4, <1>5
<1> QED BY <1>1, <1>2, <1>6 DEF Overflows, n

\* A step that touches neither the grant nor what is packed.
LEMMA BudgetSame ==
    ASSUME Budget, UNCHANGED <<tx_read_acc, tx_write_acc, spent, used>>,
           offer' = offer \/ offer' = <<>>,
           InData' \/ InCmd' => HasCredit,
           ~(InData' \/ InCmd') => used = 0
    PROVE  Budget'
BY DEF Budget, HasCredit, WithinCredit, Align

\* A batch, or the empty frame, goes out and the grant is consumed.
LEMMA BudgetFlush ==
    ASSUME Budget, HasCredit, spent' = spent + Align(used + Trailer), used' = 0,
           tx_read_acc' = tx_write_acc, tx_write_acc' = tx_write_acc, offer' = offer,
           ~(InData' \/ InCmd')
    PROVE  Budget'
<1>1. used \in Nat /\ tx_write_acc \in Nat /\ spent = 0
  BY DEF Budget
<1>2. Align(used + Trailer) \in Nat
  BY <1>1, AlignUp DEF Trailer
<1>3. Align(used + Trailer) <= tx_write_acc
  <2>1. CASE used > 0
    BY <2>1 DEF Budget
  <2>2. CASE used = 0
    <3>1. tx_write_acc # 0
      BY DEF Budget, HasCredit
    <3>2. PICK g \in GrantBlocks : tx_write_acc = g * Block
      BY <3>1 DEF Budget
    <3>3. g \in Nat /\ tx_write_acc = g * 512
      BY <3>2, GrantAssumption DEF Block
    <3>4. tx_write_acc >= 512
      BY <3>1, <3>3
    <3> QED BY <2>2, <3>4, <1>1 DEF Align, Block, Trailer
  <2> QED BY <1>1, <2>1, <2>2
<1>4. spent' = Align(used + Trailer) /\ spent' \in Nat
  BY <1>1, <1>2
<1> QED
  BY <1>1, <1>3, <1>4 DEF Budget, HasCredit, WithinCredit

\* A message that fits is copied behind those already packed.
LEMMA BudgetPack ==
    ASSUME Budget, HasCredit, NEW m \in Msg, Fits(m), used' = used + WireLen(m),
           UNCHANGED <<tx_read_acc, tx_write_acc, spent, offer>>, InData' \/ InCmd'
    PROVE  Budget'
<1>1. used' \in Nat
  BY WireLenNat DEF Budget
<1>2. Align(used' + Trailer) <= tx_write_acc
  BY DEF Fits
<1> QED
  BY <1>1, <1>2 DEF Budget, HasCredit, WithinCredit, Align

LEMMA BudgetData == SmallGrants /\ Queues /\ Budget /\ SendData => Budget'
<1> SUFFICES ASSUME SmallGrants, Queues, Budget, SendData PROVE Budget'
  OBVIOUS
<1> USE DEF InData, InCmd
<1>1. CASE DataEnter \/ DataDequeue \/ DataEmpty \/ DataDrop \/ DataRequeue
  BY <1>1, BudgetSame
  DEF DataEnter, DataDequeue, DataEmpty, DataDrop, DataRequeue, Discard, credit, chip, Budget
<1>2. CASE DataOverflow
  <2>1. hand[1] \in Msg /\ Fits(hand[1]) /\ Overflows(hand[1]) /\ used > 0
    BY <1>2 DEF DataOverflow, Queues, Msg, Overflows
  <2> QED BY <2>1, NoOverflow
<1>3. CASE DataPack
  <2>1. hand[1] \in Msg /\ Fits(hand[1]) /\ HasCredit
    BY <1>3 DEF DataPack, Queues, Msg, Budget
  <2> QED BY <1>3, <2>1, BudgetPack DEF DataPack, Pack, credit, chip
<1>4. CASE DataFlush
  <2>1. CASE used > 0
    BY <1>4, <2>1, BudgetFlush DEF DataFlush, Flush, Budget
  <2>2. CASE ~(used > 0)
    <3>1. used = 0
      BY <2>2 DEF Budget
    <3> QED BY <1>4, <3>1, BudgetSame DEF DataFlush, fifo
  <2> QED BY <2>1, <2>2
<1> QED BY <1>1, <1>2, <1>3, <1>4 DEF SendData

LEMMA BudgetCmd == SmallGrants /\ Queues /\ Budget /\ SendCmd => Budget'
<1> SUFFICES ASSUME SmallGrants, Queues, Budget, SendCmd PROVE Budget'
  OBVIOUS
<1> USE DEF InData, InCmd
<1>1. CASE CmdEnter \/ CmdDequeue \/ CmdEmpty \/ CmdDrop \/ CmdRequeue
  BY <1>1, BudgetSame
  DEF CmdEnter, CmdDequeue, CmdEmpty, CmdDrop, CmdRequeue, Discard, Release, credit, chip,
      Budget
<1>2. CASE CmdOverflow
  <2>1. hand[1] \in Msg /\ Fits(hand[1]) /\ Overflows(hand[1]) /\ used > 0
    BY <1>2 DEF CmdOverflow, Queues, Msg, Overflows
  <2> QED BY <2>1, NoOverflow
<1>3. CASE CmdPack
  <2>1. hand[1] \in Msg /\ Fits(hand[1]) /\ HasCredit
    BY <1>3 DEF CmdPack, Queues, Msg, Budget
  <2> QED BY <1>3, <2>1, BudgetPack DEF CmdPack, Pack, credit, chip
<1>4. CASE CmdFlush
  <2>1. HasCredit
    BY <1>4 DEF CmdFlush, Budget
  <2>2. used \in Nat
    BY DEF Budget
  <2>3. used' = 0 /\ pc' = "free" /\ tx_write_acc' = tx_write_acc /\ offer' = offer
    BY <1>4 DEF CmdFlush, Release
  <2>4. \/ Flush(FALSE) /\ tx_read_acc' = tx_write_acc
        \/ used = 0 /\ UNCHANGED <<fifo, tx_read_acc>>
    BY <1>4 DEF CmdFlush
  <2>5. CASE Flush(FALSE) /\ tx_read_acc' = tx_write_acc
    BY <2>1, <2>3, <2>5, BudgetFlush DEF Flush
  <2>6. CASE used = 0 /\ UNCHANGED <<fifo, tx_read_acc>>
    BY <2>3, <2>6, BudgetSame DEF fifo
  <2> QED BY <2>4, <2>5, <2>6
<1> QED BY <1>1, <1>2, <1>3, <1>4 DEF SendCmd

\* A grant is taken only when the one before it is consumed.
LEMMA BudgetIrq == Queues /\ Budget /\ Irq => Budget'
<1> SUFFICES ASSUME Queues, Budget, Irq PROVE Budget'
  OBVIOUS
<1> USE DEF InData, InCmd
<1>1. CASE IrqEnter \/ IrqAck \/ IrqLeave
  BY <1>1, BudgetSame
  DEF IrqEnter, IrqAck, IrqLeave, Queues, credit, chip, fifo, locals, Budget
<1>2. CASE IrqTx /\ ~do_tx /\ ~HasCredit
  <2>1. /\ tx_read_acc' = 0 /\ tx_write_acc' = offer[1] * Block /\ spent' = 0
        /\ offer' = <<>> /\ offer[1] \in GrantBlocks
        /\ used = 0 /\ used' = 0 /\ pc' = "irq"
    BY <1>2 DEF IrqTx, Budget
  <2>2. tx_write_acc' \in Nat
    BY <2>1, GrantAssumption DEF Block
  <2> QED BY <2>1, <2>2 DEF Budget, HasCredit, WithinCredit
<1>3. CASE IrqTx /\ ~(~do_tx /\ ~HasCredit)
  BY <1>3, BudgetSame DEF IrqTx, Budget
<1> QED BY <1>1, <1>2, <1>3 DEF Irq

LEMMA BudgetChip == Budget /\ Chip => Budget'
<1> SUFFICES ASSUME Budget, Chip PROVE Budget'
  OBVIOUS
<1>1. CASE ChipGrant
  <2>1. PICK g \in GrantBlocks : offer' = <<g>>
    BY <1>1 DEF ChipGrant
  <2>2. offer'[1] \in GrantBlocks
    BY <2>1
  <2> QED
    BY <1>1, <2>2
    DEF ChipGrant, credit, locals, fifo, Budget, HasCredit, WithinCredit, InData, InCmd
<1>2. CASE ChipReport \/ ChipDrain
  BY <1>2, BudgetSame
  DEF ChipReport, ChipDrain, credit, locals, fifo, Budget, InData, InCmd
<1> QED BY <1>1, <1>2 DEF Chip

\* The threads that do not hold the claim touch neither credit nor tx_buf.
LEMMA BudgetRest ==
    /\ Queues /\ Budget /\ (XmitCount \/ Xmit \/ Close \/ Worker) => Budget'
    /\ \A w \in Writer : Budget /\ Write(w) => Budget'
<1> USE BudgetSame DEF stack, users, locals, credit, chip, InData, InCmd, Budget
<1>1. ASSUME Budget, XmitCount \/ Xmit PROVE Budget'
  BY <1>1 DEF XmitCount, Xmit, XmitQueue, XmitBackOut, XmitStop
<1>2. ASSUME Budget, Close PROVE Budget'
  BY <1>2 DEF Close, CloseStart, CloseCancel, CloseDrain, ClosePurge, NetOpen
<1>3. ASSUME Queues, Budget, Worker PROVE Budget'
  BY <1>3 DEF Queues, Worker, WorkStart, WorkClaim
<1>4. ASSUME NEW w \in Writer, Budget, Write(w) PROVE Budget'
  BY <1>4 DEF Write, WriteReady, WriteSleep, WriteSignal, WriteQueue, WriteFail
<1> QED BY <1>1, <1>2, <1>3, <1>4

\* No grant of at most tx_buf is overspent, by either function or both: each
\* packs within the grant and consumes it with the transfer.
THEOREM CreditIsKept == ASSUME SmallGrants PROVE Spec => []WithinCredit
<1> DEFINE I == Queues /\ Budget
<1>1. Init => I
  <2>1. Init => Budget
    BY DEF Init, Budget, HasCredit, WithinCredit, InData, InCmd
  <2> QED BY <2>1, QueuesInit
<1>2. I /\ [Next]_vars => I'
  <2>1. Budget /\ UNCHANGED vars => Budget'
    BY DEF vars, Budget, HasCredit, WithinCredit, InData, InCmd, Align
  <2> QED
    BY <2>1, QueuesStep, BudgetData, BudgetCmd, BudgetIrq, BudgetChip, BudgetRest DEF Next
<1>3. I => WithinCredit
  BY DEF Budget
<1> QED BY <1>1, <1>2, <1>3, PTL DEF Spec

-----------------------------------------------------------------------------
(* What is in tx_buf and in the hand                                       *)

LEMMA WireLenPositive == ASSUME NEW m \in Msg PROVE WireLen(m) \in Nat /\ WireLen(m) > 0
<1>1. Size[m] \in Nat \ {0} /\ (m \in Pkt => Size[m] >= 20)
  BY MsgAssumption
<1> QED BY <1>1 DEF WireLen, Shrink

\* A step that leaves tx_buf and the hand alone, and the function that packs.
LEMMA PackedSame ==
    ASSUME Packed, UNCHANGED <<batch, used, hand>>,
           InData' = InData, InCmd' = InCmd,
           pc' \in {"fit", "cfit"} <=> pc \in {"fit", "cfit"}
    PROVE  Packed'
BY DEF Packed

LEMMA PackedData == Queues /\ Packed /\ SendData => Packed'
<1> SUFFICES ASSUME Queues, Packed, SendData PROVE Packed'
  OBVIOUS
<1> USE DEF InData, InCmd
<1>1. CASE DataEnter \/ DataEmpty
  BY <1>1, EmptySeq DEF DataEnter, DataEmpty, Packed
<1>2. CASE DataDequeue
  BY <1>2 DEF DataDequeue, Packed
<1>3. CASE DataDrop \/ DataRequeue
  BY <1>3 DEF DataDrop, DataRequeue, Discard, Packed
<1>4. CASE DataOverflow
  BY <1>4, EmptySeq DEF DataOverflow, Packed
<1>5. CASE DataPack
  <2>1. PICK p \in Pkt : hand = <<p>>
    BY <1>5 DEF DataPack, Queues
  <2>2. WireLen(p) \in Nat /\ WireLen(p) > 0
    BY WireLenPositive DEF Msg
  <2>3. used' = used + WireLen(p) /\ batch' = batch \o <<p>> /\ hand' = <<>> /\ pc' = "pack"
    BY <1>5, <2>1 DEF DataPack, Pack
  <2>4. batch \in Seq(Pkt) /\ used \in Nat
    BY <1>5 DEF DataPack, Packed
  <2>5. batch' \in Seq(Pkt) /\ Len(batch') = Len(batch) + 1 /\ Len(batch) \in Nat
    BY <2>3, <2>4, ConcatProperties, LenProperties
  <2>6. batch' # <<>> /\ used' > 0 /\ used' \in Nat
    BY <2>2, <2>3, <2>4, <2>5, EmptySeq
  <2> QED BY <2>3, <2>5, <2>6 DEF Packed
<1>6. CASE DataFlush
  BY <1>6 DEF DataFlush, Packed
<1> QED BY <1>1, <1>2, <1>3, <1>4, <1>5, <1>6 DEF SendData

LEMMA PackedCmd == Queues /\ Packed /\ SendCmd => Packed'
<1> SUFFICES ASSUME Queues, Packed, SendCmd PROVE Packed'
  OBVIOUS
<1> USE DEF InData, InCmd
<1>1. CASE CmdEnter \/ CmdEmpty
  BY <1>1, EmptySeq DEF CmdEnter, CmdEmpty, Release, Packed
<1>2. CASE CmdDequeue
  BY <1>2 DEF CmdDequeue, Packed
<1>3. CASE CmdDrop \/ CmdRequeue
  BY <1>3 DEF CmdDrop, CmdRequeue, Discard, Packed
<1>4. CASE CmdOverflow
  BY <1>4, EmptySeq DEF CmdOverflow, Packed
<1>5. CASE CmdPack
  <2>1. PICK c \in Cmd : hand = <<c>>
    BY <1>5 DEF CmdPack, Queues
  <2>2. WireLen(c) \in Nat /\ WireLen(c) > 0
    BY WireLenPositive DEF Msg
  <2>3. used' = used + WireLen(c) /\ batch' = batch \o <<c>> /\ hand' = <<>> /\ pc' = "cpack"
    BY <1>5, <2>1 DEF CmdPack, Pack
  <2>4. batch \in Seq(Cmd) /\ used \in Nat
    BY <1>5 DEF CmdPack, Packed
  <2>5. batch' \in Seq(Cmd) /\ Len(batch') = Len(batch) + 1 /\ Len(batch) \in Nat
    BY <2>3, <2>4, ConcatProperties, LenProperties
  <2>6. batch' # <<>> /\ used' > 0 /\ used' \in Nat
    BY <2>2, <2>3, <2>4, <2>5, EmptySeq
  <2> QED BY <2>3, <2>5, <2>6 DEF Packed
<1>6. CASE CmdFlush
  BY <1>6 DEF CmdFlush, Release, Packed
<1> QED BY <1>1, <1>2, <1>3, <1>4, <1>5, <1>6 DEF SendCmd

\* Only the holder of the claim touches tx_buf.
LEMMA PackedRest ==
    /\ Queues /\ Packed /\ (XmitCount \/ Xmit \/ Close \/ Irq \/ Worker \/ Chip) => Packed'
    /\ \A w \in Writer : Packed /\ Write(w) => Packed'
<1> USE PackedSame DEF stack, users, locals, credit, chip, InData, InCmd
<1>1. ASSUME Packed, XmitCount \/ Xmit PROVE Packed'
  BY <1>1 DEF XmitCount, Xmit, XmitQueue, XmitBackOut, XmitStop
<1>2. ASSUME Packed, Close PROVE Packed'
  BY <1>2 DEF Close, CloseStart, CloseCancel, CloseDrain, ClosePurge, NetOpen
<1>3. ASSUME Queues, Packed, Irq PROVE Packed'
  BY <1>3, EmptySeq DEF Queues, Packed, Irq, IrqEnter, IrqTx, IrqAck, IrqLeave
<1>4. ASSUME Queues, Packed, Worker PROVE Packed'
  BY <1>4, EmptySeq DEF Queues, Packed, Worker, WorkStart, WorkClaim
<1>5. ASSUME Packed, Chip PROVE Packed'
  BY <1>5 DEF Chip, ChipGrant, ChipReport, ChipDrain
<1>6. ASSUME NEW w \in Writer, Packed, Write(w) PROVE Packed'
  BY <1>6 DEF Write, WriteReady, WriteSleep, WriteSignal, WriteQueue, WriteFail
<1> QED BY <1>1, <1>2, <1>3, <1>4, <1>5, <1>6

LEMMA PackedStep == Queues /\ Packed /\ [Next]_vars => Packed'
<1>1. Packed /\ UNCHANGED vars => Packed'
  BY PackedSame DEF vars, InData, InCmd
<1> QED
  BY <1>1, PackedData, PackedCmd, PackedRest DEF Next

LEMMA PackedInit == Init => Packed
BY EmptySeq DEF Init, Packed, InData, InCmd

-----------------------------------------------------------------------------
(* The writers asleep in artosyn_do_write                                  *)

LEMMA UpStep == ASSUME ~IfDown PROVE StaysUp /\ [Next]_vars => StaysUp'
<1> SUFFICES ASSUME StaysUp, [Next]_vars PROVE StaysUp'
  OBVIOUS
<1> USE DEF StaysUp, stack, users, locals, credit, chip
<1>1. CASE XmitCount \/ Xmit \/ Close
  BY <1>1
  DEF XmitCount, Xmit, XmitQueue, XmitBackOut, XmitStop, Close, CloseStart, CloseCancel,
      CloseDrain, ClosePurge, NetOpen
<1>2. ASSUME NEW w \in Writer, Write(w) PROVE StaysUp'
  BY <1>2 DEF Write, WriteReady, WriteSleep, WriteSignal, WriteQueue, WriteFail
<1>3. CASE SendData
  BY <1>3
  DEF SendData, DataEnter, DataDequeue, DataEmpty, DataDrop, DataRequeue, DataOverflow,
      DataPack, DataFlush
<1>4. CASE SendCmd
  BY <1>4
  DEF SendCmd, CmdEnter, CmdDequeue, CmdEmpty, CmdDrop, CmdRequeue, CmdOverflow, CmdPack,
      CmdFlush
<1>5. CASE Irq \/ Worker \/ Chip
  BY <1>5
  DEF Irq, IrqEnter, IrqTx, IrqAck, IrqLeave, Worker, WorkStart, WorkClaim, Chip,
      ChipGrant, ChipReport, ChipDrain
<1>6. CASE UNCHANGED vars
  BY <1>6 DEF vars
<1> QED BY <1>1, <1>2, <1>3, <1>4, <1>5, <1>6 DEF Next

Writers == writer \in [Writer -> {"idle", "asleep", "woken", "past"}]

LEMMA WritersStep == Writers /\ [Next]_vars => Writers'
<1> SUFFICES ASSUME Writers, [Next]_vars PROVE Writers'
  OBVIOUS
<1> USE DEF Writers, users
<1>1. CASE XmitCount \/ Xmit \/ Close
  BY <1>1
  DEF XmitCount, Xmit, XmitQueue, XmitBackOut, XmitStop, Close, CloseStart, CloseCancel,
      CloseDrain, ClosePurge, NetOpen
<1>2. ASSUME NEW w \in Writer, Write(w) PROVE Writers'
  BY <1>2 DEF Write, WriteReady, WriteSleep, WriteSignal, WriteQueue, WriteFail, Moves
<1>3. CASE SendData
  BY <1>3
  DEF SendData, DataEnter, DataDequeue, DataEmpty, DataDrop, DataRequeue, DataOverflow,
      DataPack, DataFlush
<1>4. CASE SendCmd
  <2>1. CASE Wake
    BY <2>1 DEF Wake
  <2>2. CASE UNCHANGED writer
    BY <2>2
  <2> QED
    BY <1>4, <2>1, <2>2
    DEF SendCmd, CmdEnter, CmdDequeue, CmdEmpty, CmdDrop, CmdRequeue, CmdOverflow, CmdPack,
        CmdFlush
<1>5. CASE Irq \/ Worker \/ Chip
  BY <1>5
  DEF Irq, IrqEnter, IrqTx, IrqAck, IrqLeave, Worker, WorkStart, WorkClaim, Chip,
      ChipGrant, ChipReport, ChipDrain
<1>6. CASE UNCHANGED vars
  BY <1>6 DEF vars
<1> QED BY <1>1, <1>2, <1>3, <1>4, <1>5, <1>6 DEF Next

\* What keeps a wake-up coming.
Promised == cmd_txq # <<>> \/ (InCmd /\ (hand # <<>> \/ used > 0))

\* A step that falls asleep for nobody and breaks no promise.
LEMMA PromiseKept ==
    ASSUME WriterNotForgotten, Promised => Promised',
           \A w \in Writer : writer'[w] = "asleep" => writer[w] = "asleep"
    PROVE  WriterNotForgotten'
BY DEF WriterNotForgotten, Promised, InCmd

\* A wake-up leaves nobody asleep.
LEMMA WokenUp == Wake => WriterNotForgotten'
BY DEF Wake, WriterNotForgotten

LEMMA ForgottenCmd ==
    Queues /\ Packed /\ WriterNotForgotten /\ SendCmd => WriterNotForgotten'
<1> SUFFICES ASSUME Queues, Packed, WriterNotForgotten, SendCmd PROVE WriterNotForgotten'
  OBVIOUS
<1> USE DEF Promised, InCmd
<1>1. CASE CmdEnter \/ CmdEmpty
  BY <1>1, PromiseKept DEF CmdEnter, CmdEmpty, users, Release
<1>2. CASE CmdDequeue
  <2>1. hand' # <<>> /\ pc' = "cfit" /\ UNCHANGED writer
    BY <1>2 DEF CmdDequeue, users
  <2> QED BY <2>1, PromiseKept
<1>3. CASE CmdDrop
  BY <1>3, WokenUp DEF CmdDrop
<1>4. CASE CmdRequeue
  <2>1. PICK c \in Cmd : hand = <<c>>
    BY <1>4 DEF CmdRequeue, Queues
  <2>2. cmd_txq' = <<c>> \o cmd_txq /\ UNCHANGED writer
    BY <1>4, <2>1 DEF CmdRequeue, users
  <2>3. cmd_txq' # <<>>
    BY <2>1, <2>2, ConcatProperties, EmptySeq DEF Queues
  <2> QED BY <2>2, <2>3, PromiseKept
<1>5. CASE CmdOverflow
  <2>1. hand' # <<>> /\ pc' = "cfit" /\ UNCHANGED writer
    BY <1>5 DEF CmdOverflow, users, Packed
  <2> QED BY <2>1, PromiseKept
<1>6. CASE CmdPack
  <2>1. hand[1] \in Msg
    BY <1>6 DEF CmdPack, Queues, Msg
  <2>2. used' > 0 /\ pc' = "cpack" /\ UNCHANGED writer
    BY <1>6, <2>1, WireLenPositive DEF CmdPack, Pack, Packed, users
  <2> QED BY <2>2, PromiseKept
<1>7. CASE CmdFlush
  <2>1. CASE used > 0
    <3>1. used # 0
      BY <2>1
    <3>2. Wake
      BY <1>7, <2>1, <3>1, Zenon DEF CmdFlush
    <3> QED BY <3>2, WokenUp
  <2>2. CASE ~(used > 0)
    <3>1. UNCHANGED <<writer, cmd_txq>> /\ hand = <<>> /\ pc = "cflush"
      BY <1>7, <2>2 DEF CmdFlush, Packed
    <3> QED BY <2>2, <3>1, PromiseKept
  <2> QED BY <2>1, <2>2
<1> QED BY <1>1, <1>2, <1>3, <1>4, <1>5, <1>6, <1>7 DEF SendCmd

LEMMA ForgottenWrite ==
    ASSUME NEW w \in Writer, Writers, Queues, WriterNotForgotten, Write(w)
    PROVE  WriterNotForgotten'
<1> USE DEF Promised, InCmd
<1>1. CASE WriteSleep(w)
  BY <1>1 DEF WriteSleep, WriterNotForgotten
<1>2. CASE WriteReady(w) \/ WriteSignal(w) \/ WriteFail(w)
  <2>1. UNCHANGED <<cmd_txq, pc, hand, used>>
    BY <1>2 DEF WriteReady, WriteSignal, WriteFail, locals
  <2>2. \A v \in Writer : writer'[v] = "asleep" => writer[v] = "asleep"
    BY <1>2 DEF WriteReady, WriteSignal, WriteFail, Moves, Writers
  <2> QED BY <2>1, <2>2, PromiseKept
<1>3. CASE WriteQueue(w)
  <2>1. cmd_txq' # <<>>
    BY <1>3, AppendProperties DEF WriteQueue, Queues
  <2> QED BY <2>1 DEF WriterNotForgotten
<1> QED BY <1>1, <1>2, <1>3 DEF Write

\* The steps that hold no promise and take none away.
LEMMA ForgottenRest ==
    StaysUp /\ Queues /\ WriterNotForgotten
      /\ (XmitCount \/ Xmit \/ Close \/ SendData \/ Irq \/ Worker \/ Chip)
      => WriterNotForgotten'
<1> SUFFICES ASSUME StaysUp, Queues, WriterNotForgotten,
                    XmitCount \/ Xmit \/ Close \/ SendData \/ Irq \/ Worker \/ Chip
             PROVE  WriterNotForgotten'
  OBVIOUS
<1> USE DEF StaysUp, Promised, InCmd, stack, users, locals, credit, chip
<1>1. UNCHANGED <<cmd_txq, writer>>
  BY DEF XmitCount, Xmit, XmitQueue, XmitBackOut, XmitStop, Close, CloseStart, CloseCancel,
         CloseDrain, ClosePurge, NetOpen, SendData, DataEnter, DataDequeue, DataEmpty,
         DataDrop, DataRequeue, DataOverflow, DataPack, DataFlush, Irq, IrqEnter, IrqTx,
         IrqAck, IrqLeave, Worker, WorkStart, WorkClaim, Chip, ChipGrant, ChipReport,
         ChipDrain
<1>2. InCmd => UNCHANGED <<pc, hand, used>>
  BY DEF XmitCount, Xmit, XmitQueue, XmitBackOut, XmitStop, Close, CloseStart, CloseCancel,
         CloseDrain, ClosePurge, NetOpen, SendData, DataEnter, DataDequeue, DataEmpty,
         DataDrop, DataRequeue, DataOverflow, DataPack, DataFlush, Irq, IrqEnter, IrqTx,
         IrqAck, IrqLeave, Worker, WorkStart, WorkClaim, Chip, ChipGrant, ChipReport,
         ChipDrain, Queues
<1> QED BY <1>1, <1>2, PromiseKept

\* While the interface stays up, every way in which the command queue runs
\* empty wakes its writers: the batch that carries the last command, or the
\* drop of it.  (The purge of net_close does not: tx_writer_forgotten.)
THEOREM NoWriterForgotten == ASSUME ~IfDown PROVE Spec => []WriterNotForgotten
<1> DEFINE I == Queues /\ Packed /\ Writers /\ StaysUp /\ WriterNotForgotten
<1>1. Init => I
  <2>1. Init => Writers /\ StaysUp /\ WriterNotForgotten
    BY DEF Init, Writers, StaysUp, WriterNotForgotten
  <2> QED BY <2>1, QueuesInit, PackedInit
<1>2. I /\ [Next]_vars => I'
  <2>1. WriterNotForgotten /\ UNCHANGED vars => WriterNotForgotten'
    BY DEF vars, WriterNotForgotten
  <2>2. I /\ Next => WriterNotForgotten'
    BY ForgottenCmd, ForgottenWrite, ForgottenRest DEF Next
  <2> QED BY <2>1, <2>2, QueuesStep, PackedStep, WritersStep, UpStep
<1>3. I => WriterNotForgotten
  OBVIOUS
<1> QED BY <1>1, <1>2, <1>3, PTL DEF Spec

-----------------------------------------------------------------------------
(* Both paths implement TxPipe                                             *)

\* What a transfer takes from the front of a queue, and what it leaves.
LEMMA FrontAndRest ==
    ASSUME NEW S, NEW s \in Seq(S), NEW t \in Seq(S)
    PROVE  /\ SubSeq(s \o t, 1, Len(s)) = s
           /\ SubSeq(s \o t, Len(s) + 1, Len(s \o t)) = t
<1> DEFINE q == s \o t
<1>1. /\ q \in Seq(S) /\ Len(q) = Len(s) + Len(t)
      /\ Len(s) \in Nat /\ Len(t) \in Nat
      /\ \A i \in 1..Len(s) + Len(t) : q[i] = IF i <= Len(s) THEN s[i] ELSE t[i - Len(s)]
  BY ConcatProperties, LenProperties
<1>2. \A i \in 1..Len(q) : q[i] \in S
  BY <1>1, ElementOfSeq
<1> HIDE DEF q
<1>3. SubSeq(q, 1, Len(s)) = s
  <2> DEFINE u == SubSeq(q, 1, Len(s))
  <2>1. /\ u \in Seq(S) /\ Len(u) = IF 1 <= Len(s) THEN Len(s) - 1 + 1 ELSE 0
        /\ \A i \in 1..Len(s) - 1 + 1 : u[i] = q[1 + i - 1]
    BY <1>1, <1>2, SubSeqProperties
  <2> HIDE DEF u
  <2>2. Len(u) = Len(s) /\ \A i \in 1..Len(u) : u[i] = s[i]
    BY <1>1, <2>1
  <2> QED BY <2>1, <2>2, SeqEqual DEF u
<1>4. SubSeq(q, Len(s) + 1, Len(q)) = t
  <2> DEFINE a == Len(s) + 1
             u == SubSeq(q, a, Len(q))
  <2>0. a \in Int /\ Len(q) \in Int /\ \A i \in a..Len(q) : q[i] \in S
    BY <1>1, <1>2
  <2>1. /\ u \in Seq(S) /\ Len(u) = IF a <= Len(q) THEN Len(q) - a + 1 ELSE 0
        /\ \A i \in 1..Len(q) - a + 1 : u[i] = q[a + i - 1]
    BY <2>0, SubSeqProperties
  <2> HIDE DEF u
  <2>2. Len(u) = Len(t)
    BY <1>1, <2>1
  <2>4. ASSUME NEW i \in 1..Len(t) PROVE u[i] = t[i]
    <3>1. u[i] = q[a + i - 1] /\ a + i - 1 = Len(s) + i
      BY <1>1, <2>1
    <3>2. Len(s) + i \in 1..Len(s) + Len(t) /\ ~(Len(s) + i <= Len(s))
          /\ Len(s) + i - Len(s) = i
      BY <1>1
    <3>3. q[Len(s) + i] = t[i]
      BY <1>1, <3>2
    <3> QED BY <3>1, <3>3
  <2>3. u = t
    BY <2>1, <2>2, <2>4, SeqEqual
  <2> QED BY <2>3 DEF u
<1> QED BY <1>3, <1>4 DEF q

\* What is left when one message in the middle is dropped.
LosesOne(q, r) ==
    \E i \in 1..Len(q) : r = SubSeq(q, 1, i - 1) \o SubSeq(q, i + 1, Len(q))

LEMMA WithoutOne ==
    ASSUME NEW S, NEW s \in Seq(S), NEW e \in S, NEW t \in Seq(S)
    PROVE  LosesOne((s \o <<e>>) \o t, s \o t)
<1> DEFINE i == Len(s) + 1
           q == (s \o <<e>>) \o t
<1>1. <<e>> \in Seq(S) /\ Len(<<e>>) = 1
  OBVIOUS
<1>2. <<e>> \o t \in Seq(S) /\ s \o <<e>> \in Seq(S) /\ Len(s \o <<e>>) = i
  BY <1>1, ConcatProperties
<1>3. q = s \o (<<e>> \o t)
  BY <1>1, ConcatAssociative
<1>4. Len(s) \in Nat /\ Len(t) \in Nat /\ Len(q) = i + Len(t)
  BY <1>2, ConcatProperties, LenProperties
<1>5. SubSeq(q, 1, Len(s)) = s
  BY <1>2, <1>3, FrontAndRest
<1>6. SubSeq(q, i + 1, Len(q)) = t
  BY <1>2, FrontAndRest
<1>7. i \in 1..Len(q) /\ i - 1 = Len(s)
  BY <1>4
<1> QED BY <1>5, <1>6, <1>7 DEF LosesOne

LEMMA FirstAndRest ==
    ASSUME NEW S, NEW s \in Seq(S), s # <<>>
    PROVE  /\ Head(s) \in S /\ Tail(s) \in Seq(S)
           /\ s = <<Head(s)>> \o Tail(s)
<1>1. Head(s) \in S /\ Tail(s) \in Seq(S) /\ Len(s) \in Nat /\ Len(s) > 0
  BY HeadTailProperties, LenProperties, EmptySeq
<1>2. /\ SubSeq(s, 1, Len(s)) = s
      /\ SubSeq(s, 1, Len(s)) = <<s[1]>> \o SubSeq(s, 2, Len(s))
  BY <1>1, SubSeqFull, SubSeqRecursiveFirst
<1>3. Head(s) = s[1] /\ Tail(s) = SubSeq(s, 2, Len(s))
  BY TailIsSubSeq
<1> QED BY <1>1, <1>2, <1>3

\* A batch leaves: q becomes r, and what the chip has, w, becomes v.
Leaves(q, r, w, v) ==
    \E n \in 1..Len(q) : /\ r = SubSeq(q, n + 1, Len(q))
                         /\ v \in {w, w \o SubSeq(q, 1, n)}

LEMMA BatchLeaves ==
    ASSUME NEW S, NEW s \in Seq(S), NEW t \in Seq(S), s # <<>>,
           NEW w, NEW v \in {w, w \o s}
    PROVE  Leaves(s \o t, t, w, v)
<1>1. Len(s) \in 1..Len(s \o t)
  BY ConcatProperties, LenProperties, EmptySeq
<1>2. SubSeq(s \o t, 1, Len(s)) = s /\ SubSeq(s \o t, Len(s) + 1, Len(s \o t)) = t
  BY FrontAndRest
<1> QED BY <1>1, <1>2 DEF Leaves

\* What the chip has is in order of arrival, by kind.
Wired == wire_ip \in Seq(Pkt) /\ wire_cmd \in Seq(Cmd)

LEMMA WiredStep == Packed /\ Wired /\ [Next]_vars => Wired'
<1> SUFFICES ASSUME Packed, Wired, [Next]_vars PROVE Wired'
  OBVIOUS
<1> USE DEF Wired, stack, users, locals, credit, chip, fifo
<1>1. CASE XmitCount \/ Xmit \/ Close
  BY <1>1
  DEF XmitCount, Xmit, XmitQueue, XmitBackOut, XmitStop, Close, CloseStart, CloseCancel,
      CloseDrain, ClosePurge, NetOpen
<1>2. ASSUME NEW w \in Writer, Write(w) PROVE Wired'
  BY <1>2 DEF Write, WriteReady, WriteSleep, WriteSignal, WriteQueue, WriteFail
<1>3. CASE SendData
  <2>1. CASE Flush(TRUE) /\ InData
    <3>1. wire_ip \o batch \in Seq(Pkt)
      BY <2>1, ConcatProperties DEF Packed
    <3> QED BY <2>1, <3>1 DEF Flush
  <2>2. CASE UNCHANGED <<wire_ip, wire_cmd>>
    BY <2>2
  <2> QED
    BY <1>3, <2>1, <2>2
    DEF SendData, DataEnter, DataDequeue, DataEmpty, DataDrop, DataRequeue, DataOverflow,
        DataPack, DataFlush, InData
<1>4. CASE SendCmd
  <2>1. CASE Flush(FALSE) /\ InCmd
    <3>1. wire_cmd \o batch \in Seq(Cmd)
      BY <2>1, ConcatProperties DEF Packed
    <3> QED BY <2>1, <3>1 DEF Flush
  <2>2. CASE UNCHANGED <<wire_ip, wire_cmd>>
    BY <2>2
  <2> QED
    BY <1>4, <2>1, <2>2
    DEF SendCmd, CmdEnter, CmdDequeue, CmdEmpty, CmdDrop, CmdRequeue, CmdOverflow, CmdPack,
        CmdFlush, InCmd
<1>5. CASE Irq \/ Worker \/ Chip
  BY <1>5
  DEF Irq, IrqEnter, IrqTx, IrqAck, IrqLeave, Worker, WorkStart, WorkClaim, Chip,
      ChipGrant, ChipReport, ChipDrain
<1>6. CASE UNCHANGED vars
  BY <1>6 DEF vars
<1> QED BY <1>1, <1>2, <1>3, <1>4, <1>5, <1>6 DEF Next

\* The invariant behind the refinement.
LEMMA PipesHold == Spec => [](Queues /\ Packed /\ Wired)
<1>1. Init => Queues /\ Packed /\ Wired
  BY QueuesInit, PackedInit, EmptySeq DEF Init, Wired
<1>2. Queues /\ Packed /\ Wired /\ [Next]_vars => (Queues /\ Packed /\ Wired)'
  BY QueuesStep, PackedStep, WiredStep
<1> QED BY <1>1, <1>2, PTL DEF Spec

\* What the holder of the claim has of each kind, by where it is.
LEMMA HeldData ==
    ASSUME Queues, Packed
    PROVE  /\ DataHeld \in Seq(Pkt)
           /\ pc \in {"pack", "flush"} =>
                 hand = <<>> /\ batch \in Seq(Pkt) /\ DataHeld = batch
           /\ pc = "fit" =>
                 /\ hand[1] \in Pkt /\ hand = <<hand[1]>> /\ hand \in Seq(Pkt)
                 /\ batch \in Seq(Pkt) /\ DataHeld = batch \o hand
           /\ pc = "data" => batch = <<>> /\ hand = <<>>
           /\ ~InData => DataHeld = <<>>
<1>1. CASE pc \in {"pack", "flush"}
  BY <1>1, ConcatEmptySeq DEF DataHeld, InData, Packed
<1>2. CASE pc = "fit"
  <2>1. PICK p \in Pkt : hand = <<p>>
    BY <1>2 DEF Queues
  <2>2. batch \in Seq(Pkt) /\ hand \in Seq(Pkt)
    BY <1>2, <2>1 DEF Packed, InData
  <2> QED BY <1>2, <2>1, <2>2, ConcatProperties DEF DataHeld, InData
<1>3. CASE ~InData
  BY <1>3, EmptySeq DEF DataHeld, InData, InCmd, Packed
<1> QED BY <1>1, <1>2, <1>3 DEF InData

LEMMA HeldCmd ==
    ASSUME Queues, Packed
    PROVE  /\ CmdHeld \in Seq(Cmd)
           /\ pc \in {"cpack", "cflush"} =>
                 hand = <<>> /\ batch \in Seq(Cmd) /\ CmdHeld = batch
           /\ pc = "cfit" =>
                 /\ hand[1] \in Cmd /\ hand = <<hand[1]>> /\ hand \in Seq(Cmd)
                 /\ batch \in Seq(Cmd) /\ CmdHeld = batch \o hand
           /\ pc = "cmd" => batch = <<>> /\ hand = <<>>
           /\ ~InCmd => CmdHeld = <<>>
<1>1. CASE pc \in {"cpack", "cflush"}
  BY <1>1, ConcatEmptySeq DEF CmdHeld, InCmd, Packed
<1>2. CASE pc = "cfit"
  <2>1. PICK c \in Cmd : hand = <<c>>
    BY <1>2 DEF Queues
  <2>2. batch \in Seq(Cmd) /\ hand \in Seq(Cmd)
    BY <1>2, <2>1 DEF Packed, InCmd
  <2> QED BY <1>2, <2>1, <2>2, ConcatProperties DEF CmdHeld, InCmd
<1>3. CASE ~InCmd
  BY <1>3, EmptySeq DEF CmdHeld, InData, InCmd, Packed
<1> QED BY <1>1, <1>2, <1>3 DEF InCmd

\* start_xmit and artosyn_write accept a message.
LEMMA PipeAccepts ==
    ASSUME NEW S, NEW h \in Seq(S), NEW q \in Seq(S), NEW m \in S
    PROVE  h \o Append(q, m) = Append(h \o q, m)
<1>1. Append(q, m) = q \o <<m>> /\ h \o q \in Seq(S) /\ <<m>> \in Seq(S)
  BY AppendIsConcat, ConcatProperties
<1>2. Append(h \o q, m) = (h \o q) \o <<m>>
  BY <1>1, AppendIsConcat
<1> QED BY <1>1, <1>2, ConcatAssociative

LEMMA DataStack ==
    ASSUME Queues, Packed, XmitCount \/ Xmit \/ Close
    PROVE  [DataPipe!Next]_<<DataQueue, wire_ip>>
<1> USE DEF stack, locals, chip
<1>1. UNCHANGED <<DataHeld, wire_ip>>
  BY DEF XmitCount, Xmit, XmitQueue, XmitBackOut, XmitStop, Close, CloseStart, CloseCancel,
         CloseDrain, ClosePurge, NetOpen, DataHeld, InData
<1>2. DataHeld \in Seq(Pkt) /\ data_txq \in Seq(Pkt)
  BY HeldData DEF Queues
<1>3. CASE XmitQueue
  <2>1. PICK p \in Pkt : data_txq' = Append(data_txq, p)
    BY <1>3 DEF XmitQueue, Queues
  <2>2. DataQueue' = Append(DataQueue, p)
    BY <1>1, <1>2, <2>1, PipeAccepts DEF DataQueue
  <2>3. DataPipe!Accept
    BY <1>1, <2>2 DEF DataPipe!Accept
  <2> QED BY <2>3 DEF DataPipe!Next
<1>4. CASE CloseDrain
  <2> DEFINE e == Head(data_txq)
             t == Tail(data_txq)
  <2>1. data_txq # <<>> /\ data_txq' = t
    BY <1>4 DEF CloseDrain
  <2>2. e \in Pkt /\ t \in Seq(Pkt) /\ data_txq = <<e>> \o t
    BY <1>2, <2>1, FirstAndRest
  <2> HIDE DEF e, t
  <2>3. DataQueue = (DataHeld \o <<e>>) \o t /\ DataQueue' = DataHeld \o t
    <3>1. <<e>> \in Seq(Pkt)
      BY <2>2
    <3> QED BY <1>1, <1>2, <2>1, <2>2, <3>1, ConcatAssociative, SMTT(30) DEF DataQueue
  <2>4. LosesOne(DataQueue, DataQueue')
    BY <1>2, <2>2, <2>3, WithoutOne
  <2>5. DataPipe!Drop
    BY <1>1, <2>4 DEF DataPipe!Drop, LosesOne
  <2> QED BY <2>5 DEF DataPipe!Next
<1>5. CASE UNCHANGED data_txq
  BY <1>1, <1>5 DEF DataQueue
<1> QED
  BY <1>3, <1>4, <1>5
  DEF XmitCount, Xmit, XmitBackOut, XmitStop, Close, CloseStart, CloseCancel, ClosePurge,
      NetOpen

\* The front of the queue leaves for the chip, or is lost on the way.
LEMMA DataLeaves ==
    ASSUME NEW t \in Seq(Pkt), batch \in Seq(Pkt), batch # <<>>, DataQueue = batch \o t,
           DataQueue' = t, Flush(TRUE)
    PROVE  DataPipe!Next
<1>1. wire_ip' \in {wire_ip, wire_ip \o batch}
  BY DEF Flush
<1>2. Leaves(DataQueue, DataQueue', wire_ip, wire_ip')
  BY <1>1, BatchLeaves
<1>3. DataPipe!Transfer
  BY <1>2 DEF DataPipe!Transfer, Leaves
<1> QED BY <1>3 DEF DataPipe!Next

LEMMA DataSend ==
    ASSUME Queues, Packed, SendData PROVE [DataPipe!Next]_<<DataQueue, wire_ip>>
<1> USE DEF stack, users, locals, credit, chip, fifo
<1> DEFINE same == DataQueue' = DataQueue /\ wire_ip' = wire_ip
<1>0. data_txq \in Seq(Pkt) /\ <<>> \o data_txq = data_txq
  BY ConcatEmptySeq DEF Queues
<1>1. CASE DataEnter
  <2>1. batch = <<>> /\ hand = <<>> /\ DataHeld = <<>>
    BY <1>1, HeldData DEF DataEnter, InData
  <2>2. DataHeld' = <<>>
    BY <1>1, <2>1, ConcatEmptySeq, EmptySeq DEF DataEnter, DataHeld, InData
  <2> QED BY <1>1, <2>1, <2>2 DEF DataEnter, DataQueue
<1>2. CASE DataDequeue
  <2> DEFINE e == Head(data_txq)
             t == Tail(data_txq)
  <2>1. e \in Pkt /\ t \in Seq(Pkt) /\ data_txq = <<e>> \o t
    BY <1>0, <1>2, FirstAndRest DEF DataDequeue
  <2>2. hand' = <<e>> /\ data_txq' = t /\ pc' = "fit" /\ batch' = batch /\ wire_ip' = wire_ip
    BY <1>2 DEF DataDequeue
  <2>3. batch \in Seq(Pkt) /\ DataHeld = batch
    BY <1>2, HeldData DEF DataDequeue
  <2> HIDE DEF e, t
  <2>4. DataQueue' = (batch \o <<e>>) \o t
    BY <2>2 DEF DataQueue, DataHeld, InData
  <2>5. <<e>> \in Seq(Pkt)
    BY <2>1
  <2>6. DataQueue = batch \o (<<e>> \o t)
    BY <2>1, <2>3 DEF DataQueue
  <2>7. DataQueue' = DataQueue
    BY <2>1, <2>3, <2>4, <2>5, <2>6, ConcatAssociative
  <2> QED BY <2>2, <2>7
<1>3. CASE DataEmpty
  BY <1>3 DEF DataEmpty, DataQueue, DataHeld, InData
<1>4. CASE DataDrop
  <2>1. /\ hand[1] \in Pkt /\ hand = <<hand[1]>> /\ batch \in Seq(Pkt)
        /\ DataHeld = batch \o hand
    BY <1>4, HeldData DEF DataDrop
  <2>2. DataHeld' = batch
    BY <1>4, <2>1, ConcatEmptySeq DEF DataDrop, Discard, DataHeld, InData
  <2>3. DataQueue = (batch \o <<hand[1]>>) \o data_txq /\ DataQueue' = batch \o data_txq
        /\ wire_ip' = wire_ip
    BY <1>4, <2>1, <2>2 DEF DataDrop, DataQueue
  <2>4. LosesOne(DataQueue, DataQueue')
    BY <1>0, <2>1, <2>3, WithoutOne
  <2>5. DataPipe!Drop
    BY <2>3, <2>4 DEF DataPipe!Drop, LosesOne
  <2> QED BY <2>5 DEF DataPipe!Next
<1>5. CASE DataRequeue
  <2>1. hand \in Seq(Pkt) /\ batch \in Seq(Pkt) /\ DataHeld = batch \o hand
    BY <1>5, HeldData DEF DataRequeue
  <2>2. DataHeld' = batch
    BY <1>5, <2>1, ConcatEmptySeq DEF DataRequeue, Discard, DataHeld, InData
  <2>3. DataQueue = (batch \o hand) \o data_txq /\ DataQueue' = batch \o (hand \o data_txq)
        /\ wire_ip' = wire_ip
    BY <1>5, <2>1, <2>2 DEF DataRequeue, DataQueue
  <2>4. DataQueue' = DataQueue
    BY <1>0, <2>1, <2>3, ConcatAssociative
  <2> QED BY <2>3, <2>4
<1>6. CASE DataOverflow
  <2>1. hand \in Seq(Pkt) /\ batch \in Seq(Pkt) /\ DataHeld = batch \o hand
    BY <1>6, HeldData DEF DataOverflow
  <2>2. batch # <<>>
    BY <1>6 DEF DataOverflow, Overflows, Packed
  <2>6. Flush(TRUE)
    BY <1>6 DEF DataOverflow
  <2>3. DataHeld' = hand
    BY <1>6, <2>1, ConcatEmptySeq DEF DataOverflow, DataHeld, InData
  <2>4. hand \o data_txq \in Seq(Pkt) /\ DataQueue' = hand \o data_txq
    BY <1>0, <1>6, <2>1, <2>3, ConcatProperties DEF DataOverflow, DataQueue
  <2>5. DataQueue = batch \o (hand \o data_txq)
    BY <1>0, <2>1, ConcatAssociative DEF DataQueue
  <2> QED BY <2>1, <2>2, <2>4, <2>5, <2>6, DataLeaves
<1>7. CASE DataPack
  <2>1. hand \in Seq(Pkt) /\ batch \in Seq(Pkt) /\ DataHeld = batch \o hand
    BY <1>7, HeldData DEF DataPack
  <2>2. DataHeld' = (batch \o hand) \o <<>>
    BY <1>7 DEF DataPack, Pack, DataHeld, InData
  <2>3. DataHeld' = DataHeld
    BY <2>1, <2>2, ConcatProperties, ConcatEmptySeq
  <2> QED BY <1>7, <2>3 DEF DataPack, DataQueue
<1>8. CASE DataFlush
  <2>1. batch \in Seq(Pkt) /\ DataQueue = batch \o data_txq
    BY <1>8, HeldData DEF DataFlush, DataQueue
  <2>2. DataQueue' = data_txq
    BY <1>0, <1>8 DEF DataFlush, DataQueue, DataHeld, InData
  <2>3. CASE used > 0
    <3>1. batch # <<>>
      BY <2>3 DEF Packed
    <3>2. Flush(TRUE)
      BY <1>8, <2>3, Zenon DEF DataFlush
    <3> QED BY <1>0, <2>1, <2>2, <3>1, <3>2, DataLeaves
  <2>4. CASE ~(used > 0)
    <3>1. batch = <<>> /\ wire_ip' = wire_ip
      BY <1>8, <2>4 DEF DataFlush, Packed
    <3> QED BY <1>0, <2>1, <2>2, <3>1
  <2> QED BY <2>3, <2>4
<1> QED BY <1>1, <1>2, <1>3, <1>4, <1>5, <1>6, <1>7, <1>8 DEF SendData

\* The writers, the other function, the interrupt, the worker and the chip.
LEMMA DataRest ==
    ASSUME Queues, Packed,
           SendCmd \/ Irq \/ Worker \/ Chip \/ (\E w \in Writer : Write(w)) \/ UNCHANGED vars
    PROVE  UNCHANGED <<DataQueue, wire_ip>>
<1> USE DEF stack, users, locals, credit, chip, fifo, DataHeld, InData
<1>1. CASE SendCmd
  BY <1>1
  DEF SendCmd, CmdEnter, CmdDequeue, CmdEmpty, CmdDrop, CmdRequeue, CmdOverflow, CmdPack,
      CmdFlush, Release, Flush, DataQueue
<1>2. CASE Irq \/ Worker
  <2>1. UNCHANGED <<data_txq, wire_ip>> /\ DataHeld' = DataHeld
    BY <1>2, HeldData, ConcatEmptySeq
    DEF Irq, IrqEnter, IrqTx, IrqAck, IrqLeave, Worker, WorkStart, WorkClaim, Queues
  <2> QED BY <2>1 DEF DataQueue
<1>3. CASE Chip \/ UNCHANGED vars
  BY <1>3 DEF Chip, ChipGrant, ChipReport, ChipDrain, vars, DataQueue
<1>4. ASSUME NEW w \in Writer, Write(w) PROVE UNCHANGED <<DataQueue, wire_ip>>
  BY <1>4 DEF Write, WriteReady, WriteSleep, WriteSignal, WriteQueue, WriteFail, DataQueue
<1> QED BY <1>1, <1>2, <1>3, <1>4

\* The data path, with what is packed and what is in the hand at the front of
\* its queue, is a lossy pipe: packets reach the chip at most once, in the
\* order start_xmit accepted them.
THEOREM DataIsAPipe == Spec => DataInOrder
<1>1. Init => DataPipe!Init
  BY ConcatEmptySeq, EmptySeq DEF Init, DataPipe!Init, DataQueue, DataHeld, InData
<1>2. Queues /\ Packed /\ Wired /\ [Next]_vars => [DataPipe!Next]_<<DataQueue, wire_ip>>
  BY DataStack, DataSend, DataRest DEF Next
<1> QED BY <1>1, <1>2, PipesHold, PTL DEF Spec, DataInOrder, DataPipe!Spec

\* An empty frame carries nothing: wire_cmd stays as it is.
LEMMA CmdLeaves ==
    ASSUME NEW t \in Seq(Cmd), batch \in Seq(Cmd), Wired, CmdQueue = batch \o t,
           CmdQueue' = t, Flush(FALSE)
    PROVE  [CmdPipe!Next]_<<CmdQueue, wire_cmd>>
<1>1. wire_cmd' \in {wire_cmd, wire_cmd \o batch}
  BY DEF Flush
<1>2. CASE batch = <<>>
  <2>1. wire_cmd' = wire_cmd /\ CmdQueue' = CmdQueue
    BY <1>1, <1>2, ConcatEmptySeq DEF Wired
  <2> QED BY <2>1
<1>3. CASE batch # <<>>
  <2>1. Leaves(CmdQueue, CmdQueue', wire_cmd, wire_cmd')
    BY <1>1, <1>3, BatchLeaves
  <2>2. CmdPipe!Transfer
    BY <2>1 DEF CmdPipe!Transfer, Leaves
  <2> QED BY <2>2 DEF CmdPipe!Next
<1> QED BY <1>2, <1>3

LEMMA CmdSend ==
    ASSUME Queues, Packed, Wired, SendCmd PROVE [CmdPipe!Next]_<<CmdQueue, wire_cmd>>
<1> USE DEF stack, users, locals, credit, chip, fifo
<1>0. cmd_txq \in Seq(Cmd) /\ <<>> \o cmd_txq = cmd_txq
  BY ConcatEmptySeq DEF Queues
<1>1. CASE CmdEnter
  <2>1. batch = <<>> /\ hand = <<>> /\ CmdHeld = <<>>
    BY <1>1, HeldCmd DEF CmdEnter, InCmd
  <2>2. CmdHeld' = <<>>
    BY <1>1, <2>1, ConcatEmptySeq, EmptySeq DEF CmdEnter, Release, CmdHeld, InCmd
  <2> QED BY <1>1, <2>1, <2>2 DEF CmdEnter, CmdQueue
<1>2. CASE CmdDequeue
  <2> DEFINE e == Head(cmd_txq)
             t == Tail(cmd_txq)
  <2>1. e \in Cmd /\ t \in Seq(Cmd) /\ cmd_txq = <<e>> \o t
    BY <1>0, <1>2, FirstAndRest DEF CmdDequeue
  <2>2. hand' = <<e>> /\ cmd_txq' = t /\ pc' = "cfit" /\ batch' = batch /\ wire_cmd' = wire_cmd
    BY <1>2 DEF CmdDequeue
  <2>3. batch \in Seq(Cmd) /\ CmdHeld = batch
    BY <1>2, HeldCmd DEF CmdDequeue
  <2> HIDE DEF e, t
  <2>4. CmdQueue' = (batch \o <<e>>) \o t
    BY <2>2 DEF CmdQueue, CmdHeld, InCmd
  <2>5. <<e>> \in Seq(Cmd)
    BY <2>1
  <2>6. CmdQueue = batch \o (<<e>> \o t)
    BY <2>1, <2>3 DEF CmdQueue
  <2>7. CmdQueue' = CmdQueue
    BY <2>1, <2>3, <2>4, <2>5, <2>6, ConcatAssociative
  <2> QED BY <2>2, <2>7
<1>3. CASE CmdEmpty
  BY <1>3 DEF CmdEmpty, CmdQueue, CmdHeld, InCmd
<1>4. CASE CmdDrop
  <2>1. /\ hand[1] \in Cmd /\ hand = <<hand[1]>> /\ batch \in Seq(Cmd)
        /\ CmdHeld = batch \o hand
    BY <1>4, HeldCmd DEF CmdDrop
  <2>2. CmdHeld' = batch
    BY <1>4, <2>1, ConcatEmptySeq DEF CmdDrop, Discard, CmdHeld, InCmd
  <2>3. CmdQueue = (batch \o <<hand[1]>>) \o cmd_txq /\ CmdQueue' = batch \o cmd_txq
        /\ wire_cmd' = wire_cmd
    BY <1>4, <2>1, <2>2 DEF CmdDrop, CmdQueue
  <2>4. LosesOne(CmdQueue, CmdQueue')
    BY <1>0, <2>1, <2>3, WithoutOne
  <2>5. CmdPipe!Drop
    BY <2>3, <2>4 DEF CmdPipe!Drop, LosesOne
  <2> QED BY <2>5 DEF CmdPipe!Next
<1>5. CASE CmdRequeue
  <2>1. hand \in Seq(Cmd) /\ batch \in Seq(Cmd) /\ CmdHeld = batch \o hand
    BY <1>5, HeldCmd DEF CmdRequeue
  <2>2. CmdHeld' = batch
    BY <1>5, <2>1, ConcatEmptySeq DEF CmdRequeue, Discard, CmdHeld, InCmd
  <2>3. CmdQueue = (batch \o hand) \o cmd_txq /\ CmdQueue' = batch \o (hand \o cmd_txq)
        /\ wire_cmd' = wire_cmd
    BY <1>5, <2>1, <2>2 DEF CmdRequeue, CmdQueue
  <2>4. CmdQueue' = CmdQueue
    BY <1>0, <2>1, <2>3, ConcatAssociative, SMTT(30)
  <2> QED BY <2>3, <2>4
<1>6. CASE CmdOverflow
  <2>1. hand \in Seq(Cmd) /\ batch \in Seq(Cmd) /\ CmdHeld = batch \o hand
    BY <1>6, HeldCmd DEF CmdOverflow
  <2>2. Flush(FALSE)
    BY <1>6 DEF CmdOverflow
  <2>3. CmdHeld' = hand
    BY <1>6, <2>1, ConcatEmptySeq DEF CmdOverflow, CmdHeld, InCmd
  <2>4. hand \o cmd_txq \in Seq(Cmd) /\ CmdQueue' = hand \o cmd_txq
    BY <1>0, <1>6, <2>1, <2>3, ConcatProperties DEF CmdOverflow, CmdQueue
  <2>5. CmdQueue = batch \o (hand \o cmd_txq)
    BY <1>0, <2>1, ConcatAssociative DEF CmdQueue
  <2> QED BY <2>1, <2>2, <2>4, <2>5, CmdLeaves
<1>7. CASE CmdPack
  <2>1. hand \in Seq(Cmd) /\ batch \in Seq(Cmd) /\ CmdHeld = batch \o hand
    BY <1>7, HeldCmd DEF CmdPack
  <2>2. CmdHeld' = (batch \o hand) \o <<>>
    BY <1>7 DEF CmdPack, Pack, CmdHeld, InCmd
  <2>3. CmdHeld' = CmdHeld
    BY <2>1, <2>2, ConcatProperties, ConcatEmptySeq
  <2> QED BY <1>7, <2>3 DEF CmdPack, CmdQueue
<1>8. CASE CmdFlush
  <2>1. batch \in Seq(Cmd) /\ CmdQueue = batch \o cmd_txq
    BY <1>8, HeldCmd DEF CmdFlush, CmdQueue
  <2>2. CmdQueue' = cmd_txq
    BY <1>0, <1>8 DEF CmdFlush, CmdQueue, CmdHeld, InCmd, Release
  <2>3. CASE Flush(FALSE)
    BY <1>0, <2>1, <2>2, <2>3, CmdLeaves
  <2>4. CASE used = 0 /\ UNCHANGED fifo
    <3>1. batch = <<>> /\ wire_cmd' = wire_cmd
      BY <2>4 DEF Packed
    <3> QED BY <1>0, <2>1, <2>2, <3>1
  <2> QED BY <1>8, <2>3, <2>4, Zenon DEF CmdFlush
<1> QED BY <1>1, <1>2, <1>3, <1>4, <1>5, <1>6, <1>7, <1>8 DEF SendCmd

\* net_close purges what is queued; what is packed or in the hand stays.
LEMMA CmdClose ==
    ASSUME Queues, Packed, XmitCount \/ Xmit \/ Close
    PROVE  [CmdPipe!Next]_<<CmdQueue, wire_cmd>>
<1> USE DEF stack, locals, chip
<1>1. UNCHANGED <<CmdHeld, wire_cmd>>
  BY DEF XmitCount, Xmit, XmitQueue, XmitBackOut, XmitStop, Close, CloseStart, CloseCancel,
         CloseDrain, ClosePurge, NetOpen, CmdHeld, InCmd
<1>2. CmdHeld \in Seq(Cmd) /\ cmd_txq \in Seq(Cmd)
  BY HeldCmd DEF Queues
<1>3. CASE ClosePurge
  <2>1. CmdQueue' = CmdHeld
    BY <1>1, <1>2, <1>3, ConcatEmptySeq DEF ClosePurge, CmdQueue
  <2>2. Len(CmdHeld) \in 0..Len(CmdQueue)
    BY <1>2, ConcatProperties, LenProperties DEF CmdQueue
  <2>3. CmdQueue' = SubSeq(CmdQueue, 1, Len(CmdHeld))
    BY <1>2, <2>1, FrontAndRest DEF CmdQueue
  <2>4. CmdPipe!Purge
    BY <1>1, <2>2, <2>3 DEF CmdPipe!Purge
  <2> QED BY <2>4 DEF CmdPipe!Next
<1>4. CASE UNCHANGED cmd_txq
  BY <1>1, <1>4 DEF CmdQueue
<1> QED
  BY <1>3, <1>4
  DEF XmitCount, Xmit, XmitQueue, XmitBackOut, XmitStop, Close, CloseStart, CloseCancel,
      CloseDrain, NetOpen

LEMMA CmdWrite ==
    ASSUME Queues, Packed, NEW w \in Writer, Write(w)
    PROVE  [CmdPipe!Next]_<<CmdQueue, wire_cmd>>
<1> USE DEF stack, locals, chip, CmdHeld, InCmd
<1>1. CASE WriteQueue(w)
  <2>1. PICK c \in Cmd : cmd_txq' = Append(cmd_txq, c)
    BY <1>1 DEF WriteQueue, Queues
  <2>2. UNCHANGED <<CmdHeld, wire_cmd>>
    BY <1>1 DEF WriteQueue
  <2> HIDE DEF CmdHeld
  <2>3. CmdQueue' = Append(CmdQueue, c)
    BY <2>1, <2>2, HeldCmd, PipeAccepts DEF CmdQueue, Queues
  <2>4. CmdPipe!Accept
    BY <2>2, <2>3 DEF CmdPipe!Accept
  <2> QED BY <2>4 DEF CmdPipe!Next
<1>2. CASE WriteReady(w) \/ WriteSleep(w) \/ WriteSignal(w) \/ WriteFail(w)
  BY <1>2 DEF WriteReady, WriteSleep, WriteSignal, WriteFail, CmdQueue
<1> QED BY <1>1, <1>2 DEF Write

LEMMA CmdRest ==
    ASSUME Queues, Packed, SendData \/ Irq \/ Worker \/ Chip \/ UNCHANGED vars
    PROVE  UNCHANGED <<CmdQueue, wire_cmd>>
<1> USE DEF stack, users, locals, credit, chip, fifo, CmdHeld, InCmd
<1>1. CASE SendData
  BY <1>1
  DEF SendData, DataEnter, DataDequeue, DataEmpty, DataDrop, DataRequeue, DataOverflow,
      DataPack, DataFlush, Flush, CmdQueue
<1>2. CASE Irq \/ Worker
  <2>1. UNCHANGED <<cmd_txq, wire_cmd>> /\ CmdHeld' = CmdHeld
    BY <1>2, HeldCmd, ConcatEmptySeq
    DEF Irq, IrqEnter, IrqTx, IrqAck, IrqLeave, Worker, WorkStart, WorkClaim, Queues
  <2> QED BY <2>1 DEF CmdQueue
<1>3. CASE Chip \/ UNCHANGED vars
  BY <1>3 DEF Chip, ChipGrant, ChipReport, ChipDrain, vars, CmdQueue
<1> QED BY <1>1, <1>2, <1>3

\* The command path is one as well, whatever the writers and the purge of
\* net_close do meanwhile, and with the empty frames that only use up a grant.
THEOREM CmdIsAPipe == Spec => CmdInOrder
<1>1. Init => CmdPipe!Init
  BY ConcatEmptySeq, EmptySeq DEF Init, CmdPipe!Init, CmdQueue, CmdHeld, InCmd
<1>2. Queues /\ Packed /\ Wired /\ [Next]_vars => [CmdPipe!Next]_<<CmdQueue, wire_cmd>>
  BY CmdClose, CmdWrite, CmdSend, CmdRest DEF Next
<1> QED BY <1>1, <1>2, PipesHold, PTL DEF Spec, CmdInOrder, CmdPipe!Spec

=============================================================================
